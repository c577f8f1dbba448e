--------------------------- MODULE MemStoreProofs ---------------------------
(***************************************************************************)
(* Proofs about the in-memory store, alone (Spec) and with its staged      *)
(* uploads (StageSpec), for every pool of blobs, every finite set of       *)
(* goroutines and namespaces and every modulus of the reference counts     *)
(* that is larger than the two together.                                   *)
(*                                                                         *)
(* The inductive invariant MemInv adds to RefsExact, OneBlob and           *)
(* NoDeadBlob which operation can be at which place of the code (OpShape), *)
(* who holds a blob's mutex (LockInv), whose blob is the pool's (HandInv)  *)
(* and what the entry is that a Link has loaded (SourceInv).  The parts    *)
(* need each other: a blob in use is the pool's because its count is not   *)
(* zero, and its count is not zero because entries are counted exactly.    *)
(*                                                                         *)
(* A step of StageSpec is a step of the store, or publish being called, or *)
(* leaves the store alone (StageStep), so MemInv holds of both.            *)
(***************************************************************************)
EXTENDS MemStage, FiniteSetTheorems, TLAPS

\* Where the blob's mutex is held, where the blob in hand is the pool's, where it
\* is referenced if it is, and where the result is known.
LockPcs == {"enter", "inc", "delete", "linkrecheck", "linkdup", "linkenter", "unlock"}
PoolPcs == {"enter", "inc", "dec", "delete", "linkdup", "linkenter"}
LivePcs == {"linkrecheck", "linkdup", "linkenter", "unlock"}
DecidedPcs == {"inc", "dec", "delete", "unlock", "ret"}

\* The operations that can be at a place of the code, and who knows its result.
OpShape ==
    \A p \in Proc :
       /\ pc[p] \in {"check", "store", "lockblob", "enter"} => call[p].op = "Add"
       /\ pc[p] \in {"linkload", "linklock", "linkrecheck", "linkdup", "linkenter"} => call[p].op = "Link"
       /\ pc[p] \in {"erase", "dec", "delete"} => call[p].op = "Erase"
       /\ pc[p] \in {"labelload", "labelstore"} => call[p].op = "Label"
       /\ pc[p] = "open" => call[p].op = "Open"
       /\ res[p] # None <=> pc[p] \in DecidedPcs

Shape == TypeOK /\ OpShape

\* The mutex of a blob is held by who is in its critical section.
LockInv == \A p \in Proc : pc[p] \in LockPcs => mu[b_[p]] = p

\* The blob a goroutine works on, and the pool's.
HandInv ==
    \A p \in Proc :
       /\ pc[p] \in PoolPcs => b_[p] = bs
       /\ pc[p] \in LivePcs /\ b_[p] = bs => refs[bs] > 0
       /\ pc[p] = "delete" => refs[b_[p]] = 0

\* The entry Link loaded is in the source until an Erase takes it.
SourceInv ==
    \A p \in Proc :
       pc[p] \in {"linklock", "linkrecheck"} /\ same[p] => es[call[p].from] = b_[p]

\* The pool's blob, the entries and the goroutines that work on them.
PoolInv == OneBlob /\ NoDeadBlob /\ HandInv /\ SourceInv

MemInv == Shape /\ LockInv /\ PoolInv /\ RefsExact

\* What a Commit of a stage does to the store: it calls publish.
Publish(p) ==
    /\ pc[p] = "idle"
    /\ call' = [call EXCEPT ![p] = [op |-> "Add", ns |-> Owner, from |-> Owner]]
    /\ Goto(p, "store")
    /\ UNCHANGED <<heap, res, b_, same>>

\* A step of the store, whoever calls publish.
MemNext == \E p \in Proc : Call(p) \/ Publish(p) \/ Running(p)

\* A call starts at the first place of its operation's code.
LEMMA FirstStep ==
    ASSUME NEW o \in Ops
    PROVE  /\ First(o) \in {"check", "linkload", "erase", "labelload", "open"}
           /\ First(o) = "check" => o = "Add"
           /\ First(o) = "linkload" => o = "Link"
           /\ First(o) = "erase" => o = "Erase"
           /\ First(o) = "labelload" => o = "Label"
           /\ First(o) = "open" => o = "Open"
  BY MemAssumption DEF First

\* The reference counts are naturals below the modulus, which is not zero.
LEMMA NatMod ==
    /\ UintMod \in Nat /\ UintMod > 0
    /\ 0 \in 0 .. UintMod - 1
    /\ \A i \in Nat : i % UintMod \in 0 .. UintMod - 1
<1>1. Cardinality(Namespace) \in Nat /\ Cardinality(Proc) \in Nat
  BY MemAssumption, FS_CardinalityType
<1> QED BY <1>1, MemAssumption

\* A memBlob that is allocated is one that nothing reaches.
LEMMA NewBlobFree ==
    ASSUME \E b \in Blob : FreeBlob(b)
    PROVE  NewBlob \in Blob /\ FreeBlob(NewBlob)
  BY DEF NewBlob

\* An empty pool has the parts of the invariant that count nothing.
LEMMA InitInv == Init => Shape /\ LockInv /\ PoolInv
  BY MemAssumption, NatMod DEF Init, Shape, TypeOK, OpShape, LockInv, PoolInv, OneBlob,
     NoDeadBlob, HandInv, SourceInv, Labels, Working, LockPcs, PoolPcs, LivePcs, DecidedPcs

\* Every operation goes on at a place of its own code, with its result known from
\* where it is decided on.
LEMMA NextShape == Shape /\ [MemNext]_vars => Shape'
<1> SUFFICES ASSUME Shape, [MemNext]_vars PROVE Shape'
  OBVIOUS
<1> USE MemAssumption, StageAssumption, NatMod DEF heap
<1>0. TypeOK /\ OpShape
  BY DEF Shape
<1>1. CASE UNCHANGED vars
  BY <1>0, <1>1 DEF vars, Shape, TypeOK, OpShape
<1>2. ASSUME NEW p \in Proc, Call(p) PROVE Shape'
  <2>1. PICK c \in Calls : call' = [call EXCEPT ![p] = c] /\ Goto(p, First(c.op))
    BY <1>2 DEF Call
  <2>2. c.op \in Ops
    BY <2>1 DEF Calls
  <2>5. pc' = [pc EXCEPT ![p] = First(c.op)] /\ pc[p] = "idle" /\ res' = res
    BY <1>2, <2>1 DEF Call, Goto
  <2>3. TypeOK'
    BY <1>0, <1>2, <2>1, <2>2, FirstStep DEF Call, Goto, TypeOK, Labels, Working
  <2>4. OpShape'
    <3>1. \A q \in Proc \ {p} : pc'[q] = pc[q] /\ call'[q] = call[q] /\ res'[q] = res[q]
      BY <1>0, <2>1, <2>5 DEF TypeOK
    <3>2. pc'[p] = First(c.op) /\ call'[p] = c /\ res'[p] = None
      BY <1>0, <2>1, <2>5 DEF TypeOK, OpShape, DecidedPcs
    <3>3. First(c.op) \in {"check", "linkload", "erase", "labelload", "open"}
      BY <2>2, FirstStep
    <3>4. /\ First(c.op) = "check" => c.op = "Add"
          /\ First(c.op) = "linkload" => c.op = "Link"
          /\ First(c.op) = "erase" => c.op = "Erase"
          /\ First(c.op) = "labelload" => c.op = "Label"
          /\ First(c.op) = "open" => c.op = "Open"
      BY <2>2, FirstStep
    <3> QED BY <1>0, <3>1, <3>2, <3>3, <3>4 DEF OpShape, DecidedPcs
  <2> QED BY <2>3, <2>4 DEF Shape
<1>3. ASSUME NEW p \in Proc, Publish(p) PROVE Shape'
  <2>1. TypeOK'
    BY <1>0, <1>3 DEF Publish, Goto, TypeOK, Labels, Working, Results, Calls
  <2>2. OpShape'
    BY <1>0, <1>3 DEF Publish, Goto, TypeOK, OpShape, DecidedPcs, Results
  <2> QED BY <2>1, <2>2 DEF Shape
<1>4. ASSUME NEW p \in Proc, Check(p) PROVE Shape'
  <2>1. TypeOK'
    BY <1>0, <1>4 DEF Check, Answer, Goto, TypeOK, Labels, Working, Results, Calls
  <2>2. OpShape'
    BY <1>0, <1>4 DEF Check, Answer, Goto, TypeOK, OpShape, DecidedPcs, Results
  <2> QED BY <2>1, <2>2 DEF Shape
<1>5. ASSUME NEW p \in Proc, Store(p) PROVE Shape'
  <2>1. TypeOK'
    BY <1>0, <1>5, NewBlobFree DEF Store, Goto, TypeOK, Labels, Working, Results, Calls
  <2>2. OpShape'
    BY <1>0, <1>5, NewBlobFree DEF Store, Goto, TypeOK, OpShape, DecidedPcs, Results
  <2> QED BY <2>1, <2>2 DEF Shape
<1>6. ASSUME NEW p \in Proc, LockBlob(p) PROVE Shape'
  <2>1. TypeOK'
    BY <1>0, <1>6 DEF LockBlob, Goto, TypeOK, Labels, Working, Results, Calls
  <2>2. OpShape'
    BY <1>0, <1>6 DEF LockBlob, Goto, TypeOK, OpShape, DecidedPcs, Results
  <2> QED BY <2>1, <2>2 DEF Shape
<1>7. ASSUME NEW p \in Proc, Enter(p) PROVE Shape'
  <2>1. TypeOK'
    BY <1>0, <1>7 DEF Enter, LoadOrStore, Answer, Goto, TypeOK, Labels, Working, Results, Calls
  <2>2. OpShape'
    BY <1>0, <1>7 DEF Enter, LoadOrStore, Answer, Goto, TypeOK, OpShape, DecidedPcs, Results
  <2> QED BY <2>1, <2>2 DEF Shape
<1>8. ASSUME NEW p \in Proc, Inc(p) PROVE Shape'
  <2>1. TypeOK'
    BY <1>0, <1>8 DEF Inc, Goto, TypeOK, Labels, Working, Results, Calls
  <2>2. OpShape'
    BY <1>0, <1>8 DEF Inc, Goto, TypeOK, OpShape, DecidedPcs, Results
  <2> QED BY <2>1, <2>2 DEF Shape
<1>9. ASSUME NEW p \in Proc, Erase(p) PROVE Shape'
  <2>1. TypeOK'
    <3>1. same' \in [Proc -> BOOLEAN]
      <4>1. \/ same' = same
            \/ same' = [q \in Proc |-> same[q] /\ call[q].from # call[p].ns]
        BY <1>9 DEF Erase
      <4> QED BY <1>0, <4>1, Zenon DEF TypeOK
    <3>2. call[p].ns \in Namespace
      BY <1>0, <1>9 DEF Erase, TypeOK, Calls
    <3> QED BY <1>0, <1>9, <3>1, <3>2 DEF Erase, Answer, Goto, TypeOK, Labels, Working, Results
  <2>2. OpShape'
    BY <1>0, <1>9 DEF Erase, Answer, Goto, TypeOK, OpShape, DecidedPcs, Results
  <2> QED BY <2>1, <2>2 DEF Shape
<1>10. ASSUME NEW p \in Proc, Dec(p) PROVE Shape'
  <2>1. TypeOK'
    BY <1>0, <1>10, SMTT(30) DEF Dec, Goto, TypeOK, Labels, Working, Results, Calls
  <2>2. OpShape'
    BY <1>0, <1>10 DEF Dec, Goto, TypeOK, OpShape, DecidedPcs, Results
  <2> QED BY <2>1, <2>2 DEF Shape
<1>11. ASSUME NEW p \in Proc, Delete(p) PROVE Shape'
  <2>1. TypeOK'
    BY <1>0, <1>11 DEF Delete, Goto, TypeOK, Labels, Working, Results, Calls
  <2>2. OpShape'
    BY <1>0, <1>11 DEF Delete, Goto, TypeOK, OpShape, DecidedPcs, Results
  <2> QED BY <2>1, <2>2 DEF Shape
<1>12. ASSUME NEW p \in Proc, LinkLoad(p) PROVE Shape'
  <2>1. TypeOK'
    BY <1>0, <1>12, ZenonT(60) DEF LinkLoad, Answer, Goto, TypeOK, Labels, Working, Results, Calls
  <2>2. OpShape'
    BY <1>0, <1>12 DEF LinkLoad, Answer, Goto, TypeOK, OpShape, DecidedPcs, Results
  <2> QED BY <2>1, <2>2 DEF Shape
<1>13. ASSUME NEW p \in Proc, LinkLock(p) PROVE Shape'
  <2>1. TypeOK'
    BY <1>0, <1>13 DEF LinkLock, Goto, TypeOK, Labels, Working, Results, Calls
  <2>2. OpShape'
    BY <1>0, <1>13 DEF LinkLock, Goto, TypeOK, OpShape, DecidedPcs, Results
  <2> QED BY <2>1, <2>2 DEF Shape
<1>14. ASSUME NEW p \in Proc, LinkRecheck(p) PROVE Shape'
  <2>1. TypeOK'
    BY <1>0, <1>14 DEF LinkRecheck, Answer, Goto, TypeOK, Labels, Working, Results, Calls
  <2>2. OpShape'
    BY <1>0, <1>14 DEF LinkRecheck, Answer, Goto, TypeOK, OpShape, DecidedPcs, Results
  <2> QED BY <2>1, <2>2 DEF Shape
<1>15. ASSUME NEW p \in Proc, LinkDup(p) PROVE Shape'
  <2>1. TypeOK'
    BY <1>0, <1>15 DEF LinkDup, Answer, Goto, TypeOK, Labels, Working, Results, Calls
  <2>2. OpShape'
    BY <1>0, <1>15 DEF LinkDup, Answer, Goto, TypeOK, OpShape, DecidedPcs, Results
  <2> QED BY <2>1, <2>2 DEF Shape
<1>16. ASSUME NEW p \in Proc, LinkEnter(p) PROVE Shape'
  <2>1. TypeOK'
    BY <1>0, <1>16 DEF LinkEnter, LoadOrStore, Answer, Goto, TypeOK, Labels, Working, Results, Calls
  <2>2. OpShape'
    BY <1>0, <1>16 DEF LinkEnter, LoadOrStore, Answer, Goto, TypeOK, OpShape, DecidedPcs, Results
  <2> QED BY <2>1, <2>2 DEF Shape
<1>17. ASSUME NEW p \in Proc, LabelLoad(p) PROVE Shape'
  <2>1. TypeOK'
    BY <1>0, <1>17 DEF LabelLoad, Answer, Goto, TypeOK, Labels, Working, Results, Calls
  <2>2. OpShape'
    BY <1>0, <1>17 DEF LabelLoad, Answer, Goto, TypeOK, OpShape, DecidedPcs, Results
  <2> QED BY <2>1, <2>2 DEF Shape
<1>18. ASSUME NEW p \in Proc, LabelStore(p) PROVE Shape'
  <2>1. TypeOK'
    BY <1>0, <1>18 DEF LabelStore, Answer, Goto, TypeOK, Labels, Working, Results, Calls
  <2>2. OpShape'
    BY <1>0, <1>18 DEF LabelStore, Answer, Goto, TypeOK, OpShape, DecidedPcs, Results
  <2> QED BY <2>1, <2>2 DEF Shape
<1>19. ASSUME NEW p \in Proc, Open(p) PROVE Shape'
  <2>1. TypeOK'
    BY <1>0, <1>19 DEF Open, Answer, Goto, TypeOK, Labels, Working, Results, Calls
  <2>2. OpShape'
    BY <1>0, <1>19 DEF Open, Answer, Goto, TypeOK, OpShape, DecidedPcs, Results
  <2> QED BY <2>1, <2>2 DEF Shape
<1>20. ASSUME NEW p \in Proc, Unlock(p) PROVE Shape'
  <2>1. TypeOK'
    BY <1>0, <1>20 DEF Unlock, Finish, Goto, TypeOK, Labels, Working, Results, Calls
  <2>2. OpShape'
    BY <1>0, <1>20 DEF Unlock, Finish, Goto, TypeOK, OpShape, DecidedPcs, Results
  <2> QED BY <2>1, <2>2 DEF Shape
<1>21. ASSUME NEW p \in Proc, Return(p) PROVE Shape'
  <2>1. TypeOK'
    BY <1>0, <1>21 DEF Return, Finish, Goto, TypeOK, Labels, Working, Results, Calls
  <2>2. OpShape'
    BY <1>0, <1>21 DEF Return, Finish, Goto, TypeOK, OpShape, DecidedPcs, Results
  <2> QED BY <2>1, <2>2 DEF Shape
<1> QED
  BY <1>1, <1>2, <1>3, <1>4, <1>5, <1>6, <1>7, <1>8, <1>9, <1>10, <1>11, <1>12, <1>13, <1>14,
     <1>15, <1>16, <1>17, <1>18, <1>19, <1>20, <1>21 DEF MemNext, Running

-----------------------------------------------------------------------------
(* The mutex of a blob.                                                    *)

\* b.mu is held from Lock to Unlock by the goroutine that locked it, through
\* publish, Link and the last Erase.
LEMMA NextLock == Shape /\ LockInv /\ [MemNext]_vars => LockInv'
<1> SUFFICES ASSUME Shape, LockInv, [MemNext]_vars PROVE LockInv'
  OBVIOUS
<1> USE MemAssumption DEF heap, LockPcs
<1>0. TypeOK
  BY DEF Shape
<1>1. CASE UNCHANGED vars
  BY <1>1 DEF vars, LockInv
<1>2. ASSUME NEW p \in Proc, Call(p) PROVE LockInv'
  <2>1. PICK c \in Calls : pc' = [pc EXCEPT ![p] = First(c.op)]
    BY <1>2 DEF Call, Goto
  <2>2. First(c.op) \notin LockPcs
    BY <2>1, FirstStep DEF Calls
  <2> QED BY <1>0, <1>2, <2>1, <2>2 DEF Call, TypeOK, LockInv
<1>3. ASSUME NEW p \in Proc, Publish(p) PROVE LockInv'
  BY <1>0, <1>3 DEF Publish, Goto, TypeOK, Working, LockInv
<1>4. ASSUME NEW p \in Proc, Check(p) PROVE LockInv'
  BY <1>0, <1>4 DEF Check, Answer, Goto, TypeOK, Working, LockInv
<1>5. ASSUME NEW p \in Proc, Store(p) PROVE LockInv'
  BY <1>0, <1>5, NewBlobFree DEF Store, FreeBlob, Goto, TypeOK, Working, LockInv
<1>6. ASSUME NEW p \in Proc, LockBlob(p) PROVE LockInv'
  BY <1>0, <1>6 DEF LockBlob, Goto, TypeOK, Working, LockInv
<1>7. ASSUME NEW p \in Proc, Enter(p) PROVE LockInv'
  BY <1>0, <1>7 DEF Enter, LoadOrStore, Answer, Goto, TypeOK, Working, LockInv
<1>8. ASSUME NEW p \in Proc, Inc(p) PROVE LockInv'
  BY <1>0, <1>8 DEF Inc, Goto, TypeOK, Working, LockInv
<1>9. ASSUME NEW p \in Proc, Erase(p) PROVE LockInv'
  BY <1>0, <1>9 DEF Erase, Answer, Goto, TypeOK, Working, LockInv
<1>10. ASSUME NEW p \in Proc, Dec(p) PROVE LockInv'
  BY <1>0, <1>10 DEF Dec, Goto, TypeOK, Working, LockInv
<1>11. ASSUME NEW p \in Proc, Delete(p) PROVE LockInv'
  BY <1>0, <1>11 DEF Delete, Goto, TypeOK, Working, LockInv
<1>12. ASSUME NEW p \in Proc, LinkLoad(p) PROVE LockInv'
  BY <1>0, <1>12 DEF LinkLoad, Answer, Goto, TypeOK, Working, LockInv
<1>13. ASSUME NEW p \in Proc, LinkLock(p) PROVE LockInv'
  BY <1>0, <1>13 DEF LinkLock, Goto, TypeOK, Working, LockInv
<1>14. ASSUME NEW p \in Proc, LinkRecheck(p) PROVE LockInv'
  BY <1>0, <1>14 DEF LinkRecheck, Answer, Goto, TypeOK, Working, LockInv
<1>15. ASSUME NEW p \in Proc, LinkDup(p) PROVE LockInv'
  BY <1>0, <1>15 DEF LinkDup, Answer, Goto, TypeOK, Working, LockInv
<1>16. ASSUME NEW p \in Proc, LinkEnter(p) PROVE LockInv'
  BY <1>0, <1>16 DEF LinkEnter, LoadOrStore, Answer, Goto, TypeOK, Working, LockInv
<1>17. ASSUME NEW p \in Proc, LabelLoad(p) PROVE LockInv'
  BY <1>0, <1>17 DEF LabelLoad, Answer, Goto, TypeOK, Working, LockInv
<1>18. ASSUME NEW p \in Proc, LabelStore(p) PROVE LockInv'
  BY <1>0, <1>18 DEF LabelStore, Answer, Goto, TypeOK, Working, LockInv
<1>19. ASSUME NEW p \in Proc, Open(p) PROVE LockInv'
  BY <1>0, <1>19 DEF Open, Answer, Goto, TypeOK, Working, LockInv
<1>20. ASSUME NEW p \in Proc, Unlock(p) PROVE LockInv'
  BY <1>0, <1>20 DEF Unlock, Finish, Goto, TypeOK, Working, LockInv
<1>21. ASSUME NEW p \in Proc, Return(p) PROVE LockInv'
  BY <1>0, <1>21 DEF Return, Finish, Goto, TypeOK, Working, LockInv
<1> QED
  BY <1>1, <1>2, <1>3, <1>4, <1>5, <1>6, <1>7, <1>8, <1>9, <1>10, <1>11, <1>12, <1>13, <1>14,
     <1>15, <1>16, <1>17, <1>18, <1>19, <1>20, <1>21 DEF MemNext, Running

-----------------------------------------------------------------------------
(* Reference counts.                                                       *)

\* The three sets RefsExact counts: the entries that point at a blob, the
\* goroutines about to count one, and those about to count one down.
Entries(b) == {n \in Namespace : es[n] = b}
Counting(b) == {p \in Proc : pc[p] = "inc" /\ b_[p] = b}
Uncounting(b) == {p \in Proc : pc[p] = "dec" /\ b_[p] = b}

\* They are finite, and too few to reach the modulus.
LEMMA CountsFinite ==
    ASSUME NEW b \in Blob
    PROVE  /\ IsFiniteSet(Entries(b)) /\ IsFiniteSet(Counting(b)) /\ IsFiniteSet(Uncounting(b))
           /\ Cardinality(Entries(b)) \in Nat /\ (Cardinality(Entries(b)) = 0 <=> Entries(b) = {})
           /\ Cardinality(Counting(b)) \in Nat /\ (Cardinality(Counting(b)) = 0 <=> Counting(b) = {})
           /\ Cardinality(Uncounting(b)) \in Nat /\ (Cardinality(Uncounting(b)) = 0 <=> Uncounting(b) = {})
           /\ Cardinality(Entries(b)) + Cardinality(Uncounting(b)) < UintMod
<1>1. Entries(b) \in SUBSET Namespace /\ Counting(b) \in SUBSET Proc /\ Uncounting(b) \in SUBSET Proc
  BY DEF Entries, Counting, Uncounting
<1>2. IsFiniteSet(Entries(b)) /\ IsFiniteSet(Counting(b)) /\ IsFiniteSet(Uncounting(b))
  BY <1>1, MemAssumption, FS_Subset
<1>3. /\ Cardinality(Entries(b)) <= Cardinality(Namespace)
      /\ Cardinality(Uncounting(b)) <= Cardinality(Proc)
  BY <1>1, MemAssumption, FS_Subset
<1>4. /\ Cardinality(Entries(b)) \in Nat /\ Cardinality(Counting(b)) \in Nat /\ Cardinality(Uncounting(b)) \in Nat
      /\ Cardinality(Namespace) \in Nat /\ Cardinality(Proc) \in Nat
  BY <1>2, MemAssumption, FS_CardinalityType
<1>5. /\ Cardinality(Entries(b)) = 0 <=> Entries(b) = {}
      /\ Cardinality(Counting(b)) = 0 <=> Counting(b) = {}
      /\ Cardinality(Uncounting(b)) = 0 <=> Uncounting(b) = {}
  BY <1>2, FS_EmptySet
<1>6. Cardinality(Entries(b)) + Cardinality(Uncounting(b)) < UintMod
  BY <1>3, <1>4, MemAssumption
<1> QED BY <1>2, <1>4, <1>5, <1>6

\* RefsExact in the terms of the sets it counts.
LEMMA RefsBalance ==
    RefsExact <=> \A b \in Blob : refs[b] + Cardinality(Counting(b)) = Cardinality(Entries(b)) + Cardinality(Uncounting(b))
  BY DEF RefsExact, Counting, Entries, Uncounting

\* While nobody is about to count an entry, a blob has references exactly when an
\* entry points at it or an Erase has yet to count one down.
LEMMA Referenced ==
    ASSUME Shape, RefsExact, NEW b \in Blob, Counting(b) = {}
    PROVE  refs[b] > 0 <=> (Entries(b) # {} \/ Uncounting(b) # {})
<1>1. refs[b] \in Nat
  BY NatMod DEF Shape, TypeOK
<1> QED BY <1>1, RefsBalance, CountsFinite

\* b.refs++ does not wrap.
LEMMA NoWrapUp ==
    ASSUME Shape, RefsExact, NEW p \in Proc, pc[p] = "inc"
    PROVE  (refs[b_[p]] + 1) % UintMod = refs[b_[p]] + 1
<1> DEFINE b == b_[p]
<1>1. b \in Blob
  BY DEF Shape, TypeOK, Working
<1>2. refs[b] \in 0 .. UintMod - 1 /\ refs[b] \in Nat
  BY <1>1, NatMod DEF Shape, TypeOK
<1>3. Cardinality(Counting(b)) >= 1
  <2>1. p \in Counting(b)
    BY DEF Counting
  <2> QED BY <1>1, <2>1, CountsFinite
<1>4. refs[b] + Cardinality(Counting(b)) = Cardinality(Entries(b)) + Cardinality(Uncounting(b))
  BY <1>1, RefsBalance
<1>5. refs[b] + 1 < UintMod
  BY <1>1, <1>2, <1>3, <1>4, CountsFinite, NatMod
<1>6. \A r, m \in Nat : r + 1 < m => (r + 1) % m = r + 1
  OBVIOUS
<1>7. UintMod \in Nat
  BY NatMod
<1> HIDE DEF b
<1>8. (refs[b] + 1) % UintMod = refs[b] + 1
  BY <1>2, <1>5, <1>6, <1>7
<1> QED BY <1>8 DEF b

\* Every step of publish, Link and Erase keeps the counts exact; one that counts
\* down finds a count that is not zero.
LEMMA NextRefs == Shape /\ LockInv /\ RefsExact /\ [MemNext]_vars => RefsExact'
<1> SUFFICES ASSUME Shape, LockInv, RefsExact, [MemNext]_vars, NEW b \in Blob
             PROVE  (refs[b] + Cardinality(Counting(b)) = Cardinality(Entries(b)) + Cardinality(Uncounting(b)))'
  BY DEF RefsExact, Counting, Entries, Uncounting
<1> USE MemAssumption DEF heap
<1>0. TypeOK
  BY DEF Shape
<1>b. refs[b] + Cardinality(Counting(b)) = Cardinality(Entries(b)) + Cardinality(Uncounting(b))
  BY RefsBalance
<1>n. refs[b] \in 0 .. UintMod - 1 /\ refs[b] \in Nat
  BY <1>0, NatMod DEF TypeOK
<1>s. ASSUME refs' = refs, Entries(b)' = Entries(b), Counting(b)' = Counting(b), Uncounting(b)' = Uncounting(b)
      PROVE  (refs[b] + Cardinality(Counting(b)) = Cardinality(Entries(b)) + Cardinality(Uncounting(b)))'
  BY <1>b, <1>s
<1> DEFINE Balanced == (refs[b] + Cardinality(Counting(b)) = Cardinality(Entries(b)) + Cardinality(Uncounting(b)))'
<1>1. CASE UNCHANGED vars
  BY <1>1, <1>s DEF vars, Entries, Counting, Uncounting
<1>2. ASSUME NEW p \in Proc, Call(p) PROVE Balanced
  <2>1. PICK c \in Calls : pc' = [pc EXCEPT ![p] = First(c.op)] /\ pc[p] = "idle"
    BY <1>2 DEF Call, Goto
  <2>2. First(c.op) \notin {"inc", "dec"}
    BY <2>1, FirstStep DEF Calls
  <2> QED BY <1>0, <1>2, <1>s, <2>1, <2>2 DEF Call, TypeOK, Entries, Counting, Uncounting
<1>3. ASSUME NEW p \in Proc, Publish(p) PROVE Balanced
  <2>1. Entries(b)' = Entries(b) /\ Counting(b)' = Counting(b) /\ Uncounting(b)' = Uncounting(b)
    BY <1>0, <1>3 DEF Publish, Goto, TypeOK, Entries, Counting, Uncounting
  <2> QED BY <1>3, <1>s, <2>1 DEF Publish
<1>4. ASSUME NEW p \in Proc, Check(p) PROVE Balanced
  <2>1. Entries(b)' = Entries(b) /\ Counting(b)' = Counting(b) /\ Uncounting(b)' = Uncounting(b)
    BY <1>0, <1>4 DEF Check, Answer, Goto, TypeOK, Entries, Counting, Uncounting
  <2> QED BY <1>4, <1>s, <2>1 DEF Check
<1>5. ASSUME NEW p \in Proc, Store(p) PROVE Balanced
  <2>1. CASE bs = None /\ b = NewBlob
    <3>1. FreeBlob(NewBlob) /\ NewBlob \in Blob
      BY <1>5, <2>1, NewBlobFree DEF Store
    <3>2. Entries(b)' = {} /\ Counting(b)' = {} /\ Uncounting(b)' = {}
      BY <1>0, <1>5, <2>1, <3>1 DEF Store, Goto, FreeBlob, TypeOK, Entries, Counting, Uncounting
    <3>3. refs'[b] = 0
      BY <1>0, <1>5, <2>1, <3>1 DEF Store, TypeOK
    <3> QED BY <3>2, <3>3, FS_EmptySet
  <2>2. CASE ~(bs = None /\ b = NewBlob)
    <3>1. refs'[b] = refs[b]
      BY <1>0, <1>5, <2>2, NewBlobFree DEF Store, TypeOK
    <3>2. Entries(b)' = Entries(b) /\ Counting(b)' = Counting(b) /\ Uncounting(b)' = Uncounting(b)
      BY <1>0, <1>5 DEF Store, Goto, TypeOK, Entries, Counting, Uncounting
    <3> QED BY <1>b, <3>1, <3>2
  <2> QED BY <2>1, <2>2
<1>6. ASSUME NEW p \in Proc, LockBlob(p) PROVE Balanced
  <2>1. Entries(b)' = Entries(b) /\ Counting(b)' = Counting(b) /\ Uncounting(b)' = Uncounting(b)
    BY <1>0, <1>6 DEF LockBlob, Goto, TypeOK, Entries, Counting, Uncounting
  <2> QED BY <1>6, <1>s, <2>1 DEF LockBlob
<1>7. ASSUME NEW p \in Proc, Enter(p) PROVE Balanced
  <2> DEFINE n == call[p].ns
  <2>0. n \in Namespace
    BY <1>0, <1>7 DEF Enter, TypeOK, Calls
  <2>1. CASE LoadOrStore(p) /\ es[n] = None /\ b = b_[p]
    <3>1. n \notin Entries(b) /\ p \notin Counting(b)
      BY <1>7, <2>1 DEF Enter, Entries, Counting
    <3>2. Entries(b)' = Entries(b) \cup {n}
      BY <1>0, <2>0, <2>1 DEF LoadOrStore, TypeOK, Entries
    <3>3. Counting(b)' = Counting(b) \cup {p} /\ Uncounting(b)' = Uncounting(b)
      BY <1>0, <1>7, <2>1 DEF Enter, LoadOrStore, Answer, Goto, TypeOK, Counting, Uncounting
    <3>4. /\ Cardinality(Entries(b)') = Cardinality(Entries(b)) + 1
          /\ Cardinality(Counting(b)') = Cardinality(Counting(b)) + 1
      BY <3>1, <3>2, <3>3, CountsFinite, FS_AddElement
    <3>5. refs' = refs
      BY <1>7 DEF Enter
    <3> QED BY <1>b, <1>n, <3>3, <3>4, <3>5, CountsFinite
  <2>2. CASE LoadOrStore(p) /\ (es[n] # None \/ b # b_[p])
    <3>1. Entries(b)' = Entries(b)
      BY <1>0, <2>0, <2>2 DEF LoadOrStore, TypeOK, Entries
    <3>2. Counting(b)' = Counting(b) /\ Uncounting(b)' = Uncounting(b)
      BY <1>0, <1>7, <2>2 DEF Enter, LoadOrStore, Answer, Goto, TypeOK, Counting, Uncounting
    <3> QED BY <1>7, <1>s, <3>1, <3>2 DEF Enter
  <2> QED BY <1>7, <2>1, <2>2 DEF Enter
<1>8. ASSUME NEW p \in Proc, Inc(p) PROVE Balanced
  <2>1. CASE b = b_[p]
    <3>1. p \in Counting(b)
      BY <1>8, <2>1 DEF Inc, Counting
    <3>2. Counting(b)' = Counting(b) \ {p} /\ Uncounting(b)' = Uncounting(b) /\ Entries(b)' = Entries(b)
      BY <1>0, <1>8 DEF Inc, Goto, TypeOK, Counting, Uncounting, Entries
    <3>3. Cardinality(Counting(b)') = Cardinality(Counting(b)) - 1
      BY <3>1, <3>2, CountsFinite, FS_RemoveElement
    <3>6. refs'[b] = refs[b] + 1
      BY <1>0, <1>8, <2>1, NoWrapUp DEF Inc, TypeOK
    <3>7. Cardinality(Counting(b)) \in Nat /\ Cardinality(Entries(b)) \in Nat /\ Cardinality(Uncounting(b)) \in Nat
      BY CountsFinite
    <3>8. refs'[b] + Cardinality(Counting(b)') = Cardinality(Entries(b)) + Cardinality(Uncounting(b))
      BY <1>b, <1>n, <3>3, <3>6, <3>7
    <3> QED BY <3>2, <3>8
  <2>2. CASE b # b_[p]
    <3>1. refs'[b] = refs[b]
      BY <1>0, <1>8, <2>2 DEF Inc, TypeOK
    <3>2. Entries(b)' = Entries(b) /\ Counting(b)' = Counting(b) /\ Uncounting(b)' = Uncounting(b)
      BY <1>0, <1>8, <2>2 DEF Inc, Goto, TypeOK, Entries, Counting, Uncounting
    <3> QED BY <1>b, <3>1, <3>2
  <2> QED BY <2>1, <2>2
<1>9. ASSUME NEW p \in Proc, Erase(p) PROVE Balanced
  <2> DEFINE n == call[p].ns
  <2>0. n \in Namespace
    BY <1>0, <1>9 DEF Erase, TypeOK, Calls
  <2>1. CASE es[n] = b
    <3>0. es[n] # None
      BY <2>1
    <3>1. n \in Entries(b) /\ p \notin Uncounting(b)
      BY <1>9, <2>0, <2>1 DEF Erase, Entries, Uncounting
    <3>2. Entries(b)' = Entries(b) \ {n}
      BY <1>0, <1>9, <2>0, <3>0 DEF Erase, TypeOK, Entries
    <3>3. Counting(b)' = Counting(b) /\ Uncounting(b)' = Uncounting(b) \cup {p}
      BY <1>0, <1>9, <2>0, <2>1, <3>0 DEF Erase, Answer, Goto, TypeOK, Counting, Uncounting
    <3>4. Cardinality(Entries(b)') = Cardinality(Entries(b)) - 1
      <4>1. IsFiniteSet(Entries(b))
        BY CountsFinite
      <4> HIDE DEF n
      <4>2. Cardinality(Entries(b) \ {n}) = Cardinality(Entries(b)) - 1
        BY <3>1, <4>1, FS_RemoveElement
      <4> QED BY <3>2, <4>2
    <3>6. Cardinality(Uncounting(b)') = Cardinality(Uncounting(b)) + 1
      BY <3>1, <3>3, CountsFinite, FS_AddElement
    <3>5. refs' = refs
      BY <1>9 DEF Erase
    <3> QED BY <1>b, <1>n, <3>3, <3>4, <3>5, <3>6, CountsFinite
  <2>2. CASE es[n] # b
    <3>1. Entries(b)' = Entries(b)
      BY <1>0, <1>9, <2>0, <2>2 DEF Erase, TypeOK, Entries
    <3>2. Counting(b)' = Counting(b) /\ Uncounting(b)' = Uncounting(b)
      BY <1>0, <1>9, <2>2 DEF Erase, Answer, Goto, TypeOK, Counting, Uncounting
    <3> QED BY <1>9, <1>s, <3>1, <3>2 DEF Erase
  <2> QED BY <2>1, <2>2
<1>10. ASSUME NEW p \in Proc, Dec(p) PROVE Balanced
  <2>1. CASE b = b_[p]
    <3>1. p \in Uncounting(b)
      BY <1>10, <2>1 DEF Dec, Uncounting
    <3>2. Counting(b)' = Counting(b) /\ Uncounting(b)' = Uncounting(b) \ {p} /\ Entries(b)' = Entries(b)
      BY <1>0, <1>10 DEF Dec, Goto, TypeOK, Counting, Uncounting, Entries
    <3>3. Cardinality(Uncounting(b)') = Cardinality(Uncounting(b)) - 1
      BY <3>1, <3>2, CountsFinite, FS_RemoveElement
    <3>4. Counting(b) = {}
      BY <1>10, <2>1 DEF Dec, Counting, LockInv, LockPcs
    <3>5. refs[b] > 0
      BY <3>1, <3>4, Referenced
    <3>6. refs'[b] = refs[b] - 1
      <4>1. refs'[b] = (refs[b] + UintMod - 1) % UintMod
        BY <1>0, <1>10, <2>1 DEF Dec, TypeOK
      <4>2. \A r, m \in Nat : r > 0 /\ r < m => (r + m - 1) % m = r - 1
        OBVIOUS
      <4>3. UintMod \in Nat /\ refs[b] < UintMod
        BY <1>n, NatMod
      <4>4. (refs[b] + UintMod - 1) % UintMod = refs[b] - 1
        BY <1>n, <3>5, <4>2, <4>3
      <4> QED BY <4>1, <4>4
    <3> QED BY <1>b, <1>n, <3>2, <3>3, <3>6, CountsFinite
  <2>2. CASE b # b_[p]
    <3>1. refs'[b] = refs[b]
      BY <1>0, <1>10, <2>2 DEF Dec, TypeOK
    <3>2. Entries(b)' = Entries(b) /\ Counting(b)' = Counting(b) /\ Uncounting(b)' = Uncounting(b)
      BY <1>0, <1>10, <2>2 DEF Dec, Goto, TypeOK, Entries, Counting, Uncounting
    <3> QED BY <1>b, <3>1, <3>2
  <2> QED BY <2>1, <2>2
<1>11. ASSUME NEW p \in Proc, Delete(p) PROVE Balanced
  <2>1. Entries(b)' = Entries(b) /\ Counting(b)' = Counting(b) /\ Uncounting(b)' = Uncounting(b)
    BY <1>0, <1>11 DEF Delete, Goto, TypeOK, Entries, Counting, Uncounting
  <2> QED BY <1>11, <1>s, <2>1 DEF Delete
<1>12. ASSUME NEW p \in Proc, LinkLoad(p) PROVE Balanced
  <2>1. Entries(b)' = Entries(b) /\ Counting(b)' = Counting(b) /\ Uncounting(b)' = Uncounting(b)
    BY <1>0, <1>12 DEF LinkLoad, Answer, Goto, TypeOK, Entries, Counting, Uncounting
  <2> QED BY <1>12, <1>s, <2>1 DEF LinkLoad
<1>13. ASSUME NEW p \in Proc, LinkLock(p) PROVE Balanced
  <2>1. Entries(b)' = Entries(b) /\ Counting(b)' = Counting(b) /\ Uncounting(b)' = Uncounting(b)
    BY <1>0, <1>13 DEF LinkLock, Goto, TypeOK, Entries, Counting, Uncounting
  <2> QED BY <1>13, <1>s, <2>1 DEF LinkLock
<1>14. ASSUME NEW p \in Proc, LinkRecheck(p) PROVE Balanced
  <2>1. Entries(b)' = Entries(b) /\ Counting(b)' = Counting(b) /\ Uncounting(b)' = Uncounting(b)
    BY <1>0, <1>14 DEF LinkRecheck, Answer, Goto, TypeOK, Entries, Counting, Uncounting
  <2> QED BY <1>14, <1>s, <2>1 DEF LinkRecheck
<1>15. ASSUME NEW p \in Proc, LinkDup(p) PROVE Balanced
  <2>1. Entries(b)' = Entries(b) /\ Counting(b)' = Counting(b) /\ Uncounting(b)' = Uncounting(b)
    BY <1>0, <1>15 DEF LinkDup, Answer, Goto, TypeOK, Entries, Counting, Uncounting
  <2> QED BY <1>15, <1>s, <2>1 DEF LinkDup
<1>16. ASSUME NEW p \in Proc, LinkEnter(p) PROVE Balanced
  <2> DEFINE n == call[p].ns
  <2>0. n \in Namespace
    BY <1>0, <1>16 DEF LinkEnter, TypeOK, Calls
  <2>1. CASE LoadOrStore(p) /\ es[n] = None /\ b = b_[p]
    <3>1. n \notin Entries(b) /\ p \notin Counting(b)
      BY <1>16, <2>1 DEF LinkEnter, Entries, Counting
    <3>2. Entries(b)' = Entries(b) \cup {n}
      BY <1>0, <2>0, <2>1 DEF LoadOrStore, TypeOK, Entries
    <3>3. Counting(b)' = Counting(b) \cup {p} /\ Uncounting(b)' = Uncounting(b)
      BY <1>0, <1>16, <2>1 DEF LinkEnter, LoadOrStore, Answer, Goto, TypeOK, Counting, Uncounting
    <3>4. /\ Cardinality(Entries(b)') = Cardinality(Entries(b)) + 1
          /\ Cardinality(Counting(b)') = Cardinality(Counting(b)) + 1
      BY <3>1, <3>2, <3>3, CountsFinite, FS_AddElement
    <3>5. refs' = refs
      BY <1>16 DEF LinkEnter
    <3> QED BY <1>b, <1>n, <3>3, <3>4, <3>5, CountsFinite
  <2>2. CASE LoadOrStore(p) /\ (es[n] # None \/ b # b_[p])
    <3>1. Entries(b)' = Entries(b)
      BY <1>0, <2>0, <2>2 DEF LoadOrStore, TypeOK, Entries
    <3>2. Counting(b)' = Counting(b) /\ Uncounting(b)' = Uncounting(b)
      BY <1>0, <1>16, <2>2 DEF LinkEnter, LoadOrStore, Answer, Goto, TypeOK, Counting, Uncounting
    <3> QED BY <1>16, <1>s, <3>1, <3>2 DEF LinkEnter
  <2>6. CASE Answer(p, "error", "unlock") /\ UNCHANGED es
    <3>1. Entries(b)' = Entries(b) /\ Counting(b)' = Counting(b) /\ Uncounting(b)' = Uncounting(b)
      BY <1>0, <1>16, <2>6 DEF LinkEnter, LoadOrStore, Answer, Goto, TypeOK, Entries, Counting,
         Uncounting
    <3> QED BY <1>16, <1>s, <3>1 DEF LinkEnter
  <2> QED BY <1>16, <2>1, <2>2, <2>6 DEF LinkEnter
<1>17. ASSUME NEW p \in Proc, LabelLoad(p) PROVE Balanced
  <2>1. Entries(b)' = Entries(b) /\ Counting(b)' = Counting(b) /\ Uncounting(b)' = Uncounting(b)
    BY <1>0, <1>17 DEF LabelLoad, Answer, Goto, TypeOK, Entries, Counting, Uncounting
  <2> QED BY <1>17, <1>s, <2>1 DEF LabelLoad
<1>18. ASSUME NEW p \in Proc, LabelStore(p) PROVE Balanced
  <2>1. Entries(b)' = Entries(b) /\ Counting(b)' = Counting(b) /\ Uncounting(b)' = Uncounting(b)
    BY <1>0, <1>18 DEF LabelStore, Answer, Goto, TypeOK, Entries, Counting, Uncounting
  <2> QED BY <1>18, <1>s, <2>1 DEF LabelStore
<1>19. ASSUME NEW p \in Proc, Open(p) PROVE Balanced
  <2>1. Entries(b)' = Entries(b) /\ Counting(b)' = Counting(b) /\ Uncounting(b)' = Uncounting(b)
    BY <1>0, <1>19 DEF Open, Answer, Goto, TypeOK, Entries, Counting, Uncounting
  <2> QED BY <1>19, <1>s, <2>1 DEF Open
<1>20. ASSUME NEW p \in Proc, Unlock(p) PROVE Balanced
  <2>1. Entries(b)' = Entries(b) /\ Counting(b)' = Counting(b) /\ Uncounting(b)' = Uncounting(b)
    BY <1>0, <1>20 DEF Unlock, Finish, Goto, TypeOK, Entries, Counting, Uncounting
  <2> QED BY <1>20, <1>s, <2>1 DEF Unlock
<1>21. ASSUME NEW p \in Proc, Return(p) PROVE Balanced
  <2>1. Entries(b)' = Entries(b) /\ Counting(b)' = Counting(b) /\ Uncounting(b)' = Uncounting(b)
    BY <1>0, <1>21 DEF Return, Finish, Goto, TypeOK, Entries, Counting, Uncounting
  <2> QED BY <1>21, <1>s, <2>1 DEF Return
<1> QED
  BY <1>1, <1>2, <1>3, <1>4, <1>5, <1>6, <1>7, <1>8, <1>9, <1>10, <1>11, <1>12, <1>13, <1>14,
     <1>15, <1>16, <1>17, <1>18, <1>19, <1>20, <1>21 DEF MemNext, Running

\* The entry publish and Link store points at the pool's blob.
LEMMA EntryStored ==
    ASSUME Shape, PoolInv, NEW p \in Proc, pc[p] \in {"enter", "linkenter"}, es[call[p].ns] = None,
           es' = [es EXCEPT ![call[p].ns] = b_[p]], pc' = [pc EXCEPT ![p] = "inc"],
           UNCHANGED <<bs, mu, refs, call, b_, same>>
    PROVE  PoolInv'
<1>0. TypeOK
  BY DEF Shape
<1>1. b_[p] = bs /\ bs \in Blob
  BY <1>0 DEF TypeOK, Working, PoolInv, HandInv, PoolPcs
<1>2. OneBlob' /\ NoDeadBlob'
  BY <1>0, <1>1 DEF TypeOK, PoolInv, OneBlob, NoDeadBlob
<1>3. HandInv'
  BY <1>0, <1>1 DEF TypeOK, PoolInv, HandInv, PoolPcs, LivePcs
<1>4. ASSUME NEW q \in Proc, pc'[q] \in {"linklock", "linkrecheck"} /\ same'[q]
      PROVE  es'[call'[q].from] = b_'[q]
  <2>1. q # p /\ pc[q] \in {"linklock", "linkrecheck"} /\ same[q]
    BY <1>0, <1>4 DEF TypeOK
  <2>2. es[call[q].from] = b_[q] /\ b_[q] # None
    BY <1>0, <2>1, MemAssumption DEF TypeOK, Working, PoolInv, SourceInv
  <2>3. call[q].from \in Namespace
    BY <1>0, <2>1 DEF TypeOK, Calls
  <2> QED BY <1>0, <2>1, <2>2, <2>3 DEF TypeOK
<1>5. SourceInv'
  BY <1>4 DEF SourceInv
<1> QED BY <1>2, <1>3, <1>5 DEF PoolInv

\* Entries point at the pool's blob, and bs.Delete takes it only when there are
\* none: the blob that is deleted is the one whose count reached zero, and who
\* found it meanwhile sees a count of zero.
LEMMA NextPool == Shape /\ LockInv /\ RefsExact /\ PoolInv /\ [MemNext]_vars => PoolInv'
<1> SUFFICES ASSUME Shape, LockInv, RefsExact, PoolInv, [MemNext]_vars PROVE PoolInv'
  OBVIOUS
<1> USE MemAssumption DEF heap, OneBlob, NoDeadBlob, HandInv, SourceInv, PoolPcs, LivePcs, LockPcs
<1>0. TypeOK /\ OpShape
  BY DEF Shape
<1>r. \A b \in Blob : refs[b] \in Nat
  BY <1>0, NatMod DEF TypeOK
<1>1. CASE UNCHANGED vars
  BY <1>1 DEF vars, PoolInv
<1>2. ASSUME NEW p \in Proc, Call(p) PROVE PoolInv'
  <2>1. PICK c \in Calls : pc' = [pc EXCEPT ![p] = First(c.op)] /\ call' = [call EXCEPT ![p] = c]
    BY <1>2 DEF Call, Goto
  <2>2. First(c.op) \in {"check", "linkload", "erase", "labelload", "open"}
    BY <2>1, FirstStep DEF Calls
  <2> QED BY <1>0, <1>2, <2>1, <2>2 DEF Call, TypeOK, PoolInv
<1>3. ASSUME NEW p \in Proc, Publish(p) PROVE PoolInv'
  BY <1>0, <1>r, <1>3 DEF Publish, Goto, TypeOK, Working, PoolInv, LockInv
<1>4. ASSUME NEW p \in Proc, Check(p) PROVE PoolInv'
  BY <1>0, <1>r, <1>4 DEF Check, Answer, Goto, TypeOK, Working, PoolInv, LockInv
<1>5. ASSUME NEW p \in Proc, Store(p) PROVE PoolInv'
  <2>1. CASE bs = None
    <3>1. NewBlob \in Blob /\ FreeBlob(NewBlob)
      BY <1>5, <2>1, NewBlobFree DEF Store
    <3>2. \A n \in Namespace : es[n] = None
      BY <2>1 DEF PoolInv
    <3>3. \A q \in Proc : pc[q] \notin PoolPcs
      BY <1>0, <2>1 DEF PoolInv, TypeOK, Working
    <3>4. mu'[NewBlob] = p /\ bs' = NewBlob /\ pc' = [pc EXCEPT ![p] = "enter"]
      BY <1>0, <1>5, <2>1, <3>1 DEF Store, Goto, TypeOK
    <3> QED BY <1>0, <1>5, <2>1, <3>1, <3>2, <3>3, <3>4 DEF Store, FreeBlob, TypeOK, PoolInv
  <2>2. CASE bs # None
    BY <1>0, <1>5, <2>2 DEF Store, Goto, TypeOK, PoolInv
  <2> QED BY <2>1, <2>2
<1>6. ASSUME NEW p \in Proc, LockBlob(p) PROVE PoolInv'
  <2> DEFINE b == b_[p]
  <2>0. b \in Blob
    BY <1>0, <1>6 DEF LockBlob, TypeOK, Working
  <2>1. CASE refs[b] = 0
    BY <1>0, <1>6, <2>1 DEF LockBlob, Goto, TypeOK, PoolInv
  <2>2. CASE refs[b] # 0
    <3>1. Counting(b) = {}
      BY <1>6 DEF LockBlob, Counting, LockInv
    <3>2. Entries(b) # {} \/ Uncounting(b) # {}
      BY <1>r, <2>0, <2>2, <3>1, Referenced
    <3>3. b = bs
      BY <2>0, <3>2 DEF Entries, Uncounting, PoolInv
    <3> QED BY <1>0, <1>6, <2>0, <2>2, <3>3 DEF LockBlob, Goto, TypeOK, PoolInv
  <2> QED BY <2>1, <2>2
<1>7. ASSUME NEW p \in Proc, Enter(p) PROVE PoolInv'
  <2> DEFINE n == call[p].ns
  <2>0. n \in Namespace /\ b_[p] = bs /\ bs \in Blob
    BY <1>0, <1>7 DEF Enter, TypeOK, Calls, Working, PoolInv
  <2>1. CASE es[n] # None
    <3>1. Counting(bs) = {}
      BY <1>7, <2>0 DEF Enter, Counting, LockInv
    <3>2. n \in Entries(bs)
      BY <2>0, <2>1 DEF Entries, PoolInv
    <3>3. refs[bs] > 0
      BY <2>0, <3>1, <3>2, Referenced
    <3> QED BY <1>0, <1>7, <2>1, <3>3 DEF Enter, LoadOrStore, Answer, Goto, TypeOK, PoolInv
  <2>2. CASE es[n] = None
    BY <1>7, <2>2, EntryStored DEF Enter, LoadOrStore, Answer, Goto
  <2> QED BY <2>1, <2>2
<1>8. ASSUME NEW p \in Proc, Inc(p) PROVE PoolInv'
  <2>0. b_[p] = bs /\ bs \in Blob /\ mu[bs] = p
    BY <1>0, <1>8 DEF Inc, TypeOK, Working, PoolInv, LockInv
  <2>1. refs' = [refs EXCEPT ![bs] = refs[bs] + 1]
    BY <1>0, <1>8, <2>0, NoWrapUp DEF Inc
  <2>2. \A q \in Proc : pc[q] = "delete" => b_[q] # bs
    BY <1>8, <2>0 DEF Inc, LockInv
  <2> QED BY <1>0, <1>r, <1>8, <2>0, <2>1, <2>2 DEF Inc, Goto, TypeOK, PoolInv
<1>9. ASSUME NEW p \in Proc, Erase(p) PROVE PoolInv'
  <2> DEFINE n == call[p].ns
  <2>0. n \in Namespace
    BY <1>0, <1>9 DEF Erase, TypeOK, Calls
  <2>1. CASE es[n] = None
    BY <1>0, <1>9, <2>1 DEF Erase, Answer, Goto, TypeOK, PoolInv
  <2>2. CASE es[n] # None
    <3>1. es[n] = bs
      BY <2>0, <2>2 DEF PoolInv
    <3>2. es' = [es EXCEPT ![n] = None] /\ b_' = [b_ EXCEPT ![p] = bs] /\ pc' = [pc EXCEPT ![p] = "dec"]
      BY <1>9, <2>2, <3>1 DEF Erase, Answer, Goto
    <3>3. bs' = bs /\ refs' = refs /\ mu' = mu /\ call' = call
      BY <1>9 DEF Erase
    <3>4. \A q \in Proc : same'[q] => same[q] /\ call[q].from # n
      BY <1>9, <2>2 DEF Erase
    <3>5. ASSUME NEW q \in Proc, pc'[q] \in {"linklock", "linkrecheck"} /\ same'[q]
          PROVE  es'[call'[q].from] = b_'[q]
      <4>1. q # p /\ pc[q] \in {"linklock", "linkrecheck"} /\ same[q] /\ call[q].from # n
        BY <1>0, <3>2, <3>4, <3>5 DEF TypeOK
      <4>2. call[q] \in Calls
        BY <1>0, <4>1 DEF TypeOK
      <4>3. call[q].from \in Namespace
        BY <4>2 DEF Calls
      <4> QED BY <1>0, <3>2, <3>3, <4>1, <4>3 DEF TypeOK, PoolInv
    <3>6. OneBlob' /\ NoDeadBlob'
      BY <1>0, <2>0, <3>2, <3>3 DEF TypeOK, PoolInv
    <3>7. HandInv'
      BY <1>0, <3>2, <3>3 DEF TypeOK, PoolInv
    <3>8. SourceInv'
      BY <3>5 DEF SourceInv
    <3> QED BY <3>6, <3>7, <3>8 DEF PoolInv
  <2> QED BY <2>1, <2>2
<1>10. ASSUME NEW p \in Proc, Dec(p) PROVE PoolInv'
  BY <1>0, <1>r, <1>10 DEF Dec, Goto, TypeOK, Working, PoolInv, LockInv
<1>11. ASSUME NEW p \in Proc, Delete(p) PROVE PoolInv'
  <2>0. b_[p] = bs /\ bs \in Blob /\ mu[bs] = p /\ refs[bs] = 0
    BY <1>0, <1>11 DEF Delete, TypeOK, Working, PoolInv, LockInv
  <2>1. Counting(bs) = {}
    BY <1>11, <2>0 DEF Delete, Counting, LockInv
  <2>2. Entries(bs) = {} /\ Uncounting(bs) = {}
    BY <2>0, <2>1, Referenced
  <2>3. \A n \in Namespace : es[n] = None
    BY <2>2 DEF Entries, PoolInv
  <2>4. \A q \in Proc \ {p} : pc[q] \notin PoolPcs
    BY <2>0, <2>2 DEF Uncounting, PoolInv, LockInv
  <2>5. \A q \in Proc : pc[q] \in LivePcs => b_[q] # None
    BY <1>0 DEF TypeOK, Working
  <2> QED BY <1>0, <1>11, <2>3, <2>4, <2>5 DEF Delete, Goto, TypeOK, PoolInv
<1>12. ASSUME NEW p \in Proc, LinkLoad(p) PROVE PoolInv'
  BY <1>0, <1>r, <1>12 DEF LinkLoad, Answer, Goto, TypeOK, Working, PoolInv, LockInv
<1>13. ASSUME NEW p \in Proc, LinkLock(p) PROVE PoolInv'
  BY <1>0, <1>r, <1>13 DEF LinkLock, Goto, TypeOK, Working, PoolInv, LockInv
<1>14. ASSUME NEW p \in Proc, LinkRecheck(p) PROVE PoolInv'
  <2>1. CASE same[p]
    <3>1. b_[p] = bs
      BY <1>0, <1>14, <2>1 DEF LinkRecheck, TypeOK, Calls, Working, PoolInv
    <3> QED BY <1>0, <1>14, <2>1, <3>1 DEF LinkRecheck, Goto, TypeOK, PoolInv
  <2>2. CASE ~same[p]
    BY <1>0, <1>14, <2>2 DEF LinkRecheck, Answer, Goto, TypeOK, PoolInv
  <2> QED BY <2>1, <2>2
<1>15. ASSUME NEW p \in Proc, LinkDup(p) PROVE PoolInv'
  BY <1>0, <1>r, <1>15 DEF LinkDup, Answer, Goto, TypeOK, Working, PoolInv, LockInv
<1>16. ASSUME NEW p \in Proc, LinkEnter(p) PROVE PoolInv'
  <2>0. call[p].ns \in Namespace /\ b_[p] = bs /\ bs \in Blob /\ refs[bs] > 0
    BY <1>0, <1>16 DEF LinkEnter, TypeOK, Calls, Working, PoolInv
  <2>1. CASE LoadOrStore(p) /\ es[call[p].ns] = None
    BY <1>16, <2>1, EntryStored DEF LinkEnter, LoadOrStore, Answer, Goto
  <2>2. CASE es' = es
    BY <1>0, <1>16, <2>0, <2>2 DEF LinkEnter, LoadOrStore, Answer, Goto, TypeOK, PoolInv
  <2> QED BY <1>16, <2>1, <2>2 DEF LinkEnter, LoadOrStore
<1>17. ASSUME NEW p \in Proc, LabelLoad(p) PROVE PoolInv'
  BY <1>0, <1>r, <1>17 DEF LabelLoad, Answer, Goto, TypeOK, Working, PoolInv, LockInv
<1>18. ASSUME NEW p \in Proc, LabelStore(p) PROVE PoolInv'
  BY <1>0, <1>r, <1>18 DEF LabelStore, Answer, Goto, TypeOK, Working, PoolInv, LockInv
<1>19. ASSUME NEW p \in Proc, Open(p) PROVE PoolInv'
  BY <1>0, <1>r, <1>19 DEF Open, Answer, Goto, TypeOK, Working, PoolInv, LockInv
<1>20. ASSUME NEW p \in Proc, Unlock(p) PROVE PoolInv'
  BY <1>0, <1>r, <1>20 DEF Unlock, Finish, Goto, TypeOK, Working, PoolInv, LockInv
<1>21. ASSUME NEW p \in Proc, Return(p) PROVE PoolInv'
  BY <1>0, <1>r, <1>21 DEF Return, Finish, Goto, TypeOK, Working, PoolInv, LockInv
<1> QED
  BY <1>1, <1>2, <1>3, <1>4, <1>5, <1>6, <1>7, <1>8, <1>9, <1>10, <1>11, <1>12, <1>13, <1>14,
     <1>15, <1>16, <1>17, <1>18, <1>19, <1>20, <1>21 DEF MemNext, Running

\* Every step of the store, with or without staged uploads, keeps MemInv.
LEMMA NextMem == MemInv /\ [MemNext]_vars => MemInv'
  BY NextShape, NextLock, NextRefs, NextPool DEF MemInv

\* The empty store has the invariant.
LEMMA InitMem == Init => MemInv
<1> SUFFICES ASSUME Init PROVE MemInv
  OBVIOUS
<1>1. Shape /\ LockInv /\ PoolInv
  BY InitInv
<1>2. \A b \in Blob : Entries(b) = {} /\ Counting(b) = {} /\ Uncounting(b) = {}
  BY MemAssumption DEF Init, Entries, Counting, Uncounting
<1>3. \A b \in Blob : refs[b] = 0
  BY DEF Init
<1>4. RefsExact
  BY <1>2, <1>3, FS_EmptySet, RefsBalance
<1> QED BY <1>1, <1>4 DEF MemInv

\* A step of the composition is a step of the store, a call of publish, or none.
LEMMA StageStep == [StageNext]_allVars => [MemNext]_vars
<1> SUFFICES ASSUME [StageNext]_allVars PROVE [MemNext]_vars
  OBVIOUS
<1>1. CASE UNCHANGED allVars
  BY <1>1 DEF allVars
<1>2. ASSUME NEW p \in Proc, Staging(p) PROVE [MemNext]_vars
  <2>1. CASE Complete(p)
    BY <2>1 DEF Complete, Publish, MemNext
  <2>2. CASE ~Complete(p)
    <3>1. UNCHANGED vars
      BY <1>2, <2>2 DEF Staging, Begin, Find, Refused, AppendBegin, AppendAll, Commit, Abort,
         PruneBegin,
                        Prune, StatExisting, Receipt, StageFail
    <3> QED BY <3>1
  <2> QED BY <2>1, <2>2
<1>3. ASSUME NEW p \in Proc, StoreCall(p) \/ StoreRunning(p) PROVE [MemNext]_vars
  BY <1>3 DEF StoreCall, StoreRunning, MemNext
<1>4. CASE Expire
  BY <1>4 DEF Expire
<1> QED BY <1>1, <1>2, <1>3, <1>4 DEF StageNext

\* The invariant holds of the store, and of the store with its staged uploads.
THEOREM MemInvariant == (Spec => []MemInv) /\ (StageSpec => []MemInv)
<1>1. [Next]_vars => [MemNext]_vars
  BY DEF Next, MemNext
<1>2. StageInit => Init
  BY DEF StageInit
<1> QED BY <1>1, <1>2, InitMem, NextMem, StageStep, PTL DEF Spec, StageSpec

\* A blob's refs is exactly the entries that are counted, and never wraps, for
\* every number of goroutines that publish, Link and Erase (mem.go, memBlob.refs).
THEOREM RefsExactCorrect == (Spec => []RefsExact) /\ (StageSpec => []RefsExact)
<1>1. MemInv => RefsExact
  BY DEF MemInv
<1> QED BY <1>1, MemInvariant, PTL

\* Every entry points at the blob bs has for the digest: bs.Delete, by key, never
\* takes a blob that is in use (mem.go, MemStore.Erase).
THEOREM OneBlobCorrect == (Spec => []OneBlob) /\ (StageSpec => []OneBlob)
<1>1. MemInv => OneBlob
  BY DEF MemInv, PoolInv
<1> QED BY <1>1, MemInvariant, PTL

\* publish never retries in vain: a blob that bs holds with no references is one
\* whose mutex the goroutine that adds it, or deletes it, still has (mem.go).
THEOREM NoDeadBlobCorrect == (Spec => []NoDeadBlob) /\ (StageSpec => []NoDeadBlob)
<1>1. MemInv => NoDeadBlob
  BY DEF MemInv, PoolInv
<1> QED BY <1>1, MemInvariant, PTL

-----------------------------------------------------------------------------
(* The staged upload.                                                      *)

\* Where a commit is in progress.
CompletePcs == {"complete", "publish", "stat", "receipt"}

\* What who has the lock knows of the stage.
StageInv ==
    /\ StageWhole
    /\ lock # None \/ state = "committing" => staged
    /\ \A p \in Proc :
          /\ spc[p] = "append" => state = "active" /\ off[p] = Len(data)
          /\ spc[p] \in CompletePcs => state = "committing"
          /\ spc[p] = "prune" => state # "committing"

\* The variables of the operations on the stage have their types.
WorkType ==
    /\ lock \in Proc \cup {None}
    /\ sop \in [Proc -> StageOps \cup {"Prune", None}]
    /\ spc \in [Proc -> StageLabels]
    /\ off \in [Proc -> 0 .. Chunks]
    /\ \A p \in Proc : (spc[p] \notin {"idle", "acquire"}) <=> lock = p

\* A return leaves the lock to nobody, or to who has it.
LEMMA ReturnWork ==
    ASSUME WorkType, NEW p \in Proc, StageReturn(p)
    PROVE  WorkType'
<1> USE MemAssumption, StageAssumption
<1>1. \A q \in Proc \ {p} : spc'[q] = spc[q]
  BY DEF StageReturn, At, WorkType
<1>2. spc'[p] = "idle" /\ spc' \in [Proc -> StageLabels]
  BY DEF StageReturn, At, WorkType, StageLabels
<1>3. lock' \in Proc \cup {None} /\ lock' = IF lock = p THEN None ELSE lock
  BY DEF StageReturn, WorkType
<1>4. \A q \in Proc : (spc'[q] \notin {"idle", "acquire"}) <=> lock' = q
  BY <1>1, <1>2, <1>3 DEF WorkType
<1>5. sop' \in [Proc -> StageOps \cup {"Prune", None}] /\ off' \in [Proc -> 0 .. Chunks]
  <2>1. 0 \in 0 .. Chunks
    OBVIOUS
  <2> QED BY <2>1 DEF StageReturn, WorkType
<1> QED BY <1>2, <1>3, <1>4, <1>5 DEF WorkType

\* An operation takes the free lock, or goes on with it.
LEMMA HoldWork ==
    ASSUME WorkType, NEW p \in Proc, lock \in {None, p},
           NEW o \in StageOps \cup {"Prune", None}, NEW n \in 0 .. Chunks,
           NEW l \in StageLabels \ {"idle", "acquire"}, Hold(p, o, n, l)
    PROVE  WorkType'
<1> USE MemAssumption, StageAssumption
<1>1. \A q \in Proc \ {p} : spc'[q] = spc[q]
  BY DEF Hold, At, WorkType
<1>2. spc'[p] = l /\ spc' \in [Proc -> StageLabels]
  BY DEF Hold, At, WorkType
<1>3. lock' = p
  BY DEF Hold
<1>4. \A q \in Proc : (spc'[q] \notin {"idle", "acquire"}) <=> lock' = q
  BY <1>1, <1>2, <1>3 DEF WorkType
<1> QED BY <1>2, <1>3, <1>4 DEF Hold, WorkType

\* Every step keeps the types of the stage, and what is known of it.
LEMMA NextStage ==
    StageTypeOK /\ TypeOK' /\ StageInv /\ [StageNext]_allVars => StageTypeOK' /\ StageInv'
<1> SUFFICES ASSUME StageTypeOK, TypeOK', StageInv, [StageNext]_allVars PROVE StageTypeOK' /\ StageInv'
  OBVIOUS
<1> USE MemAssumption, StageAssumption DEF entry, StageOps, StageStates, StageLabels, CompletePcs
<1>0. WorkType
  BY DEF StageTypeOK, WorkType
<1>t. ASSUME WorkType', staged' \in BOOLEAN, expired' \in BOOLEAN, state' \in StageStates, data' \in Seq(1 .. Chunks)
      PROVE  StageTypeOK'
  BY <1>t DEF StageTypeOK, WorkType
<1>e. <<>> \in Seq(1 .. Chunks) /\ Len(<<>>) = 0 /\ DOMAIN <<>> = {} /\ 0 \in 0 .. Chunks
  OBVIOUS
<1>1. CASE UNCHANGED allVars
  BY <1>1 DEF allVars, stageVars, StageTypeOK, StageInv, StageWhole
<1>2. ASSUME NEW p \in Proc, Begin(p) PROVE StageTypeOK' /\ StageInv'
  <2>1. StageTypeOK'
    <3>1. WorkType'
      BY <1>0, <1>2 DEF Begin, WorkType
    <3> QED BY <1>e, <1>t, <1>2, <3>1 DEF Begin, NewRecord, Renew, StageTypeOK
  <2>2. StageInv'
    BY <1>2 DEF Begin, NewRecord, Renew, StageTypeOK, StageInv, StageWhole
  <2> QED BY <2>1, <2>2
<1>3. ASSUME NEW p \in Proc, Find(p) PROVE StageTypeOK' /\ StageInv'
  <2>1. StageTypeOK'
    BY <1>3 DEF Find, At, StageTypeOK
  <2>2. StageInv'
    BY <1>3 DEF Find, At, StageTypeOK, StageInv, StageWhole
  <2> QED BY <2>1, <2>2
<1>4. ASSUME NEW p \in Proc, Refused(p) PROVE StageTypeOK' /\ StageInv'
  <2>1. StageTypeOK'
    BY <1>4 DEF Refused, StageReturn, At, StageTypeOK
  <2>2. StageInv'
    BY <1>4 DEF Refused, StageReturn, At, StageTypeOK, StageInv, StageWhole
  <2> QED BY <2>1, <2>2
<1>5. ASSUME NEW p \in Proc, NEW n \in 0 .. Chunks, AppendBegin(p, n) PROVE StageTypeOK' /\ StageInv'
  <2>1. StageTypeOK'
    <3>1. WorkType'
      BY <1>0, <1>e, <1>5, ReturnWork, HoldWork DEF AppendBegin, Acquire
    <3>2. staged' \in BOOLEAN /\ expired' \in BOOLEAN /\ state' \in StageStates /\ data' \in Seq(1 .. Chunks)
      BY <1>e, <1>5 DEF AppendBegin, StageTypeOK
    <3> QED BY <1>t, <3>1, <3>2
  <2>2. StageInv'
    BY <1>5 DEF AppendBegin, Acquire, Acquired, StageReturn, Hold, At, StageTypeOK, StageInv,
       StageWhole
  <2> QED BY <2>1, <2>2
<1>6. ASSUME NEW p \in Proc, AppendAll(p) PROVE StageTypeOK' /\ StageInv'
  <2>1. PICK n \in 0 .. Chunks - off[p] : data' = data \o [i \in 1 .. n |-> off[p] + i]
    BY <1>6 DEF AppendAll
  <2> DEFINE new == [i \in 1 .. n |-> off[p] + i]
  <2>2. off[p] = Len(data) /\ off[p] \in 0 .. Chunks /\ n \in Nat
    BY <1>6, <2>1 DEF AppendAll, StageInv, StageTypeOK
  <2>3. new \in Seq(1 .. Chunks) /\ Len(new) = n
    BY <2>1, <2>2
  <2>4. data' \in Seq(1 .. Chunks) /\ Len(data') = Len(data) + n
    BY <2>1, <2>3 DEF StageTypeOK
  <2>5. \A i \in DOMAIN data' : data'[i] = i
    BY <2>1, <2>2, <2>3 DEF StageTypeOK, StageInv, StageWhole
  <2>6. StageTypeOK'
    <3>1. WorkType'
      BY <1>0, <1>e, <1>6, ReturnWork, HoldWork DEF AppendAll
    <3>2. staged' \in BOOLEAN /\ expired' \in BOOLEAN /\ state' \in StageStates /\ data' \in Seq(1 .. Chunks)
      BY <1>e, <1>6, <2>4 DEF AppendAll, Renew, StageTypeOK
    <3> QED BY <1>t, <3>1, <3>2
  <2>7. StageInv'
    BY <1>6, <2>5 DEF AppendAll, StageReturn, At, StageTypeOK, StageInv, StageWhole
  <2> QED BY <2>6, <2>7
<1>7. ASSUME NEW p \in Proc, Commit(p) PROVE StageTypeOK' /\ StageInv'
  <2>1. StageTypeOK'
    <3>1. WorkType'
      BY <1>0, <1>e, <1>7, ReturnWork, HoldWork DEF Commit, Acquire
    <3>2. staged' \in BOOLEAN /\ expired' \in BOOLEAN /\ state' \in StageStates /\ data' \in Seq(1 .. Chunks)
      BY <1>e, <1>7 DEF Commit, StageTypeOK
    <3> QED BY <1>t, <3>1, <3>2
  <2>2. StageInv'
    BY <1>7, ZenonT(60) DEF Commit, Acquire, Acquired, StageReturn, Hold, At, prepareCommit,
       StageTypeOK,
       StageInv, StageWhole
  <2> QED BY <2>1, <2>2
<1>8. ASSUME NEW p \in Proc, Abort(p) PROVE StageTypeOK' /\ StageInv'
  <2>1. StageTypeOK'
    <3>1. WorkType'
      BY <1>0, <1>e, <1>8, ReturnWork, HoldWork DEF Abort, Acquire
    <3>2. staged' \in BOOLEAN /\ expired' \in BOOLEAN /\ state' \in StageStates /\ data' \in Seq(1 .. Chunks)
      BY <1>e, <1>8 DEF Abort, Renew, StageTypeOK
    <3> QED BY <1>t, <3>1, <3>2
  <2>2. StageInv'
    BY <1>8, SMTT(30) DEF Abort, Acquire, Acquired, StageReturn, Hold, At, Renew, StageTypeOK,
       StageInv,
       StageWhole
  <2> QED BY <2>1, <2>2
<1>9. ASSUME NEW p \in Proc, PruneBegin(p) PROVE StageTypeOK' /\ StageInv'
  <2>1. StageTypeOK'
    <3>1. WorkType'
      BY <1>0, <1>e, <1>9, ReturnWork, HoldWork DEF PruneBegin
    <3>2. staged' \in BOOLEAN /\ expired' \in BOOLEAN /\ state' \in StageStates /\ data' \in Seq(1 .. Chunks)
      BY <1>e, <1>9 DEF PruneBegin, StageTypeOK
    <3> QED BY <1>t, <3>1, <3>2
  <2>2. StageInv'
    BY <1>9 DEF PruneBegin, StageReturn, Hold, At, StageTypeOK, StageInv, StageWhole
  <2> QED BY <2>1, <2>2
<1>10. ASSUME NEW p \in Proc, Prune(p) PROVE StageTypeOK' /\ StageInv'
  <2>1. StageTypeOK'
    <3>1. WorkType'
      BY <1>0, <1>e, <1>10, ReturnWork, HoldWork DEF Prune
    <3>2. staged' \in BOOLEAN /\ expired' \in BOOLEAN /\ state' \in StageStates /\ data' \in Seq(1 .. Chunks)
      BY <1>e, <1>10 DEF Prune, StageTypeOK
    <3> QED BY <1>t, <3>1, <3>2
  <2>2. StageInv'
    BY <1>10 DEF Prune, StageReturn, At, StageTypeOK, StageInv, StageWhole
  <2> QED BY <2>1, <2>2
<1>11. ASSUME NEW p \in Proc, Complete(p) PROVE StageTypeOK' /\ StageInv'
  <2>1. StageTypeOK'
    BY <1>11 DEF Complete, At, StageTypeOK
  <2>2. StageInv'
    BY <1>11 DEF Complete, At, StageTypeOK, StageInv, StageWhole
  <2> QED BY <2>1, <2>2
<1>12. ASSUME NEW p \in Proc, StatExisting(p) PROVE StageTypeOK' /\ StageInv'
  <2>1. StageTypeOK'
    <3>1. WorkType'
      BY <1>0, <1>e, <1>12, ReturnWork, HoldWork DEF StatExisting, WorkType
    <3>2. staged' \in BOOLEAN /\ expired' \in BOOLEAN /\ state' \in StageStates /\ data' \in Seq(1 .. Chunks)
      BY <1>e, <1>12 DEF StatExisting, StageTypeOK
    <3> QED BY <1>t, <3>1, <3>2
  <2>2. StageInv'
    BY <1>12 DEF StatExisting, StageReturn, Hold, At, StageTypeOK, StageInv, StageWhole
  <2> QED BY <2>1, <2>2
<1>13. ASSUME NEW p \in Proc, Receipt(p) PROVE StageTypeOK' /\ StageInv'
  <2>1. StageTypeOK'
    <3>1. WorkType'
      BY <1>0, <1>e, <1>13, ReturnWork, HoldWork DEF Receipt, WorkType
    <3>2. staged' \in BOOLEAN /\ expired' \in BOOLEAN /\ state' \in StageStates /\ data' \in Seq(1 .. Chunks)
      BY <1>e, <1>13 DEF Receipt, Renew, StageTypeOK
    <3> QED BY <1>t, <3>1, <3>2
  <2>2. StageInv'
    <3>1. lock = p /\ staged /\ staged' /\ state' = "committed" /\ data' = <<>>
      BY <1>13 DEF Receipt, StageTypeOK, StageInv
    <3>2. \A q \in Proc : spc'[q] \in {"idle", "acquire", "prune"}
      BY <1>13, <3>1 DEF Receipt, StageReturn, Hold, At, StageTypeOK
    <3> QED BY <1>e, <3>1, <3>2 DEF StageInv, StageWhole
  <2> QED BY <2>1, <2>2
<1>14. ASSUME NEW p \in Proc, StageFail(p) PROVE StageTypeOK' /\ StageInv'
  <2>1. StageTypeOK'
    BY <1>14 DEF StageFail, StageReturn, At, StageTypeOK
  <2>2. StageInv'
    BY <1>14 DEF StageFail, StageReturn, At, StageTypeOK, StageInv, StageWhole
  <2> QED BY <2>1, <2>2
<1>15. ASSUME NEW p \in Proc, StoreCall(p) PROVE StageTypeOK' /\ StageInv'
  BY <1>15 DEF StoreCall, stageVars, StageTypeOK, StageInv, StageWhole
<1>16. ASSUME NEW p \in Proc, StoreRunning(p) PROVE StageTypeOK' /\ StageInv'
  BY <1>16, SMTT(30) DEF StoreRunning, Published, At, StageTypeOK, StageInv, StageWhole
<1>17. CASE Expire
  BY <1>17 DEF Expire, StageTypeOK, StageInv, StageWhole
<1> QED
  BY <1>1, <1>2, <1>3, <1>4, <1>5, <1>6, <1>7, <1>8, <1>9, <1>10, <1>11, <1>12, <1>13, <1>14,
     <1>15, <1>16, <1>17 DEF StageNext, Staging

\* The invariant of the stages holds of the store with its staged uploads.
THEOREM StageInvariant == StageSpec => [](StageTypeOK /\ StageInv)
<1>1. StageInit => StageTypeOK /\ StageInv
  <2> SUFFICES ASSUME StageInit PROVE StageTypeOK /\ StageInv
    OBVIOUS
  <2>1. TypeOK
    BY InitMem DEF StageInit, MemInv, Shape
  <2>2. <<>> \in Seq(1 .. Chunks) /\ 0 \in 0 .. Chunks
    BY StageAssumption
  <2>3. StageTypeOK
    BY <2>1, <2>2, MemAssumption DEF StageInit, StageTypeOK, StageOps, StageStates, StageLabels
  <2>4. StageInv
    BY DEF StageInit, StageInv, StageWhole, CompletePcs
  <2> QED BY <2>3, <2>4
<1>2. MemInv => TypeOK
  BY DEF MemInv, Shape
<1> QED BY <1>1, <1>2, MemInvariant, NextStage, PTL DEF StageSpec

\* The variables of the stage keep their types, and only who holds the entry's
\* lock is past acquire (mem.go, acquire).
THEOREM StageTypeCorrect == StageSpec => []StageTypeOK
  BY StageInvariant, PTL

\* Whoever appends, retries or fails, a stage holds the first chunks of the blob,
\* each once, and a commit is of all of them (mem.go, Append and Commit).
THEOREM StageWholeCorrect == StageSpec => []StageWhole
<1>1. StageInv => StageWhole
  BY DEF StageInv
<1> QED BY <1>1, StageInvariant, PTL

\* No step undoes a commit, or removes its stage: only Receipt ends it, since Abort
\* and PruneStages complete it.
LEMMA NextCommits ==
    StageTypeOK /\ StageInv /\ [StageNext]_allVars
      => [state = "committing" => state' \in {"committing", "committed"} /\ staged']_allVars
<1> SUFFICES ASSUME StageTypeOK, StageInv, StageNext, state = "committing"
             PROVE  state' \in {"committing", "committed"} /\ staged'
  OBVIOUS
<1> USE DEF StageInv, CompletePcs, entry
<1>1. ASSUME NEW p \in Proc, Staging(p) PROVE state' \in {"committing", "committed"} /\ staged'
  BY <1>1 DEF Staging, Begin, Find, Refused, AppendBegin, AppendAll, Commit, Abort, PruneBegin,
     Prune,
              Complete, StatExisting, Receipt, StageFail
<1>2. ASSUME NEW p \in Proc, StoreCall(p) \/ StoreRunning(p) PROVE state' \in {"committing", "committed"} /\ staged'
  BY <1>2 DEF StoreCall, stageVars, StoreRunning, Published
<1>3. CASE Expire
  BY <1>3 DEF Expire
<1> QED BY <1>1, <1>2, <1>3 DEF StageNext

\* A commit that has begun is never undone, nor its stage pruned before it is
\* complete (mem.go, Commit, Abort and PruneStages).
THEOREM CommitsStandCorrect == StageSpec => CommitsStand
  BY StageInvariant, NextCommits, PTL DEF StageSpec, CommitsStand

\* Nobody is past acquire on a stage that is not in the map, and acquire looks for
\* it again.
LEMMA NextPruned ==
    StageTypeOK /\ StageInv /\ [StageNext]_allVars
      => [~staged => UNCHANGED <<state, data>> \/ staged']_allVars
<1> SUFFICES ASSUME StageTypeOK, StageInv, StageNext, ~staged
             PROVE  UNCHANGED <<state, data>> \/ staged'
  OBVIOUS
<1> USE MemAssumption DEF entry
<1>1. \A p \in Proc : spc[p] \in {"idle", "acquire"}
  BY DEF StageTypeOK, StageInv
<1>2. ASSUME NEW p \in Proc, Staging(p) PROVE UNCHANGED <<state, data>> \/ staged'
  BY <1>1, <1>2 DEF Staging, Begin, Find, Refused, AppendBegin, AppendAll, Commit, Abort,
     PruneBegin, Prune,
              Complete, StatExisting, Receipt, StageFail, Acquire, Acquired
<1>3. ASSUME NEW p \in Proc, StoreCall(p) \/ StoreRunning(p) PROVE UNCHANGED <<state, data>>
  BY <1>3 DEF StoreCall, stageVars, StoreRunning, Published
<1>4. CASE Expire
  BY <1>4 DEF Expire
<1> QED BY <1>2, <1>3, <1>4 DEF StageNext

\* A caller that found a stage before it was pruned does not change it afterwards
\* (mem.go, acquire).
THEOREM PrunedFinalCorrect == StageSpec => PrunedFinal
  BY StageInvariant, NextPruned, PTL DEF StageSpec, PrunedFinal

-----------------------------------------------------------------------------
(* MemStore implements BlobStore.  Each step is the one abstract step that *)
(* decides its call, or none; an Erase that takes an entry also decides    *)
(* the Links that had loaded it and have not looked again.                 *)

\* Nothing of the other goroutines' calls changes in a step of p.
Alone(p) ==
    \A q \in Proc \ {p} :
       pc'[q] = pc[q] /\ res'[q] = res[q] /\ (same'[q] <=> same[q]) /\ call'[q] = call[q]

\* Then the other abstract calls are as they were.
LEMMA AloneAbs ==
    ASSUME NEW p \in Proc, Alone(p)
    PROVE  \A q \in Proc \ {p} : AbsCall(q)' = AbsCall(q)
<1> TAKE q \in Proc \ {p}
<1>1. pc'[q] = pc[q] /\ res'[q] = res[q] /\ (same'[q] <=> same[q]) /\ call'[q] = call[q]
  BY DEF Alone
<1>2. SourceLost(q)' <=> SourceLost(q)
  BY <1>1 DEF SourceLost
<1>3. AbsPhase(q)' = AbsPhase(q)
  BY <1>1, <1>2 DEF AbsPhase
<1> QED BY <1>1, <1>3 DEF AbsCall

\* Between its call and its return, a step of p decides the phase of its call.
LEMMA AbsDecides ==
    ASSUME NEW p \in Proc, Alone(p), call'[p] = call[p], pc[p] # "idle", pc'[p] # "idle", NEW r, AbsPhase(p)' = r
    PROVE  Abs!Decide(p, r)
<1>1. AbsCall(p)' = [AbsCall(p) EXCEPT !.phase = r]
  BY DEF AbsCall
<1> QED BY <1>1, AloneAbs DEF Abs!Decide

\* A step that leaves the phase and the entries alone is none of BlobStore's.
LEMMA AbsStutters ==
    ASSUME NEW p \in Proc, Alone(p), call'[p] = call[p], pc[p] # "idle", pc'[p] # "idle", AbsPhase(p)' = AbsPhase(p), es' = es
    PROVE  UNCHANGED Abs!vars
<1>1. AbsCall(p)' = AbsCall(p)
  BY DEF AbsCall
<1> QED BY <1>1, AloneAbs DEF Abs!vars

\* The abstract call of a goroutine that is not idle is pending.
LEMMA AbsPending ==
    ASSUME NEW p \in Proc, pc[p] # "idle", NEW ops, NEW phases, call[p].op \in ops, AbsPhase(p) \in phases
    PROVE  /\ Abs!Pending(p, ops, phases)
           /\ Abs!Reads(p) = IF call[p].op = "Link" THEN call[p].from ELSE call[p].ns
<1>1. AbsCall(p) = [op |-> call[p].op, ns |-> call[p].ns, from |-> call[p].from, phase |-> AbsPhase(p)]
  BY DEF AbsCall
<1>2. [q \in Proc |-> AbsCall(q)][p] = AbsCall(p)
  OBVIOUS
<1>3. AbsCall(p) # [op |-> "none"]
  BY <1>1
<1> QED BY <1>1, <1>2, <1>3 DEF Abs!Pending, Abs!Reads, Abs!Idle

\* Where nothing is decided yet, and where the blob has been seen.
RunPcs == {"check", "store", "lockblob", "enter", "erase", "linkload", "labelload", "open"}
PinnedPcs == {"linkdup", "linkenter", "labelstore"}

\* The phase of a call, from where it is.
LEMMA Phases ==
    ASSUME Shape, NEW p \in Proc
    PROVE  /\ pc[p] \in RunPcs => AbsPhase(p) = "run"
           /\ pc[p] \in PinnedPcs => AbsPhase(p) = "pinned"
           /\ pc[p] \in {"linklock", "linkrecheck"} => AbsPhase(p) = IF same[p] THEN "run" ELSE "notexist"
           /\ pc[p] \in DecidedPcs => AbsPhase(p) = res[p]
<1>1. res[p] # None <=> pc[p] \in DecidedPcs
  BY DEF Shape, OpShape
<1>2. pc[p] \in {"linklock", "linkrecheck"} => call[p].op = "Link"
  BY DEF Shape, OpShape
<1>3. SourceLost(p) <=> pc[p] \in {"linklock", "linkrecheck"} /\ ~same[p]
  BY <1>2 DEF SourceLost
<1> QED BY <1>1, <1>3 DEF AbsPhase, RunPcs, PinnedPcs, DecidedPcs

\* A step that sets the result decides the abstract call.
LEMMA AbsAnswers ==
    ASSUME Shape, NEW p \in Proc, Alone(p), call'[p] = call[p], pc[p] # "idle",
           NEW r \in Results, NEW l \in {"ret", "unlock", "inc", "dec"}, Answer(p, r, l)
    PROVE  Abs!Decide(p, r)
<1>1. pc'[p] = l /\ res'[p] = r
  BY DEF Answer, Goto, Shape, TypeOK
<1>2. AbsPhase(p)' = r
  BY <1>1, MemAssumption DEF AbsPhase, Results
<1> QED BY <1>1, <1>2, AbsDecides

\* es.LoadOrStore puts the blob in the namespace, or reports that it is there.
LEMMA AbsEnters ==
    ASSUME Shape, NEW p \in Proc, Alone(p), call'[p] = call[p], pc[p] # "idle", LoadOrStore(p), b_[p] # None,
           Abs!Pending(p, {"Add"}, {"run"}) \/ Abs!Pending(p, {"Link"}, {"pinned"})
    PROVE  Abs!Next
<1>1. call[p].ns \in Namespace /\ [q \in Proc |-> AbsCall(q)][p].ns = call[p].ns
  BY DEF Shape, TypeOK, Calls, AbsCall
<1>2. CASE es[call[p].ns] # None
  <2>1. Abs!Decide(p, "exists") /\ es' = es
    BY <1>2, AbsAnswers DEF LoadOrStore, Results
  <2>2. Abs!Exists(p)
    BY <1>1, <1>2, <2>1 DEF Abs!Exists
  <2> QED BY <2>2 DEF Abs!Next
<1>3. CASE es[call[p].ns] = None
  <2>1. Abs!Decide(p, "ok") /\ es' = [es EXCEPT ![call[p].ns] = b_[p]]
    BY <1>3, AbsAnswers DEF LoadOrStore, Results
  <2>2. {n \in Namespace : es'[n] # None} = {n \in Namespace : es[n] # None} \cup {call[p].ns}
    BY <1>1, <2>1 DEF Shape, TypeOK
  <2>3. Abs!Put(p)
    BY <1>1, <1>3, <2>1, <2>2 DEF Abs!Put
  <2> QED BY <2>3 DEF Abs!Next
<1> QED BY <1>2, <1>3

\* Every step of the in-memory store is a step of BlobStore, or none.
LEMMA NextAbs == Shape /\ SourceInv /\ Shape' /\ [MemNext]_vars => [Abs!Next]_(Abs!vars)
<1> SUFFICES ASSUME Shape, SourceInv, Shape', [MemNext]_vars PROVE [Abs!Next]_(Abs!vars)
  OBVIOUS
<1> USE MemAssumption, StageAssumption DEF heap
<1>0. TypeOK /\ OpShape /\ TypeOK' /\ OpShape'
  BY DEF Shape
<1>1. CASE UNCHANGED vars
  <2>1. \A q \in Proc : AbsCall(q)' = AbsCall(q)
    BY <1>1 DEF vars, AbsCall, AbsPhase, SourceLost
  <2> QED BY <1>1, <2>1 DEF vars, Abs!vars
<1>2. ASSUME NEW p \in Proc, NEW c \in [op : {"Add", "Link", "Erase", "Label", "Open"}, ns : Namespace, from : Namespace],
             pc[p] = "idle", call' = [call EXCEPT ![p] = c], NEW l \in RunPcs, Goto(p, l),
             UNCHANGED <<heap, res, b_, same>>
      PROVE  Abs!Begin(p)
  <2>1. Alone(p)
    BY <1>0, <1>2 DEF Alone, Goto, TypeOK
  <2>2. pc'[p] = l /\ call'[p] = c /\ res'[p] = None
    BY <1>0, <1>2 DEF Goto, TypeOK, OpShape, DecidedPcs
  <2>3. AbsPhase(p)' = "run"
    BY <2>2 DEF AbsPhase, SourceLost, RunPcs
  <2>4. AbsCall(p) = [op |-> "none"]
    BY <1>2 DEF AbsCall
  <2>5. AbsCall(p)' = [op |-> c.op, ns |-> c.ns, from |-> c.from, phase |-> "run"]
    BY <2>2, <2>3 DEF AbsCall, RunPcs
  <2>6. AbsCall(p)' \in Abs!Calls /\ AbsCall(p)'.phase = "run"
    BY <1>2, <2>5 DEF Abs!Calls, Abs!Phases
  <2>7. [q \in Proc |-> AbsCall(q)]' = [[q \in Proc |-> AbsCall(q)] EXCEPT ![p] = AbsCall(p)']
    BY <2>1, AloneAbs
  <2> QED BY <1>2, <2>4, <2>6, <2>7 DEF Abs!Begin, Abs!Idle
<1>3. ASSUME NEW p \in Proc, Call(p) PROVE Abs!Next
  <2>1. PICK c \in Calls : call' = [call EXCEPT ![p] = c] /\ Goto(p, First(c.op))
    BY <1>3 DEF Call
  <2>2. c \in [op : {"Add", "Link", "Erase", "Label", "Open"}, ns : Namespace, from : Namespace] /\ c.op \in Ops
    BY DEF Calls
  <2>3. First(c.op) \in RunPcs
    BY <2>2, FirstStep DEF RunPcs
  <2>4. Abs!Begin(p)
    BY <1>2, <1>3, <2>1, <2>2, <2>3 DEF Call
  <2> QED BY <2>4 DEF Abs!Next
<1>4. ASSUME NEW p \in Proc, Publish(p) PROVE Abs!Next
  <2>1. [op |-> "Add", ns |-> Owner, from |-> Owner]
            \in [op : {"Add", "Link", "Erase", "Label", "Open"}, ns : Namespace, from : Namespace]
    OBVIOUS
  <2>2. "store" \in RunPcs
    BY DEF RunPcs
  <2>3. Abs!Begin(p)
    BY <1>2, <1>4, <2>1, <2>2 DEF Publish
  <2> QED BY <2>3 DEF Abs!Next
<1>5. ASSUME NEW p \in Proc, Store(p) PROVE UNCHANGED Abs!vars
  <2>1. Alone(p) /\ pc[p] # "idle" /\ pc'[p] # "idle" /\ call'[p] = call[p] /\ es' = es
    BY <1>0, <1>5 DEF Store, Alone, Answer, Goto, TypeOK
  <2>2. AbsPhase(p)' = AbsPhase(p)
    BY <1>0, <1>5 DEF Store, Goto, TypeOK, AbsPhase, SourceLost, OpShape, DecidedPcs
  <2> QED BY <2>1, <2>2, AbsStutters
<1>6. ASSUME NEW p \in Proc, LockBlob(p) PROVE UNCHANGED Abs!vars
  <2>1. Alone(p) /\ pc[p] # "idle" /\ pc'[p] # "idle" /\ call'[p] = call[p] /\ es' = es
    BY <1>0, <1>6 DEF LockBlob, Alone, Answer, Goto, TypeOK
  <2>2. AbsPhase(p)' = AbsPhase(p)
    BY <1>0, <1>6 DEF LockBlob, Goto, TypeOK, AbsPhase, SourceLost, OpShape, DecidedPcs
  <2> QED BY <2>1, <2>2, AbsStutters
<1>7. ASSUME NEW p \in Proc, Inc(p) PROVE UNCHANGED Abs!vars
  <2>1. Alone(p) /\ pc[p] # "idle" /\ pc'[p] # "idle" /\ call'[p] = call[p] /\ es' = es
    BY <1>0, <1>7 DEF Inc, Alone, Answer, Goto, TypeOK
  <2>2. AbsPhase(p)' = AbsPhase(p)
    BY <1>0, <1>7 DEF Inc, Goto, TypeOK, AbsPhase, SourceLost, OpShape, DecidedPcs
  <2> QED BY <2>1, <2>2, AbsStutters
<1>8. ASSUME NEW p \in Proc, Dec(p) PROVE UNCHANGED Abs!vars
  <2>1. Alone(p) /\ pc[p] # "idle" /\ pc'[p] # "idle" /\ call'[p] = call[p] /\ es' = es
    BY <1>0, <1>8 DEF Dec, Alone, Answer, Goto, TypeOK
  <2>2. AbsPhase(p)' = AbsPhase(p)
    BY <1>0, <1>8 DEF Dec, Goto, TypeOK, AbsPhase, SourceLost, OpShape, DecidedPcs
  <2> QED BY <2>1, <2>2, AbsStutters
<1>9. ASSUME NEW p \in Proc, Delete(p) PROVE UNCHANGED Abs!vars
  <2>1. Alone(p) /\ pc[p] # "idle" /\ pc'[p] # "idle" /\ call'[p] = call[p] /\ es' = es
    BY <1>0, <1>9 DEF Delete, Alone, Answer, Goto, TypeOK
  <2>2. AbsPhase(p)' = AbsPhase(p)
    BY <1>0, <1>9 DEF Delete, Goto, TypeOK, AbsPhase, SourceLost, OpShape, DecidedPcs
  <2> QED BY <2>1, <2>2, AbsStutters
<1>10. ASSUME NEW p \in Proc, LinkLock(p) PROVE UNCHANGED Abs!vars
  <2>1. Alone(p) /\ pc[p] # "idle" /\ pc'[p] # "idle" /\ call'[p] = call[p] /\ es' = es
    BY <1>0, <1>10 DEF LinkLock, Alone, Answer, Goto, TypeOK
  <2>2. AbsPhase(p)' = AbsPhase(p)
    BY <1>0, <1>10 DEF LinkLock, Goto, TypeOK, AbsPhase, SourceLost, OpShape, DecidedPcs
  <2> QED BY <2>1, <2>2, AbsStutters
<1>11. ASSUME NEW p \in Proc, Check(p) PROVE [Abs!Next]_(Abs!vars)
  <2>1. Alone(p) /\ pc[p] # "idle" /\ pc'[p] # "idle" /\ call'[p] = call[p] /\ es' = es
    BY <1>0, <1>11 DEF Check, Alone, Answer, Goto, TypeOK
  <2>2. Abs!Pending(p, {"Add"}, {"run"}) /\ Abs!Pending(p, {"Add", "Link", "Label", "Open"}, {"run", "pinned"})
    BY <1>0, <1>11, Phases, AbsPending DEF Check, OpShape, RunPcs
  <2>3. ASSUME NEW r \in Results, Answer(p, r, "ret") PROVE Abs!Decide(p, r)
    BY <2>1, <2>3, AbsAnswers
  <2>4. CASE es[call[p].ns] # None /\ Answer(p, "exists", "ret")
    <3>1. [q \in Proc |-> AbsCall(q)][p].ns \in {n \in Namespace : es[n] # None}
      BY <1>0, <2>1, <2>4 DEF AbsCall, TypeOK, Calls
    <3>2. Abs!Exists(p)
      BY <2>1, <2>2, <2>3, <2>4, <3>1 DEF Results, Abs!Exists
    <3> QED BY <3>2 DEF Abs!Next
  <2>5. CASE Goto(p, "store") /\ UNCHANGED res
    <3>1. AbsPhase(p)' = AbsPhase(p)
      BY <1>0, <1>11, <2>5 DEF Check, Goto, TypeOK, AbsPhase, SourceLost
    <3> QED BY <2>1, <3>1, AbsStutters
  <2>6. CASE Answer(p, "mismatch", "ret")
    <3>1. Abs!Mismatch(p)
      BY <2>1, <2>2, <2>3, <2>6 DEF Results, Abs!Mismatch
    <3> QED BY <3>1 DEF Abs!Next
  <2>7. CASE Answer(p, "error", "ret")
    <3>1. Abs!Fail(p)
      BY <2>1, <2>2, <2>3, <2>7 DEF Results, Abs!Fail
    <3> QED BY <3>1 DEF Abs!Next
  <2> QED BY <1>11, <2>4, <2>5, <2>6, <2>7 DEF Check
<1>12. ASSUME NEW p \in Proc, Enter(p) PROVE [Abs!Next]_(Abs!vars)
  <2>1. Alone(p) /\ call'[p] = call[p] /\ b_[p] # None
    BY <1>0, <1>12 DEF Enter, LoadOrStore, Alone, Answer, Goto, TypeOK, Working
  <2>2. Abs!Pending(p, {"Add"}, {"run"})
    BY <1>0, <1>12, Phases, AbsPending DEF Enter, OpShape, RunPcs
  <2> QED BY <1>12, <2>1, <2>2, AbsEnters DEF Enter
<1>13. ASSUME NEW p \in Proc, LinkEnter(p) PROVE [Abs!Next]_(Abs!vars)
  <2>1. Alone(p) /\ call'[p] = call[p] /\ b_[p] # None
    BY <1>0, <1>13 DEF LinkEnter, LoadOrStore, Alone, Answer, Goto, TypeOK, Working
  <2>2. Abs!Pending(p, {"Link"}, {"pinned"}) /\ Abs!Pending(p, {"Add", "Link", "Label", "Open"}, {"run", "pinned"})
    BY <1>0, <1>13, Phases, AbsPending DEF LinkEnter, OpShape, PinnedPcs
  <2>3. CASE LoadOrStore(p)
    BY <1>13, <2>1, <2>2, <2>3, AbsEnters DEF LinkEnter
  <2>4. CASE Answer(p, "error", "unlock") /\ UNCHANGED es
    <3>1. Abs!Decide(p, "error")
      BY <1>13, <2>1, <2>4, AbsAnswers DEF LinkEnter, Results
    <3>2. Abs!Fail(p)
      BY <2>2, <2>4, <3>1 DEF Abs!Fail
    <3> QED BY <3>2 DEF Abs!Next
  <2> QED BY <1>13, <2>3, <2>4 DEF LinkEnter
<1>14. ASSUME NEW p \in Proc, LinkLoad(p) PROVE [Abs!Next]_(Abs!vars)
  <2>1. Alone(p) /\ pc[p] # "idle" /\ pc'[p] # "idle" /\ call'[p] = call[p] /\ es' = es
    BY <1>0, <1>14 DEF LinkLoad, Alone, Answer, Goto, TypeOK
  <2>2. Abs!Pending(p, {"Link", "Label", "Open"}, {"run", "pinned"})
        /\ Abs!Pending(p, {"Add", "Link", "Label", "Open"}, {"run", "pinned"})
        /\ Abs!Reads(p) = call[p].from
    BY <1>0, <1>14, Phases, AbsPending DEF LinkLoad, OpShape, RunPcs
  <2>3. CASE es[call[p].from] = None /\ Answer(p, "notexist", "ret")
    <3>1. Abs!Decide(p, "notexist")
      BY <2>1, <2>3, AbsAnswers DEF Results
    <3>2. Abs!NotExist(p)
      BY <2>1, <2>2, <2>3, <3>1 DEF Abs!NotExist
    <3> QED BY <3>2 DEF Abs!Next
  <2>4. CASE es[call[p].from] # None /\ same' = [same EXCEPT ![p] = TRUE] /\ Goto(p, "linklock") /\ UNCHANGED res
    <3>1. AbsPhase(p) = "run"
      BY <1>14, Phases DEF LinkLoad, RunPcs
    <3>2. pc'[p] = "linklock" /\ same'[p] /\ res'[p] = None
      BY <1>0, <1>14, <2>4 DEF LinkLoad, Goto, TypeOK, OpShape, DecidedPcs
    <3>3. AbsPhase(p)' = "run"
      BY <3>2 DEF AbsPhase, SourceLost
    <3> QED BY <2>1, <3>1, <3>3, AbsStutters
  <2>5. CASE Answer(p, "error", "ret")
    <3>1. Abs!Decide(p, "error")
      BY <2>1, <2>5, AbsAnswers DEF Results
    <3>2. Abs!Fail(p)
      BY <2>1, <2>2, <3>1 DEF Abs!Fail
    <3> QED BY <3>2 DEF Abs!Next
  <2> QED BY <1>14, <2>3, <2>4, <2>5 DEF LinkLoad
<1>15. ASSUME NEW p \in Proc, LinkRecheck(p) PROVE [Abs!Next]_(Abs!vars)
  <2>1. Alone(p) /\ pc[p] # "idle" /\ pc'[p] # "idle" /\ call'[p] = call[p] /\ es' = es
    BY <1>0, <1>15 DEF LinkRecheck, Alone, Answer, Goto, TypeOK
  <2>2. CASE same[p]
    <3>1. AbsPhase(p) = "run" /\ call[p].op = "Link"
      BY <1>0, <1>15, <2>2, Phases DEF LinkRecheck, OpShape
    <3>2. Abs!Pending(p, {"Link", "Label"}, {"run"}) /\ Abs!Reads(p) = call[p].from
      BY <2>1, <3>1, AbsPending
    <3>3. call[p].from \in {n \in Namespace : es[n] # None}
      BY <1>0, <1>15, <2>2 DEF LinkRecheck, TypeOK, Calls, Working, SourceInv
    <3>4. AbsPhase(p)' = "pinned"
      BY <1>0, <1>15, <2>2 DEF LinkRecheck, Goto, TypeOK, OpShape, DecidedPcs, AbsPhase, SourceLost
    <3>5. Abs!Pin(p)
      BY <2>1, <3>2, <3>3, <3>4, AbsDecides DEF Abs!Pin
    <3> QED BY <3>5 DEF Abs!Next
  <2>3. CASE ~same[p]
    <3>1. AbsPhase(p) = "notexist"
      BY <1>15, <2>3, Phases DEF LinkRecheck
    <3>2. pc'[p] = "unlock" /\ res'[p] = "notexist"
      BY <1>0, <1>15, <2>3 DEF LinkRecheck, Answer, Goto, TypeOK
    <3>3. AbsPhase(p)' = "notexist"
      BY <3>2 DEF AbsPhase
    <3> QED BY <2>1, <3>1, <3>3, AbsStutters
  <2> QED BY <2>2, <2>3
<1>16. ASSUME NEW p \in Proc, LinkDup(p) PROVE [Abs!Next]_(Abs!vars)
  <2>1. Alone(p) /\ pc[p] # "idle" /\ pc'[p] # "idle" /\ call'[p] = call[p] /\ es' = es
    BY <1>0, <1>16 DEF LinkDup, Alone, Answer, Goto, TypeOK
  <2>2. AbsPhase(p) = "pinned" /\ call[p].op = "Link"
    BY <1>0, <1>16, Phases DEF LinkDup, OpShape, PinnedPcs
  <2>3. CASE es[call[p].ns] # None
    <3>1. call[p].ns \in Namespace /\ [q \in Proc |-> AbsCall(q)][p].ns = call[p].ns
      BY <1>0, <2>1 DEF TypeOK, Calls, AbsCall
    <3>2. Abs!Decide(p, "exists") /\ Abs!Pending(p, {"Link"}, {"pinned"})
      BY <1>16, <2>1, <2>2, <2>3, AbsAnswers, AbsPending DEF LinkDup, Results
    <3>3. Abs!Exists(p)
      BY <2>1, <2>3, <3>1, <3>2 DEF Abs!Exists
    <3> QED BY <3>3 DEF Abs!Next
  <2>4. CASE es[call[p].ns] = None
    <3>1. AbsPhase(p)' = "pinned"
      BY <1>0, <1>16, <2>4 DEF LinkDup, Goto, TypeOK, OpShape, DecidedPcs, AbsPhase, SourceLost
    <3> QED BY <2>1, <2>2, <3>1, AbsStutters
  <2> QED BY <2>3, <2>4
<1>17. ASSUME NEW p \in Proc, LabelLoad(p) PROVE [Abs!Next]_(Abs!vars)
  <2>1. Alone(p) /\ pc[p] # "idle" /\ pc'[p] # "idle" /\ call'[p] = call[p] /\ es' = es
    BY <1>0, <1>17 DEF LabelLoad, Alone, Answer, Goto, TypeOK
  <2>2. AbsPhase(p) = "run" /\ call[p].op = "Label" /\ call[p].ns \in Namespace
    BY <1>0, <1>17, Phases DEF LabelLoad, OpShape, RunPcs, TypeOK, Calls
  <2>3. Abs!Pending(p, {"Link", "Label"}, {"run"}) /\ Abs!Pending(p, {"Link", "Label", "Open"}, {"run", "pinned"})
        /\ Abs!Reads(p) = call[p].ns
    BY <2>1, <2>2, AbsPending
  <2>4. CASE es[call[p].ns] = None
    <3>1. Abs!Decide(p, "notexist")
      BY <1>17, <2>1, <2>4, AbsAnswers DEF LabelLoad, Results
    <3>2. Abs!NotExist(p)
      BY <2>1, <2>3, <2>4, <3>1 DEF Abs!NotExist
    <3> QED BY <3>2 DEF Abs!Next
  <2>5. CASE es[call[p].ns] # None
    <3>1. AbsPhase(p)' = "pinned"
      BY <1>0, <1>17, <2>5 DEF LabelLoad, Goto, TypeOK, OpShape, DecidedPcs, AbsPhase, SourceLost
    <3>2. Abs!Pin(p)
      BY <2>1, <2>2, <2>3, <2>5, <3>1, AbsDecides DEF Abs!Pin
    <3> QED BY <3>2 DEF Abs!Next
  <2> QED BY <2>4, <2>5
<1>18. ASSUME NEW p \in Proc, LabelStore(p) PROVE [Abs!Next]_(Abs!vars)
  <2>1. Alone(p) /\ pc[p] # "idle" /\ pc'[p] # "idle" /\ call'[p] = call[p] /\ es' = es
    BY <1>0, <1>18 DEF LabelStore, Alone, Answer, Goto, TypeOK
  <2>2. Abs!Pending(p, {"Label"}, {"pinned"})
    BY <1>0, <1>18, <2>1, Phases, AbsPending DEF LabelStore, OpShape, PinnedPcs
  <2>3. Abs!Decide(p, "ok")
    BY <1>18, <2>1, AbsAnswers DEF LabelStore, Results
  <2>4. Abs!Found(p)
    BY <2>1, <2>2, <2>3 DEF Abs!Found
  <2> QED BY <2>4 DEF Abs!Next
<1>19. ASSUME NEW p \in Proc, Open(p) PROVE [Abs!Next]_(Abs!vars)
  <2>1. Alone(p) /\ pc[p] # "idle" /\ pc'[p] # "idle" /\ call'[p] = call[p] /\ es' = es
    BY <1>0, <1>19 DEF Open, Alone, Answer, Goto, TypeOK
  <2>2. AbsPhase(p) = "run" /\ call[p].op = "Open" /\ call[p].ns \in Namespace
    BY <1>0, <1>19, Phases DEF Open, OpShape, RunPcs, TypeOK, Calls
  <2>3. Abs!Pending(p, {"Open"}, {"run"}) /\ Abs!Pending(p, {"Link", "Label", "Open"}, {"run", "pinned"})
        /\ Abs!Reads(p) = call[p].ns /\ [q \in Proc |-> AbsCall(q)][p].ns = call[p].ns
    BY <2>1, <2>2, AbsPending DEF AbsCall
  <2>4. CASE es[call[p].ns] = None
    <3>1. Abs!Decide(p, "notexist")
      BY <1>19, <2>1, <2>4, AbsAnswers DEF Open, Results
    <3>2. Abs!NotExist(p)
      BY <2>1, <2>3, <2>4, <3>1 DEF Abs!NotExist
    <3> QED BY <3>2 DEF Abs!Next
  <2>5. CASE es[call[p].ns] # None
    <3>1. Abs!Decide(p, "ok")
      BY <1>19, <2>1, <2>5, AbsAnswers DEF Open, Results
    <3>2. Abs!Found(p)
      BY <2>1, <2>2, <2>3, <2>5, <3>1 DEF Abs!Found
    <3> QED BY <3>2 DEF Abs!Next
  <2> QED BY <2>4, <2>5
<1>20. ASSUME NEW p \in Proc, pc[p] # "idle", Finish(p), es' = es PROVE Abs!Next
  <2>1. Alone(p) /\ pc'[p] = "idle"
    BY <1>0, <1>20 DEF Finish, Alone, Goto, TypeOK
  <2>2. AbsCall(p)' = [op |-> "none"] /\ AbsCall(p) # [op |-> "none"]
    <3>1. AbsCall(p).op \in {"Add", "Link", "Erase", "Label", "Open"}
      BY <1>0, <1>20 DEF AbsCall, TypeOK, Calls
    <3>2. AbsCall(p)' = [op |-> "none"]
      BY <2>1 DEF AbsCall
    <3> QED BY <3>1, <3>2
  <2>3. [q \in Proc |-> AbsCall(q)]' = [[q \in Proc |-> AbsCall(q)] EXCEPT ![p] = [op |-> "none"]]
    BY <2>1, <2>2, AloneAbs
  <2>4. Abs!End(p)
    BY <1>20, <2>2, <2>3 DEF Abs!End, Abs!Idle
  <2> QED BY <2>4 DEF Abs!Next
<1>21. ASSUME NEW p \in Proc, Unlock(p) \/ Return(p) PROVE Abs!Next
  BY <1>20, <1>21 DEF Unlock, Return
<1>22. ASSUME NEW p \in Proc, Erase(p) PROVE Abs!Next
  <2>0. pc[p] = "erase" /\ AbsPhase(p) = "run" /\ call[p].op = "Erase"
    BY <1>0, <1>22, Phases DEF Erase, OpShape, RunPcs
  <2>13. PICK n \in Namespace : n = call[p].ns
    BY <1>0, <2>0 DEF TypeOK, Calls
  <2> DEFINE A == [q \in Proc |-> AbsCall(q)]
             Lost == {q \in Proc : es[n] # None /\ pc[q] \in {"linklock", "linkrecheck"} /\ same[q] /\ call[q].from = n}
  <2>1. {q \in Namespace : es'[q] # None} = {q \in Namespace : es[q] # None} \ {n}
    BY <1>0, <1>22, <2>13 DEF Erase, TypeOK
  <2>2. p \in {q \in Proc : Abs!Pending(q, {"Erase"}, {"run"}) /\ A[q].ns = n}
    <3>1. Abs!Pending(p, {"Erase"}, {"run"}) /\ A[p].ns = n
      BY <2>0, <2>13, AbsPending DEF AbsCall
    <3> QED BY <3>1
  <2>3. ASSUME NEW q \in Lost
        PROVE  Abs!Pending(q, {"Link", "Label", "Open"}, {"run", "pinned"}) /\ Abs!Reads(q) = n
    <3>1. pc[q] # "idle" /\ AbsPhase(q) = "run" /\ call[q].op = "Link"
      BY <1>0, Phases DEF OpShape
    <3>2. Abs!Reads(q) = call[q].from /\ Abs!Pending(q, {"Link", "Label", "Open"}, {"run", "pinned"})
      BY <3>1, AbsPending
    <3>3. call[q].from = n
      OBVIOUS
    <3> QED BY <3>2, <3>3
  <2>4. Lost \in SUBSET {q \in Proc : Abs!Pending(q, {"Link", "Label", "Open"}, {"run", "pinned"}) /\ Abs!Reads(q) = n}
    BY <2>3
  <2>5. p \notin Lost
    BY <2>0
  <2>6. /\ \A q \in Proc \ {p} : pc'[q] = pc[q] /\ res'[q] = res[q]
        /\ pc'[p] # "idle" /\ res'[p] = "ok" /\ call' = call
    BY <1>0, <1>22 DEF Erase, Answer, Goto, TypeOK
  <2>7. AbsCall(p)' = [A[p] EXCEPT !.phase = "ok"]
    <3>1. AbsPhase(p)' = "ok"
      BY <2>6 DEF AbsPhase
    <3> QED BY <2>0, <2>6, <3>1 DEF AbsCall
  <2>8. ASSUME NEW q \in Lost PROVE AbsCall(q)' = [A[q] EXCEPT !.phase = "notexist"]
    <3>1. q # p /\ ~same'[q] /\ res[q] = None /\ call[q].op = "Link" /\ pc[q] \in {"linklock", "linkrecheck"}
      BY <1>0, <1>22, <2>5, <2>13 DEF Erase, OpShape, DecidedPcs
    <3>2. AbsPhase(q)' = "notexist"
      BY <2>6, <3>1 DEF AbsPhase, SourceLost
    <3> QED BY <2>6, <3>1, <3>2 DEF AbsCall
  <2>9. ASSUME NEW q \in Proc, q # p, q \notin Lost PROVE AbsCall(q)' = A[q]
    <3>1. SourceLost(q)' <=> SourceLost(q)
      <4>1. es[n] # None /\ pc[q] \in {"linklock", "linkrecheck"} /\ same[q] => call[q].from # n
        BY <2>9
      <4>2. pc[q] \in {"linklock", "linkrecheck"} => (same'[q] <=> same[q])
        BY <1>22, <2>13, <4>1 DEF Erase
      <4> QED BY <2>6, <2>9, <4>2 DEF SourceLost
    <3>2. AbsPhase(q)' = AbsPhase(q)
      BY <2>6, <2>9, <3>1 DEF AbsPhase
    <3> QED BY <2>6, <2>9, <3>2 DEF AbsCall
  <2>10. A' = [q \in Proc |-> CASE q \in {p} -> [A[q] EXCEPT !.phase = "ok"]
                               [] q \in Lost -> [A[q] EXCEPT !.phase = "notexist"]
                               [] OTHER -> A[q]]
    BY <2>5, <2>7, <2>8, <2>9
  <2>11. Abs!Remove(n)
    <3> HIDE DEF Lost
    <3> SUFFICES \E S \in SUBSET {q \in Proc : Abs!Pending(q, {"Erase"}, {"run"}) /\ A[q].ns = n},
                   T \in SUBSET {q \in Proc : Abs!Pending(q, {"Link", "Label", "Open"}, {"run", "pinned"})
                                              /\ Abs!Reads(q) = n} :
                   /\ S # {}
                   /\ {q \in Namespace : es'[q] # None} = {q \in Namespace : es[q] # None} \ {n}
                   /\ A' = [q \in Proc |-> CASE q \in S -> [A[q] EXCEPT !.phase = "ok"]
                                            [] q \in T -> [A[q] EXCEPT !.phase = "notexist"]
                                            [] OTHER -> A[q]]
      BY Zenon DEF Abs!Remove
    <3>1. {p} \in SUBSET {q \in Proc : Abs!Pending(q, {"Erase"}, {"run"}) /\ A[q].ns = n} /\ {p} # {}
      BY <2>2
    <3> HIDE DEF A
    <3> USE <2>4, <3>1
    <3> WITNESS {p} \in SUBSET {q \in Proc : Abs!Pending(q, {"Erase"}, {"run"}) /\ A[q].ns = n},
                Lost \in SUBSET {q \in Proc : Abs!Pending(q, {"Link", "Label", "Open"}, {"run", "pinned"})
                                               /\ Abs!Reads(q) = n}
    <3> QED BY <2>1, <2>10, <3>1, Zenon
  <2> QED BY <2>11 DEF Abs!Next
<1> QED
  BY <1>1, <1>3, <1>4, <1>5, <1>6, <1>7, <1>8, <1>9, <1>10, <1>11, <1>12, <1>13, <1>14, <1>15,
     <1>16, <1>17,
     <1>18, <1>19, <1>21, <1>22 DEF MemNext, Running

\* The empty pool is the empty abstract store.
LEMMA InitAbs == Init => Abs!Init
<1> SUFFICES ASSUME Init PROVE Abs!Init
  OBVIOUS
<1>1. \A p \in Proc : AbsCall(p) = [op |-> "none"]
  BY DEF Init, AbsCall
<1>2. {n \in Namespace : es[n] # None} = {}
  BY DEF Init
<1> QED BY <1>1, <1>2 DEF Abs!Init, Abs!Idle

\* The in-memory store, with its staged uploads or without, keeps the contract of
\* store.go: each call's result is that of one step between its call and its
\* return, at which it agrees with what the namespaces hold.
THEOREM MemImplements == (Spec => ImplementsBlobStore) /\ (StageSpec => ImplementsBlobStore)
<1>1. [Next]_vars => [MemNext]_vars
  BY DEF Next, MemNext
<1>2. StageInit => Init
  BY DEF StageInit
<1>3. MemInv => Shape /\ SourceInv
  BY DEF MemInv, PoolInv
<1> QED BY <1>1, <1>2, <1>3, InitAbs, NextAbs, StageStep, MemInvariant, PTL DEF Spec, StageSpec,
  ImplementsBlobStore, Abs!Spec
=============================================================================
