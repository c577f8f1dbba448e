--------------------------- MODULE OsStoreProofs ---------------------------
(***************************************************************************)
(* Theorems about OsStore, for any number of processes, namespaces,        *)
(* inodes and attempts, with failures and crashes allowed.                 *)
(*                                                                         *)
(* The argument goes in layers, each an inductive invariant on top of the  *)
(* one before: Shape (types, and which operation can be where), then       *)
(* LockOwned, from which two calls are never in the locked section at      *)
(* once, then what the locked section knows about share/, the entry and    *)
(* the bytes of the inodes.  On these rests the refinement of BlobStore,   *)
(* with the places and the directory handles of the calls.                 *)
(***************************************************************************)
EXTENDS OsStore, TLAPS

PublishPcs ==
    {"check", "lock", "recheck", "linkstat", "linkdup", "linkpin", "adoptpin",
     "adoptverify", "statshare", "linkshare", "copy", "copying", "linktoshare",
     "move", "movestat"}

\* The operations that can be at a place of the code.
CallShape ==
    \A p \in Proc :
       /\ pc[p] \in PublishPcs => call[p].op \in Publishing
       /\ pc[p] \in Removing => call[p].op \in Publishing \cup {"Erase"}

\* moveStageToRepo's loop counter.
TriesShape ==
    \A p \in Proc :
       /\ pc[p] \notin Removing \cup {"move", "movestat", "unwind"} => tries[p] = 0
       /\ pc[p] \in Removing /\ call[p].op = "Erase" => tries[p] = 0
       /\ pc[p] \in {"move", "movestat"} => tries[p] < Attempts

Shape == TypeOK /\ CallShape /\ TriesShape

-----------------------------------------------------------------------------
(* Types and shape.                                                        *)

\* Every operation starts somewhere: the first step of a call is one of its
\* own steps.
LEMMA FirstStep ==
    ASSUME NEW o \in Ops
    PROVE  /\ First(o) \in {"check", "lock", "rm", "labelstat", "openstat", "nlink"}
           /\ First(o) \in PublishPcs => o \in Publishing
           /\ First(o) \in Removing => o = "Erase"
  BY OsAssumption DEF First, PublishPcs, Removing, Publishing

\* No process has a call at first, and everything is empty.
LEMMA InitShape == Init => Shape
<1> SUFFICES ASSUME Init PROVE Shape
  OBVIOUS
<1>1. TypeOK
  BY OsAssumption DEF Init, TypeOK, Unlocked, Locked, Removing
<1>2. CallShape
  BY DEF Init, CallShape, PublishPcs, Removing
<1>3. TriesShape
  BY OsAssumption DEF Init, TriesShape, Removing
<1> QED BY <1>1, <1>2, <1>3 DEF Shape

\* Every step keeps the types and the shape.
LEMMA NextShape == Shape /\ [Next]_vars => Shape'
<1> SUFFICES ASSUME Shape, [Next]_vars PROVE Shape'
  OBVIOUS
<1> USE OsAssumption
<1> USE DEF disk, entry, temps, rmvars
<1>0. TypeOK /\ CallShape /\ TriesShape
  BY DEF Shape
<1>1. CASE UNCHANGED vars
  BY <1>0, <1>1 DEF vars, Shape, TypeOK, CallShape, TriesShape
<1>2. ASSUME NEW p \in Proc, Call(p) PROVE Shape'
  <2>1. PICK c \in Calls : call' = [call EXCEPT ![p] = c] /\ Goto(p, First(c.op))
    BY <1>2 DEF Call
  <2>2. c.op \in Ops
    BY <2>1 DEF Calls
  <2>3. TypeOK'
    BY <1>0, <1>2, <2>1, <2>2, FirstStep DEF Call, Goto, TypeOK, Removing, Unlocked
  <2>4. CallShape'
    BY <1>0, <2>1, <2>2, FirstStep DEF Goto, TypeOK, CallShape
  <2>5. TriesShape'
    BY <1>0, <1>2, <2>1, <2>2, FirstStep DEF Call, Goto, TypeOK, TriesShape, Removing
  <2> QED BY <2>3, <2>4, <2>5 DEF Shape
<1>3. ASSUME NEW p \in Proc, Return(p) PROVE Shape'
  <2>1. TypeOK'
    BY <1>0, <1>3 DEF Return, Finish, Goto, TypeOK, Unlocked
  <2>2. CallShape'
    BY <1>0, <1>3 DEF Return, Finish, Goto, TypeOK, CallShape, PublishPcs, Removing, Publishing,
       Calls
  <2>3. TriesShape'
    BY <1>0, <1>3 DEF Return, Finish, Goto, TypeOK, CallShape, TriesShape, PublishPcs, Removing,
       Publishing, Calls
  <2> QED BY <2>1, <2>2, <2>3 DEF Shape
<1>4. ASSUME NEW p \in Proc, Unwind(p) PROVE Shape'
  <2>1. TypeOK'
    BY <1>0, <1>4 DEF Unwind, Finish, Goto, TypeOK, Unlocked
  <2>2. CallShape'
    BY <1>0, <1>4 DEF Unwind, Finish, Goto, TypeOK, CallShape, PublishPcs, Removing, Publishing,
       Calls
  <2>3. TriesShape'
    BY <1>0, <1>4 DEF Unwind, Finish, Goto, TypeOK, CallShape, TriesShape, PublishPcs, Removing,
       Publishing, Calls
  <2> QED BY <2>1, <2>2, <2>3 DEF Shape
<1>5. ASSUME NEW p \in Proc, Check(p) PROVE Shape'
  <2>1. TypeOK'
    BY <1>0, <1>5 DEF Check, Goto, Answer, TypeOK, Unlocked, Results
  <2>2. CallShape'
    BY <1>0, <1>5 DEF Check, Goto, Answer, TypeOK, CallShape, PublishPcs, Removing, Publishing,
       Calls
  <2>3. TriesShape'
    BY <1>0, <1>5 DEF Check, Goto, Answer, TypeOK, CallShape, TriesShape, PublishPcs, Removing,
       Publishing, Calls
  <2> QED BY <2>1, <2>2, <2>3 DEF Shape
<1>6. ASSUME NEW p \in Proc, Lock(p) PROVE Shape'
  <2>1. TypeOK'
    BY <1>0, <1>6 DEF Lock, Acquire, Goto, TypeOK, Locked
  <2>2. CallShape'
    BY <1>0, <1>6 DEF Lock, Acquire, Goto, TypeOK, CallShape, PublishPcs, Removing, Publishing,
       Calls
  <2>3. TriesShape'
    BY <1>0, <1>6 DEF Lock, Acquire, Goto, TypeOK, CallShape, TriesShape, PublishPcs, Removing,
       Publishing, Calls
  <2> QED BY <2>1, <2>2, <2>3 DEF Shape
<1>7. ASSUME NEW p \in Proc, Recheck(p) PROVE Shape'
  <2>1. TypeOK'
    BY <1>0, <1>7 DEF Recheck, Goto, Answer, TypeOK, Locked, Results
  <2>2. CallShape'
    BY <1>0, <1>7 DEF Recheck, Goto, Answer, TypeOK, CallShape, PublishPcs, Removing, Publishing,
       Calls
  <2>3. TriesShape'
    BY <1>0, <1>7 DEF Recheck, Goto, Answer, TypeOK, CallShape, TriesShape, PublishPcs, Removing,
       Publishing, Calls
  <2> QED BY <2>1, <2>2, <2>3 DEF Shape
<1>8. ASSUME NEW p \in Proc, AdoptPin(p) PROVE Shape'
  <2>1. TypeOK'
    BY <1>0, <1>8 DEF AdoptPin, Goto, Answer, TypeOK, Locked, Results
  <2>2. CallShape'
    BY <1>0, <1>8 DEF AdoptPin, Goto, Answer, TypeOK, CallShape, PublishPcs, Removing, Publishing,
       Calls
  <2>3. TriesShape'
    BY <1>0, <1>8 DEF AdoptPin, Goto, Answer, TypeOK, CallShape, TriesShape, PublishPcs, Removing,
       Publishing, Calls
  <2> QED BY <2>1, <2>2, <2>3 DEF Shape
<1>9. ASSUME NEW p \in Proc, AdoptVerify(p) PROVE Shape'
  <2>1. TypeOK'
    BY <1>0, <1>9 DEF AdoptVerify, Goto, Answer, TypeOK, Locked, Results
  <2>2. CallShape'
    BY <1>0, <1>9 DEF AdoptVerify, Goto, Answer, TypeOK, CallShape, PublishPcs, Removing,
       Publishing, Calls
  <2>3. TriesShape'
    BY <1>0, <1>9 DEF AdoptVerify, Goto, Answer, TypeOK, CallShape, TriesShape, PublishPcs,
       Removing, Publishing, Calls
  <2> QED BY <2>1, <2>2, <2>3 DEF Shape
<1>10. ASSUME NEW p \in Proc, StatShare(p) PROVE Shape'
  <2>1. TypeOK'
    BY <1>0, <1>10 DEF StatShare, Goto, TypeOK, Locked
  <2>2. CallShape'
    BY <1>0, <1>10 DEF StatShare, Goto, TypeOK, CallShape, PublishPcs, Removing, Publishing, Calls
  <2>3. TriesShape'
    BY <1>0, <1>10 DEF StatShare, Goto, TypeOK, CallShape, TriesShape, PublishPcs, Removing,
       Publishing, Calls
  <2> QED BY <2>1, <2>2, <2>3 DEF Shape
<1>11. ASSUME NEW p \in Proc, LinkShare(p) PROVE Shape'
  <2>1. TypeOK'
    BY <1>0, <1>11 DEF LinkShare, Goto, Answer, TypeOK, Locked, Results
  <2>2. CallShape'
    BY <1>0, <1>11 DEF LinkShare, Goto, Answer, TypeOK, CallShape, PublishPcs, Removing,
       Publishing, Calls
  <2>3. TriesShape'
    BY <1>0, <1>11 DEF LinkShare, Goto, Answer, TypeOK, CallShape, TriesShape, PublishPcs,
       Removing, Publishing, Calls
  <2> QED BY <2>1, <2>2, <2>3 DEF Shape
<1>12. ASSUME NEW p \in Proc, Copy(p) PROVE Shape'
  <2>1. TypeOK'
    BY <1>0, <1>12 DEF Copy, Goto, TypeOK, Locked
  <2>2. CallShape'
    BY <1>0, <1>12 DEF Copy, Goto, TypeOK, CallShape, PublishPcs, Removing, Publishing, Calls
  <2>3. TriesShape'
    BY <1>0, <1>12 DEF Copy, Goto, TypeOK, CallShape, TriesShape, PublishPcs, Removing,
       Publishing, Calls
  <2> QED BY <2>1, <2>2, <2>3 DEF Shape
<1>13. ASSUME NEW p \in Proc, CopyDone(p) PROVE Shape'
  <2>1. TypeOK'
    BY <1>0, <1>13 DEF CopyDone, Goto, TypeOK, Locked
  <2>2. CallShape'
    BY <1>0, <1>13 DEF CopyDone, Goto, TypeOK, CallShape, PublishPcs, Removing, Publishing, Calls
  <2>3. TriesShape'
    BY <1>0, <1>13 DEF CopyDone, Goto, TypeOK, CallShape, TriesShape, PublishPcs, Removing,
       Publishing, Calls
  <2> QED BY <2>1, <2>2, <2>3 DEF Shape
<1>14. ASSUME NEW p \in Proc, LinkToShare(p) PROVE Shape'
  <2>1. TypeOK'
    BY <1>0, <1>14 DEF LinkToShare, Goto, Answer, TypeOK, Locked, Results
  <2>2. CallShape'
    BY <1>0, <1>14 DEF LinkToShare, Goto, Answer, TypeOK, CallShape, PublishPcs, Removing,
       Publishing, Calls
  <2>3. TriesShape'
    BY <1>0, <1>14 DEF LinkToShare, Goto, Answer, TypeOK, CallShape, TriesShape, PublishPcs,
       Removing, Publishing, Calls
  <2> QED BY <2>1, <2>2, <2>3 DEF Shape
<1>15. ASSUME NEW p \in Proc, LinkStat(p) PROVE Shape'
  <2>1. TypeOK'
    BY <1>0, <1>15 DEF LinkStat, Goto, Answer, TypeOK, Locked, Results
  <2>2. CallShape'
    BY <1>0, <1>15 DEF LinkStat, Goto, Answer, TypeOK, CallShape, PublishPcs, Removing,
       Publishing, Calls
  <2>3. TriesShape'
    BY <1>0, <1>15 DEF LinkStat, Goto, Answer, TypeOK, CallShape, TriesShape, PublishPcs,
       Removing, Publishing, Calls
  <2> QED BY <2>1, <2>2, <2>3 DEF Shape
<1>16. ASSUME NEW p \in Proc, LinkDup(p) PROVE Shape'
  <2>1. TypeOK'
    BY <1>0, <1>16 DEF LinkDup, Goto, Answer, TypeOK, Locked, Results
  <2>2. CallShape'
    BY <1>0, <1>16 DEF LinkDup, Goto, Answer, TypeOK, CallShape, PublishPcs, Removing, Publishing,
       Calls
  <2>3. TriesShape'
    BY <1>0, <1>16 DEF LinkDup, Goto, Answer, TypeOK, CallShape, TriesShape, PublishPcs, Removing,
       Publishing, Calls
  <2> QED BY <2>1, <2>2, <2>3 DEF Shape
<1>17. ASSUME NEW p \in Proc, LinkPin(p) PROVE Shape'
  <2>1. TypeOK'
    BY <1>0, <1>17 DEF LinkPin, Goto, Answer, TypeOK, Locked, Results, Calls
  <2>2. CallShape'
    BY <1>0, <1>17 DEF LinkPin, Goto, Answer, TypeOK, CallShape, PublishPcs, Removing, Publishing,
       Calls
  <2>3. TriesShape'
    BY <1>0, <1>17 DEF LinkPin, Goto, Answer, TypeOK, CallShape, TriesShape, PublishPcs, Removing,
       Publishing, Calls
  <2> QED BY <2>1, <2>2, <2>3 DEF Shape
<1>18. ASSUME NEW p \in Proc, Rename(p) PROVE Shape'
  <2> DEFINE n == call[p].ns
  <2>0. n \in Namespace
    BY <1>0, <1>18 DEF Rename, TypeOK, Calls
  <2>1. TypeOK'
    <3>1. CASE dir[n]
      BY <1>0, <1>18, <3>1 DEF Rename, Goto, TypeOK, Locked
    <3>2. CASE ~dir[n]
      BY <1>0, <1>18, <2>0, <3>2, ZenonT(60) DEF Rename, Goto, Answer, TypeOK, Locked, Results
    <3> QED BY <3>1, <3>2
  <2>2. CallShape'
    BY <1>0, <1>18 DEF Rename, Goto, Answer, TypeOK, CallShape, PublishPcs, Removing, Publishing
  <2>3. TriesShape'
    BY <1>0, <1>18 DEF Rename, Goto, Answer, TypeOK, CallShape, TriesShape, PublishPcs, Removing,
       Publishing
  <2> QED BY <2>1, <2>2, <2>3 DEF Shape
<1>19. ASSUME NEW p \in Proc, MoveStat(p) PROVE Shape'
  <2>1. TypeOK'
    BY <1>0, <1>19 DEF MoveStat, Goto, Answer, TypeOK, Locked, Removing, Results, TriesShape
  <2>2. CallShape'
    BY <1>0, <1>19 DEF MoveStat, Goto, Answer, TypeOK, CallShape, PublishPcs, Removing,
       Publishing, Calls
  <2>3. TriesShape'
    BY <1>0, <1>19 DEF MoveStat, Goto, Answer, TypeOK, CallShape, TriesShape, PublishPcs,
       Removing, Publishing, Calls
  <2> QED BY <2>1, <2>2, <2>3 DEF Shape
<1>20. ASSUME NEW p \in Proc, RmTry(p) PROVE Shape'
  <2> DEFINE n == call[p].ns
  <2>0. n \in Namespace
    BY <1>0, <1>20 DEF RmTry, TypeOK, Calls
  <2>1. TypeOK'
    <3>1. CASE dir[n] /\ Empty(n)
      <4>1. dir' = [dir EXCEPT ![n] = FALSE] /\ fd' = [q \in Proc |-> fd[q] /\ call[q].ns # n]
        BY <1>20, <3>1 DEF RmTry, rmdir
      <4>2. fd' \in [Proc -> BOOLEAN] /\ dir' \in [Namespace -> BOOLEAN]
        BY <1>0, <2>0, <4>1 DEF TypeOK
      <4> QED BY <1>0, <1>20, <3>1, <4>2 DEF RmTry, RemoveAllDone, Goto, Answer, TypeOK, Locked,
                 Unlocked, Results
    <3>2. CASE ~dir[n]
      BY <1>0, <1>20, <3>2 DEF RmTry, RemoveAllDone, Goto, Answer, TypeOK, Locked, Unlocked, Results
    <3>3. CASE dir[n] /\ ~Empty(n)
      BY <1>0, <1>20, <3>3 DEF RmTry, Goto, TypeOK, Removing
    <3> QED BY <3>1, <3>2, <3>3
  <2>2. CallShape'
    BY <1>0, <1>20 DEF RmTry, RemoveAllDone, Goto, Answer, TypeOK, CallShape, PublishPcs,
       Removing, Publishing
  <2>3. TriesShape'
    BY <1>0, <1>20 DEF RmTry, RemoveAllDone, Goto, Answer, TypeOK, CallShape, TriesShape,
       PublishPcs, Removing, Publishing
  <2> QED BY <2>1, <2>2, <2>3 DEF Shape
<1>21. ASSUME NEW p \in Proc, RmOpen(p) PROVE Shape'
  <2> DEFINE n == call[p].ns
  <2>1. TypeOK'
    <3>1. CASE dir[n]
      <4>1. names'[p] \in SUBSET {"blob", "labels"} /\ names' \in [Proc -> SUBSET {"blob", "labels"}]
        BY <1>0, <1>21, <3>1 DEF RmOpen, TypeOK
      <4> QED BY <1>0, <1>21, <3>1, <4>1, ZenonT(60) DEF RmOpen, Goto, TypeOK, Removing
    <3>2. CASE ~dir[n]
      BY <1>0, <1>21, <3>2 DEF RmOpen, RemoveAllDone, Goto, Answer, TypeOK, Locked, Unlocked,
         Results
    <3> QED BY <3>1, <3>2
  <2>2. CallShape'
    BY <1>0, <1>21 DEF RmOpen, RemoveAllDone, Goto, Answer, TypeOK, CallShape, PublishPcs,
       Removing, Publishing
  <2>3. TriesShape'
    BY <1>0, <1>21 DEF RmOpen, RemoveAllDone, Goto, Answer, TypeOK, CallShape, TriesShape,
       PublishPcs, Removing, Publishing
  <2> QED BY <2>1, <2>2, <2>3 DEF Shape
<1>22. ASSUME NEW p \in Proc, RmUnlink(p) PROVE Shape'
  <2>1. TypeOK'
    BY <1>0, <1>22 DEF RmUnlink, Goto, TypeOK, Removing, Calls
  <2>2. CallShape'
    BY <1>0, <1>22 DEF RmUnlink, Goto, TypeOK, CallShape, PublishPcs, Removing, Publishing, Calls
  <2>3. TriesShape'
    BY <1>0, <1>22 DEF RmUnlink, Goto, TypeOK, CallShape, TriesShape, PublishPcs, Removing,
       Publishing, Calls
  <2> QED BY <2>1, <2>2, <2>3 DEF Shape
<1>23. ASSUME NEW p \in Proc, RmDir(p) PROVE Shape'
  <2> DEFINE n == call[p].ns
  <2>0. n \in Namespace
    BY <1>0, <1>23 DEF RmDir, TypeOK, Calls
  <2>1. TypeOK'
    <3>1. CASE dir[n] /\ Empty(n)
      <4>1. dir' = [dir EXCEPT ![n] = FALSE] /\ fd' = [q \in Proc |-> fd[q] /\ call[q].ns # n]
        BY <1>23, <3>1 DEF RmDir, rmdir
      <4>2. fd' \in [Proc -> BOOLEAN] /\ dir' \in [Namespace -> BOOLEAN]
        BY <1>0, <2>0, <4>1 DEF TypeOK
      <4> QED BY <1>0, <1>23, <3>1, <4>2 DEF RmDir, RemoveAllDone, Goto, Answer, TypeOK, Locked,
                 Unlocked, Results
    <3>2. CASE ~dir[n]
      BY <1>0, <1>23, <3>2, ZenonT(60) DEF RmDir, RemoveAllDone, Goto, Answer, TypeOK, Locked,
         Unlocked, Results
    <3>3. CASE dir[n] /\ ~Empty(n)
      BY <1>0, <1>23, <3>3, ZenonT(60) DEF RmDir, RemoveAllFailed, Goto, Answer, TypeOK, Locked,
         Unlocked, Results
    <3> QED BY <3>1, <3>2, <3>3
  <2>2. CallShape'
    BY <1>0, <1>23 DEF RmDir, RemoveAllDone, RemoveAllFailed, Goto, Answer, TypeOK, CallShape,
       PublishPcs, Removing, Publishing
  <2>3. TriesShape'
    BY <1>0, <1>23 DEF RmDir, RemoveAllDone, RemoveAllFailed, Goto, Answer, TypeOK, CallShape,
       TriesShape, PublishPcs, Removing, Publishing
  <2> QED BY <2>1, <2>2, <2>3 DEF Shape
<1>24. ASSUME NEW p \in Proc, Nlink(p) PROVE Shape'
  <2>1. TypeOK'
    BY <1>0, <1>24 DEF Nlink, Goto, TypeOK, Unlocked
  <2>2. CallShape'
    BY <1>0, <1>24 DEF Nlink, Goto, TypeOK, CallShape, PublishPcs, Removing, Publishing, Calls
  <2>3. TriesShape'
    BY <1>0, <1>24 DEF Nlink, Goto, TypeOK, CallShape, TriesShape, PublishPcs, Removing,
       Publishing, Calls
  <2> QED BY <2>1, <2>2, <2>3 DEF Shape
<1>25. ASSUME NEW p \in Proc, CleanLock(p) PROVE Shape'
  <2>1. TypeOK'
    BY <1>0, <1>25 DEF CleanLock, Acquire, Goto, TypeOK, Locked
  <2>2. CallShape'
    BY <1>0, <1>25 DEF CleanLock, Acquire, Goto, TypeOK, CallShape, PublishPcs, Removing,
       Publishing, Calls
  <2>3. TriesShape'
    BY <1>0, <1>25 DEF CleanLock, Acquire, Goto, TypeOK, CallShape, TriesShape, PublishPcs,
       Removing, Publishing, Calls
  <2> QED BY <2>1, <2>2, <2>3 DEF Shape
<1>26. ASSUME NEW p \in Proc, NlinkAgain(p) PROVE Shape'
  <2>1. TypeOK'
    BY <1>0, <1>26 DEF NlinkAgain, Goto, TypeOK, Locked
  <2>2. CallShape'
    BY <1>0, <1>26 DEF NlinkAgain, Goto, TypeOK, CallShape, PublishPcs, Removing, Publishing, Calls
  <2>3. TriesShape'
    BY <1>0, <1>26 DEF NlinkAgain, Goto, TypeOK, CallShape, TriesShape, PublishPcs, Removing,
       Publishing, Calls
  <2> QED BY <2>1, <2>2, <2>3 DEF Shape
<1>27. ASSUME NEW p \in Proc, RemoveShare(p) PROVE Shape'
  <2>1. TypeOK'
    BY <1>0, <1>27 DEF RemoveShare, Goto, TypeOK, Locked
  <2>2. CallShape'
    BY <1>0, <1>27 DEF RemoveShare, Goto, TypeOK, CallShape, PublishPcs, Removing, Publishing, Calls
  <2>3. TriesShape'
    BY <1>0, <1>27 DEF RemoveShare, Goto, TypeOK, CallShape, TriesShape, PublishPcs, Removing,
       Publishing, Calls
  <2> QED BY <2>1, <2>2, <2>3 DEF Shape
<1>28. ASSUME NEW p \in Proc, LabelStat(p) PROVE Shape'
  <2>1. TypeOK'
    BY <1>0, <1>28 DEF LabelStat, Goto, Answer, TypeOK, Unlocked, Results
  <2>2. CallShape'
    BY <1>0, <1>28 DEF LabelStat, Goto, Answer, TypeOK, CallShape, PublishPcs, Removing,
       Publishing, Calls
  <2>3. TriesShape'
    BY <1>0, <1>28 DEF LabelStat, Goto, Answer, TypeOK, CallShape, TriesShape, PublishPcs,
       Removing, Publishing, Calls
  <2> QED BY <2>1, <2>2, <2>3 DEF Shape
<1>29. ASSUME NEW p \in Proc, LabelMove(p) PROVE Shape'
  <2> DEFINE n == call[p].ns
  <2>0. n \in Namespace
    BY <1>0, <1>29 DEF LabelMove, TypeOK, Calls
  <2>1. TypeOK'
    <3>1. CASE dir[n]
      BY <1>0, <1>29, <2>0, <3>1, ZenonT(60) DEF LabelMove, Goto, Answer, TypeOK, Unlocked, Results
    <3>2. CASE ~dir[n]
      BY <1>0, <1>29, <3>2 DEF LabelMove, Goto, Answer, TypeOK, Unlocked, Results
    <3> QED BY <3>1, <3>2
  <2>2. CallShape'
    BY <1>0, <1>29 DEF LabelMove, Goto, Answer, TypeOK, CallShape, PublishPcs, Removing
  <2>3. TriesShape'
    BY <1>0, <1>29 DEF LabelMove, Goto, Answer, TypeOK, TriesShape, Removing
  <2> QED BY <2>1, <2>2, <2>3 DEF Shape
<1>30. ASSUME NEW p \in Proc, OpenStat(p) PROVE Shape'
  <2>1. TypeOK'
    BY <1>0, <1>30 DEF OpenStat, Goto, Answer, TypeOK, Unlocked, Results
  <2>2. CallShape'
    BY <1>0, <1>30 DEF OpenStat, Goto, Answer, TypeOK, CallShape, PublishPcs, Removing,
       Publishing, Calls
  <2>3. TriesShape'
    BY <1>0, <1>30 DEF OpenStat, Goto, Answer, TypeOK, CallShape, TriesShape, PublishPcs,
       Removing, Publishing, Calls
  <2> QED BY <2>1, <2>2, <2>3 DEF Shape
<1>31. ASSUME NEW p \in Proc, OpenFile(p) PROVE Shape'
  <2>1. TypeOK'
    BY <1>0, <1>31 DEF OpenFile, Goto, Answer, TypeOK, Unlocked, Results
  <2>2. CallShape'
    BY <1>0, <1>31 DEF OpenFile, Goto, Answer, TypeOK, CallShape, PublishPcs, Removing,
       Publishing, Calls
  <2>3. TriesShape'
    BY <1>0, <1>31 DEF OpenFile, Goto, Answer, TypeOK, CallShape, TriesShape, PublishPcs,
       Removing, Publishing, Calls
  <2> QED BY <2>1, <2>2, <2>3 DEF Shape
<1>32. ASSUME NEW p \in Proc, Fail(p) PROVE Shape'
  <2>1. TypeOK'
    BY <1>0, <1>32 DEF Fail, RemoveAllFailed, Goto, Answer, TypeOK, Locked, Unlocked, Results
  <2>2. CallShape'
    BY <1>0, <1>32 DEF Fail, RemoveAllFailed, Goto, Answer, TypeOK, CallShape, PublishPcs,
       Removing, Publishing, Calls
  <2>3. TriesShape'
    BY <1>0, <1>32 DEF Fail, RemoveAllFailed, Goto, Answer, TypeOK, CallShape, TriesShape,
       PublishPcs, Removing, Publishing, Calls
  <2> QED BY <2>1, <2>2, <2>3 DEF Shape
<1>33. ASSUME NEW p \in Proc, Crash(p) PROVE Shape'
  <2>1. TypeOK'
    BY <1>0, <1>33 DEF Crash, Finish, Staged, Goto, TypeOK, Unlocked
  <2>2. CallShape'
    BY <1>0, <1>33 DEF Crash, Finish, Staged, Goto, TypeOK, CallShape, PublishPcs, Removing,
       Publishing, Calls
  <2>3. TriesShape'
    BY <1>0, <1>33 DEF Crash, Finish, Staged, Goto, TypeOK, CallShape, TriesShape, PublishPcs,
       Removing, Publishing, Calls
  <2> QED BY <2>1, <2>2, <2>3 DEF Shape
<1>34. CASE SourceAppears
  BY <1>0, <1>34 DEF SourceAppears, Shape, TypeOK, CallShape, TriesShape
<1>35. CASE SourceGoes
  BY <1>0, <1>35 DEF SourceGoes, Shape, TypeOK, CallShape, TriesShape
<1> QED
  BY <1>1, <1>2, <1>3, <1>4, <1>5, <1>6, <1>7, <1>8, <1>9, <1>10, <1>11, <1>12, <1>13, <1>14,
     <1>15, <1>16, <1>17, <1>18, <1>19, <1>20, <1>21, <1>22, <1>23, <1>24, <1>25, <1>26, <1>27,
     <1>28, <1>29, <1>30, <1>31, <1>32, <1>33, <1>34, <1>35 DEF Next, Step, Publish, RemoveAll,
     tryCleanup

\* Spec keeps Shape: the types of TypeOK, of which operation can be where, and
\* of moveStageToRepo's counter.
THEOREM ShapeInvariant == Spec => []Shape
<1>1. Init => Shape
  BY InitShape
<1>2. Shape /\ [Next]_vars => Shape'
  BY NextShape
<1> QED BY <1>1, <1>2, PTL DEF Spec

\* The variables of OsStore keep their types, whatever the operations,
\* failures and crashes.
THEOREM TypeCorrect == Spec => []TypeOK
<1>1. Shape => TypeOK
  BY DEF Shape
<1> QED BY <1>1, ShapeInvariant, PTL

-----------------------------------------------------------------------------
(* The lock.                                                               *)

\* A step that is not Lock, CleanLock, Unwind or Crash neither takes nor
\* releases the lock.
LEMMA NextLock == Shape /\ LockOwned /\ [Next]_vars => LockOwned'
<1> SUFFICES ASSUME Shape, LockOwned, [Next]_vars PROVE LockOwned'
  OBVIOUS
<1> USE OsAssumption
<1> USE DEF disk, entry, temps, rmvars, LockOwned, HoldsLock, Locked, Removing, Publishing
<1>0. TypeOK /\ CallShape
  BY DEF Shape
<1>1. CASE UNCHANGED vars
  BY <1>0, <1>1 DEF vars
<1>2. ASSUME NEW p \in Proc, Call(p) PROVE LockOwned'
  <2>1. PICK c \in Calls : call' = [call EXCEPT ![p] = c] /\ Goto(p, First(c.op))
    BY <1>2 DEF Call
  <2>2. c.op \in Ops
    BY <2>1 DEF Calls
  <2>3. pc'[p] = First(c.op) /\ call'[p].op = c.op /\ pc[p] = "idle" /\ lock' = lock
    BY <1>0, <1>2, <2>1 DEF Call, Goto, TypeOK
  <2>4. ~HoldsLock(p) /\ ~HoldsLock(p)'
    BY <2>2, <2>3, FirstStep
  <2>5. \A q \in Proc \ {p} : pc'[q] = pc[q] /\ call'[q] = call[q]
    BY <1>0, <2>1 DEF Goto, TypeOK
  <2> QED BY <2>3, <2>4, <2>5
<1>3. ASSUME NEW p \in Proc, Return(p) PROVE LockOwned'
  BY <1>0, <1>3 DEF Return, Finish, Goto, TypeOK
<1>4. ASSUME NEW p \in Proc, Unwind(p) PROVE LockOwned'
  BY <1>0, <1>4 DEF Unwind, Finish, Goto, TypeOK
<1>5. ASSUME NEW p \in Proc, Check(p) PROVE LockOwned'
  BY <1>0, <1>5 DEF Check, Goto, Answer, TypeOK
<1>6. ASSUME NEW p \in Proc, Lock(p) PROVE LockOwned'
  BY <1>0, <1>6 DEF Lock, Acquire, Goto, TypeOK, CallShape, PublishPcs
<1>7. ASSUME NEW p \in Proc, Recheck(p) PROVE LockOwned'
  BY <1>0, <1>7 DEF Recheck, Goto, Answer, TypeOK
<1>8. ASSUME NEW p \in Proc, AdoptPin(p) PROVE LockOwned'
  BY <1>0, <1>8 DEF AdoptPin, Goto, Answer, TypeOK
<1>9. ASSUME NEW p \in Proc, AdoptVerify(p) PROVE LockOwned'
  BY <1>0, <1>9 DEF AdoptVerify, Goto, Answer, TypeOK
<1>10. ASSUME NEW p \in Proc, StatShare(p) PROVE LockOwned'
  BY <1>0, <1>10 DEF StatShare, Goto, TypeOK
<1>11. ASSUME NEW p \in Proc, LinkShare(p) PROVE LockOwned'
  BY <1>0, <1>11 DEF LinkShare, Goto, Answer, TypeOK
<1>12. ASSUME NEW p \in Proc, Copy(p) PROVE LockOwned'
  BY <1>0, <1>12 DEF Copy, Goto, TypeOK
<1>13. ASSUME NEW p \in Proc, CopyDone(p) PROVE LockOwned'
  BY <1>0, <1>13 DEF CopyDone, Goto, TypeOK
<1>14. ASSUME NEW p \in Proc, LinkToShare(p) PROVE LockOwned'
  BY <1>0, <1>14 DEF LinkToShare, Goto, Answer, TypeOK
<1>15. ASSUME NEW p \in Proc, LinkStat(p) PROVE LockOwned'
  BY <1>0, <1>15 DEF LinkStat, Goto, Answer, TypeOK
<1>16. ASSUME NEW p \in Proc, LinkDup(p) PROVE LockOwned'
  BY <1>0, <1>16 DEF LinkDup, Goto, Answer, TypeOK
<1>17. ASSUME NEW p \in Proc, LinkPin(p) PROVE LockOwned'
  BY <1>0, <1>17 DEF LinkPin, Goto, Answer, TypeOK
<1>18. ASSUME NEW p \in Proc, Rename(p) PROVE LockOwned'
  BY <1>0, <1>18 DEF Rename, Goto, Answer, TypeOK, CallShape, PublishPcs
<1>19. ASSUME NEW p \in Proc, MoveStat(p) PROVE LockOwned'
  BY <1>0, <1>19 DEF MoveStat, Goto, Answer, TypeOK, CallShape, PublishPcs
<1>20. ASSUME NEW p \in Proc, RmTry(p) PROVE LockOwned'
  BY <1>0, <1>20 DEF RmTry, RemoveAllDone, Goto, Answer, TypeOK, CallShape, PublishPcs
<1>21. ASSUME NEW p \in Proc, RmOpen(p) PROVE LockOwned'
  BY <1>0, <1>21 DEF RmOpen, RemoveAllDone, Goto, Answer, TypeOK, CallShape, PublishPcs
<1>22. ASSUME NEW p \in Proc, RmUnlink(p) PROVE LockOwned'
  BY <1>0, <1>22 DEF RmUnlink, Goto, TypeOK, CallShape, PublishPcs
<1>23. ASSUME NEW p \in Proc, RmDir(p) PROVE LockOwned'
  BY <1>0, <1>23 DEF RmDir, RemoveAllDone, RemoveAllFailed, Goto, Answer, TypeOK, CallShape,
     PublishPcs
<1>24. ASSUME NEW p \in Proc, Nlink(p) PROVE LockOwned'
  BY <1>0, <1>24 DEF Nlink, Goto, TypeOK
<1>25. ASSUME NEW p \in Proc, CleanLock(p) PROVE LockOwned'
  BY <1>0, <1>25 DEF CleanLock, Acquire, Goto, TypeOK
<1>26. ASSUME NEW p \in Proc, NlinkAgain(p) PROVE LockOwned'
  BY <1>0, <1>26 DEF NlinkAgain, Goto, TypeOK
<1>27. ASSUME NEW p \in Proc, RemoveShare(p) PROVE LockOwned'
  BY <1>0, <1>27 DEF RemoveShare, Goto, TypeOK
<1>28. ASSUME NEW p \in Proc, LabelStat(p) PROVE LockOwned'
  BY <1>0, <1>28 DEF LabelStat, Goto, Answer, TypeOK
<1>29. ASSUME NEW p \in Proc, LabelMove(p) PROVE LockOwned'
  BY <1>0, <1>29 DEF LabelMove, Goto, Answer, TypeOK
<1>30. ASSUME NEW p \in Proc, OpenStat(p) PROVE LockOwned'
  BY <1>0, <1>30 DEF OpenStat, Goto, Answer, TypeOK
<1>31. ASSUME NEW p \in Proc, OpenFile(p) PROVE LockOwned'
  BY <1>0, <1>31 DEF OpenFile, Goto, Answer, TypeOK
<1>32. ASSUME NEW p \in Proc, Fail(p) PROVE LockOwned'
  BY <1>0, <1>32 DEF Fail, RemoveAllFailed, Goto, Answer, TypeOK, CallShape, PublishPcs
<1>33. ASSUME NEW p \in Proc, Crash(p) PROVE LockOwned'
  BY <1>0, <1>33 DEF Crash, Finish, Goto, TypeOK
<1>34. CASE SourceAppears
  BY <1>0, <1>34 DEF SourceAppears
<1>35. CASE SourceGoes
  BY <1>0, <1>35 DEF SourceGoes
<1> QED
  BY <1>1, <1>2, <1>3, <1>4, <1>5, <1>6, <1>7, <1>8, <1>9, <1>10, <1>11, <1>12, <1>13, <1>14,
     <1>15, <1>16, <1>17, <1>18, <1>19, <1>20, <1>21, <1>22, <1>23, <1>24, <1>25, <1>26, <1>27,
     <1>28, <1>29, <1>30, <1>31, <1>32, <1>33, <1>34, <1>35 DEF Next, Step, Publish, RemoveAll,
     tryCleanup

\* lockBlob's mutual exclusion: a call is between lockBlob and unlock exactly
\* while its process owns the flock, so never two at once.
THEOREM LockCorrect == Spec => []LockOwned
<1>1. Init => LockOwned
  BY OsAssumption DEF Init, LockOwned, HoldsLock, Locked, Removing
<1>2. Shape /\ LockOwned /\ [Next]_vars => LockOwned'
  BY NextLock
<1> QED BY <1>1, <1>2, ShapeInvariant, PTL DEF Spec

\* At most one call is in the locked section.
LEMMA Exclusive ==
    ASSUME LockOwned, NEW p \in Proc, NEW q \in Proc, HoldsLock(p), HoldsLock(q)
    PROVE  p = q
  BY DEF LockOwned

-----------------------------------------------------------------------------
(* share/ and the entries.                                                 *)

\* moveStageToRepo's loop.
Moving(p) ==
    \/ pc[p] \in {"move", "movestat"}
    \/ pc[p] \in Removing /\ call[p].op \in Publishing

\* What a publisher has staged, and what tryCleanup has found, is still so.
Staging ==
    \A p \in Proc :
       /\ pc[p] = "adoptverify" => pin[p] # None
       /\ pc[p] = "statshare" /\ call[p].op = "Adopt" => pin[p] # None
       /\ pc[p] \in {"copying", "linktoshare"} => stage[p] # None
       /\ NlinkKnown /\ Moving(p) => stage[p] # None /\ stage[p] = share
       /\ NlinkKnown /\ pc[p] = "remove" => \A n \in Namespace : blob[n] = None

ShareInv == ShareStable /\ Staging /\ OneInode

\* Only the holder of the lock changes share/ or adds an entry, so what
\* another locked call knows of them stays true.
LEMMA NextShare == Shape /\ LockOwned /\ ShareInv /\ [Next]_vars => ShareInv'
<1> SUFFICES ASSUME Shape, LockOwned, ShareInv, [Next]_vars PROVE ShareInv'
  OBVIOUS
<1> USE OsAssumption
<1> USE DEF disk, entry, temps, rmvars
<1>0. TypeOK /\ CallShape /\ ShareStable /\ Staging /\ OneInode
  BY DEF Shape, ShareInv
<1>1. CASE UNCHANGED vars
  BY <1>0, <1>1 DEF vars, ShareInv, ShareStable, Staging, Moving, OneInode
<1>2. ASSUME NEW p \in Proc, Call(p) PROVE ShareInv'
  <2>1. PICK c \in Calls : call' = [call EXCEPT ![p] = c] /\ Goto(p, First(c.op))
    BY <1>2 DEF Call
  <2>2. c.op \in Ops
    BY <2>1 DEF Calls
  <2>3. pc'[p] = First(c.op) /\ call'[p].op = c.op
    BY <1>0, <1>2, <2>1 DEF Call, Goto, TypeOK
  <2>4. \A q \in Proc \ {p} : pc'[q] = pc[q] /\ call'[q] = call[q]
    BY <1>0, <2>1 DEF Goto, TypeOK
  <2>5. pc'[p] \in {"check", "lock", "rm", "labelstat", "openstat", "nlink"} /\ ~Moving(p)'
    BY <2>2, <2>3, FirstStep DEF Moving, Publishing, Removing
  <2> QED BY <1>0, <1>2, <2>4, <2>5 DEF Call, ShareInv, ShareStable, Staging, Moving, OneInode
<1>3. ASSUME NEW p \in Proc, Return(p) PROVE ShareInv'
  BY <1>0, <1>3 DEF Return, Finish, Goto, TypeOK, ShareInv, ShareStable, Staging, Moving,
     OneInode, Removing, Publishing
<1>4. ASSUME NEW p \in Proc, Unwind(p) PROVE ShareInv'
  BY <1>0, <1>4 DEF Unwind, Finish, Goto, TypeOK, ShareInv, ShareStable, Staging, Moving,
     OneInode, Removing, Publishing
<1>5. ASSUME NEW p \in Proc, Check(p) PROVE ShareInv'
  BY <1>0, <1>5 DEF Check, Goto, Answer, TypeOK, ShareInv, ShareStable, Staging, Moving, OneInode,
     Removing, Publishing
<1>6. ASSUME NEW p \in Proc, Lock(p) PROVE ShareInv'
  BY <1>0, <1>6 DEF Lock, Acquire, Goto, TypeOK, ShareInv, ShareStable, Staging, Moving, OneInode,
     Removing, Publishing
<1>7. ASSUME NEW p \in Proc, Recheck(p) PROVE ShareInv'
  BY <1>0, <1>7 DEF Recheck, Goto, Answer, TypeOK, ShareInv, ShareStable, Staging, Moving,
     OneInode, Removing, Publishing
<1>8. ASSUME NEW p \in Proc, AdoptPin(p) PROVE ShareInv'
  BY <1>0, <1>8 DEF AdoptPin, Goto, Answer, TypeOK, ShareInv, ShareStable, Staging, Moving,
     OneInode, Removing, Publishing
<1>9. ASSUME NEW p \in Proc, AdoptVerify(p) PROVE ShareInv'
  BY <1>0, <1>9 DEF AdoptVerify, Goto, Answer, TypeOK, ShareInv, ShareStable, Staging, Moving,
     OneInode, Removing, Publishing
<1>10. ASSUME NEW p \in Proc, StatShare(p) PROVE ShareInv'
  BY <1>0, <1>10 DEF StatShare, Goto, TypeOK, ShareInv, ShareStable, Staging, Moving, OneInode,
     Removing, Publishing
<1>11. ASSUME NEW p \in Proc, LinkShare(p) PROVE ShareInv'
  BY <1>0, <1>11 DEF LinkShare, Goto, Answer, TypeOK, ShareInv, ShareStable, Staging, Moving,
     OneInode, Removing, Publishing
<1>12. ASSUME NEW p \in Proc, Copy(p) PROVE ShareInv'
  BY <1>0, <1>12 DEF Copy, Goto, TypeOK, ShareInv, ShareStable, Staging, Moving, OneInode,
     Removing, Publishing
<1>13. ASSUME NEW p \in Proc, CopyDone(p) PROVE ShareInv'
  BY <1>0, <1>13 DEF CopyDone, Goto, TypeOK, ShareInv, ShareStable, Staging, Moving, OneInode,
     Removing, Publishing
<1>14. ASSUME NEW p \in Proc, LinkToShare(p) PROVE ShareInv'
  BY <1>0, <1>14, Exclusive DEF LinkToShare, Goto, Answer, TypeOK, ShareInv, ShareStable, Staging,
     Moving, OneInode, Removing, Publishing, HoldsLock, Locked
<1>15. ASSUME NEW p \in Proc, LinkStat(p) PROVE ShareInv'
  BY <1>0, <1>15 DEF LinkStat, Goto, Answer, TypeOK, ShareInv, ShareStable, Staging, Moving,
     OneInode, Removing, Publishing
<1>16. ASSUME NEW p \in Proc, LinkDup(p) PROVE ShareInv'
  BY <1>0, <1>16 DEF LinkDup, Goto, Answer, TypeOK, ShareInv, ShareStable, Staging, Moving,
     OneInode, Removing, Publishing
<1>17. ASSUME NEW p \in Proc, LinkPin(p) PROVE ShareInv'
  BY <1>0, <1>17 DEF LinkPin, Goto, Answer, TypeOK, Calls, ShareInv, ShareStable, Staging, Moving,
     OneInode, Removing, Publishing
<1>18. ASSUME NEW p \in Proc, Rename(p) PROVE ShareInv'
  BY <1>0, <1>18, Exclusive DEF Rename, Goto, Answer, TypeOK, ShareInv, ShareStable, Staging,
     Moving, OneInode, Removing, Publishing, HoldsLock, Locked
<1>19. ASSUME NEW p \in Proc, MoveStat(p) PROVE ShareInv'
  BY <1>0, <1>19 DEF MoveStat, Goto, Answer, TypeOK, ShareInv, ShareStable, Staging, Moving,
     OneInode, Removing, Publishing
<1>20. ASSUME NEW p \in Proc, RmTry(p) PROVE ShareInv'
  BY <1>0, <1>20 DEF RmTry, RemoveAllDone, Goto, Answer, TypeOK, CallShape, ShareInv, ShareStable,
     Staging, Moving, OneInode, Removing, Publishing
<1>21. ASSUME NEW p \in Proc, RmOpen(p) PROVE ShareInv'
  BY <1>0, <1>21 DEF RmOpen, RemoveAllDone, Goto, Answer, TypeOK, CallShape, ShareInv,
     ShareStable, Staging, Moving, OneInode, Removing, Publishing
<1>22. ASSUME NEW p \in Proc, RmUnlink(p) PROVE ShareInv'
  BY <1>0, <1>22 DEF RmUnlink, Goto, TypeOK, ShareInv, ShareStable, Staging, Moving, OneInode,
     Removing, Publishing
<1>23. ASSUME NEW p \in Proc, RmDir(p) PROVE ShareInv'
  BY <1>0, <1>23 DEF RmDir, RemoveAllDone, RemoveAllFailed, Goto, Answer, TypeOK, CallShape,
     ShareInv, ShareStable, Staging, Moving, OneInode, Removing, Publishing
<1>24. ASSUME NEW p \in Proc, Nlink(p) PROVE ShareInv'
  BY <1>0, <1>24 DEF Nlink, Goto, TypeOK, ShareInv, ShareStable, Staging, Moving, OneInode,
     Removing, Publishing
<1>25. ASSUME NEW p \in Proc, CleanLock(p) PROVE ShareInv'
  BY <1>0, <1>25 DEF CleanLock, Acquire, Goto, TypeOK, ShareInv, ShareStable, Staging, Moving,
     OneInode, Removing, Publishing
<1>26. ASSUME NEW p \in Proc, NlinkAgain(p) PROVE ShareInv'
  BY <1>0, <1>26 DEF NlinkAgain, nlinkErr, nlinkMany, OtherLink, Goto, TypeOK, ShareInv,
     ShareStable, Staging, Moving, OneInode, Removing, Publishing
<1>27. ASSUME NEW p \in Proc, RemoveShare(p) PROVE ShareInv'
  BY <1>0, <1>27, Exclusive DEF RemoveShare, Goto, TypeOK, ShareInv, ShareStable, Staging, Moving,
     OneInode, Removing, Publishing, HoldsLock, Locked
<1>28. ASSUME NEW p \in Proc, LabelStat(p) PROVE ShareInv'
  BY <1>0, <1>28 DEF LabelStat, Goto, Answer, TypeOK, ShareInv, ShareStable, Staging, Moving,
     OneInode, Removing, Publishing
<1>29. ASSUME NEW p \in Proc, LabelMove(p) PROVE ShareInv'
  BY <1>0, <1>29 DEF LabelMove, Goto, Answer, TypeOK, ShareInv, ShareStable, Staging, Moving,
     OneInode, Removing, Publishing
<1>30. ASSUME NEW p \in Proc, OpenStat(p) PROVE ShareInv'
  BY <1>0, <1>30 DEF OpenStat, Goto, Answer, TypeOK, ShareInv, ShareStable, Staging, Moving,
     OneInode, Removing, Publishing
<1>31. ASSUME NEW p \in Proc, OpenFile(p) PROVE ShareInv'
  BY <1>0, <1>31 DEF OpenFile, Goto, Answer, TypeOK, ShareInv, ShareStable, Staging, Moving,
     OneInode, Removing, Publishing
<1>32. ASSUME NEW p \in Proc, Fail(p) PROVE ShareInv'
  BY <1>0, <1>32 DEF Fail, RemoveAllFailed, Goto, Answer, TypeOK, ShareInv, ShareStable, Staging,
     Moving, OneInode, Removing, Publishing
<1>33. ASSUME NEW p \in Proc, Crash(p) PROVE ShareInv'
  BY <1>0, <1>33 DEF Crash, Finish, Goto, TypeOK, ShareInv, ShareStable, Staging, Moving,
     OneInode, Removing, Publishing
<1>34. CASE SourceAppears
  BY <1>0, <1>34 DEF SourceAppears, ShareInv, ShareStable, Staging, Moving, OneInode
<1>35. CASE SourceGoes
  BY <1>0, <1>35 DEF SourceGoes, ShareInv, ShareStable, Staging, Moving, OneInode
<1> QED
  BY <1>1, <1>2, <1>3, <1>4, <1>5, <1>6, <1>7, <1>8, <1>9, <1>10, <1>11, <1>12, <1>13, <1>14,
     <1>15, <1>16, <1>17, <1>18, <1>19, <1>20, <1>21, <1>22, <1>23, <1>24, <1>25, <1>26, <1>27,
     <1>28, <1>29, <1>30, <1>31, <1>32, <1>33, <1>34, <1>35 DEF Next, Step, Publish, RemoveAll,
     tryCleanup

\* What the locked section knows of share/ and of its stage stays true.
THEOREM ShareInvariant == Spec => []ShareInv
<1>1. Init => ShareInv
  BY DEF Init, ShareInv, ShareStable, Staging, Moving, Removing, OneInode
<1>2. Shape /\ LockOwned /\ ShareInv /\ [Next]_vars => ShareInv'
  BY NextShare
<1> QED BY <1>1, <1>2, ShapeInvariant, LockCorrect, PTL DEF Spec

\* Where link counts are known, every entry of every namespace is a hard link
\* of share/: cleanup never takes share/ from under an entry, nor from under
\* one about to be published, and no Add ever makes a second copy.
THEOREM OneInodeCorrect == Spec => []OneInode
<1>1. ShareInv => OneInode
  BY DEF ShareInv
<1> QED BY <1>1, ShareInvariant, PTL

\* publish's os.Stat of share/ is not stale when its os.Link runs.
THEOREM ShareStableCorrect == Spec => []ShareStable
<1>1. ShareInv => ShareStable
  BY DEF ShareInv
<1> QED BY <1>1, ShareInvariant, PTL

-----------------------------------------------------------------------------
(* The entry of a namespace.                                               *)

\* The publisher has seen, under the lock, that its namespace has no blob.
Cleared(p) ==
    \/ pc[p] \in {"linkpin", "adoptpin", "adoptverify", "statshare", "linkshare",
                  "copy", "copying", "linktoshare"}
    \/ Moving(p)

EntryInv ==
    /\ \A n \in Namespace : blob[n] # None => dir[n]
    /\ \A p \in Proc :
          /\ Cleared(p) => blob[call[p].ns] = None
          /\ pc[p] = "move" => tries[p] = 0 \/ ~dir[call[p].ns]
          /\ pc[p] = "movestat" => tries[p] = 0
          /\ tries[p] <= 1

\* Only the holder of the lock creates an entry, so a publisher's check and
\* its RemoveAll are not undone before its rename.
LEMMA NextEntry == Shape /\ LockOwned /\ EntryInv /\ [Next]_vars => EntryInv'
<1> SUFFICES ASSUME Shape, LockOwned, EntryInv, [Next]_vars PROVE EntryInv'
  OBVIOUS
<1> USE OsAssumption
<1> USE DEF disk, entry, temps, rmvars
<1>0. TypeOK /\ CallShape /\ TriesShape /\ EntryInv
  BY DEF Shape
<1>1. CASE UNCHANGED vars
  BY <1>0, <1>1 DEF vars, EntryInv, Cleared, Moving
<1>2. ASSUME NEW p \in Proc, Call(p) PROVE EntryInv'
  <2>1. PICK c \in Calls : call' = [call EXCEPT ![p] = c] /\ Goto(p, First(c.op))
    BY <1>2 DEF Call
  <2>2. c.op \in Ops
    BY <2>1 DEF Calls
  <2>3. pc'[p] = First(c.op) /\ call'[p].op = c.op
    BY <1>0, <1>2, <2>1 DEF Call, Goto, TypeOK
  <2>4. \A q \in Proc \ {p} : pc'[q] = pc[q] /\ call'[q] = call[q]
    BY <1>0, <2>1 DEF Goto, TypeOK
  <2>5. pc'[p] \in {"check", "lock", "rm", "labelstat", "openstat", "nlink"} /\ ~Cleared(p)'
    BY <2>2, <2>3, FirstStep DEF Cleared, Moving, Publishing, Removing
  <2> QED BY <1>0, <1>2, <2>4, <2>5 DEF Call, EntryInv, Cleared, Moving
<1>3. ASSUME NEW p \in Proc, Return(p) PROVE EntryInv'
  BY <1>0, <1>3 DEF Return, Finish, Goto, TypeOK, EntryInv, Cleared, Moving, Removing, Publishing
<1>4. ASSUME NEW p \in Proc, Unwind(p) PROVE EntryInv'
  BY <1>0, <1>4 DEF Unwind, Finish, Goto, TypeOK, EntryInv, Cleared, Moving, Removing, Publishing
<1>5. ASSUME NEW p \in Proc, Check(p) PROVE EntryInv'
  BY <1>0, <1>5 DEF Check, Goto, Answer, TypeOK, EntryInv, Cleared, Moving, Removing, Publishing
<1>6. ASSUME NEW p \in Proc, Lock(p) PROVE EntryInv'
  BY <1>0, <1>6 DEF Lock, Acquire, Goto, TypeOK, EntryInv, Cleared, Moving, Removing, Publishing
<1>7. ASSUME NEW p \in Proc, Recheck(p) PROVE EntryInv'
  BY <1>0, <1>7 DEF Recheck, Goto, Answer, TypeOK, EntryInv, Cleared, Moving, Removing,
     Publishing, checkDup
<1>8. ASSUME NEW p \in Proc, AdoptPin(p) PROVE EntryInv'
  BY <1>0, <1>8 DEF AdoptPin, Goto, Answer, TypeOK, EntryInv, Cleared, Moving, Removing, Publishing
<1>9. ASSUME NEW p \in Proc, AdoptVerify(p) PROVE EntryInv'
  BY <1>0, <1>9 DEF AdoptVerify, Goto, Answer, TypeOK, EntryInv, Cleared, Moving, Removing,
     Publishing
<1>10. ASSUME NEW p \in Proc, StatShare(p) PROVE EntryInv'
  BY <1>0, <1>10 DEF StatShare, Goto, TypeOK, EntryInv, Cleared, Moving, Removing, Publishing
<1>11. ASSUME NEW p \in Proc, LinkShare(p) PROVE EntryInv'
  BY <1>0, <1>11 DEF LinkShare, Goto, Answer, TypeOK, EntryInv, Cleared, Moving, Removing,
     Publishing, TriesShape
<1>12. ASSUME NEW p \in Proc, Copy(p) PROVE EntryInv'
  BY <1>0, <1>12 DEF Copy, Goto, TypeOK, EntryInv, Cleared, Moving, Removing, Publishing
<1>13. ASSUME NEW p \in Proc, CopyDone(p) PROVE EntryInv'
  BY <1>0, <1>13 DEF CopyDone, Goto, TypeOK, EntryInv, Cleared, Moving, Removing, Publishing
<1>14. ASSUME NEW p \in Proc, LinkToShare(p) PROVE EntryInv'
  BY <1>0, <1>14 DEF LinkToShare, Goto, Answer, TypeOK, EntryInv, Cleared, Moving, Removing,
     Publishing, TriesShape
<1>15. ASSUME NEW p \in Proc, LinkStat(p) PROVE EntryInv'
  BY <1>0, <1>15 DEF LinkStat, Goto, Answer, TypeOK, EntryInv, Cleared, Moving, Removing, Publishing
<1>16. ASSUME NEW p \in Proc, LinkDup(p) PROVE EntryInv'
  BY <1>0, <1>16 DEF LinkDup, Goto, Answer, TypeOK, EntryInv, Cleared, Moving, Removing,
     Publishing, checkDup
<1>17. ASSUME NEW p \in Proc, LinkPin(p) PROVE EntryInv'
  BY <1>0, <1>17 DEF LinkPin, Goto, Answer, TypeOK, EntryInv, Cleared, Moving, Removing,
     Publishing, TriesShape
<1>18. ASSUME NEW p \in Proc, Rename(p) PROVE EntryInv'
  <2> DEFINE n == call[p].ns
  <2>0. n \in Namespace
    BY <1>0, <1>18 DEF Rename, TypeOK, Calls
  <2>1. CASE dir[n]
    BY <1>0, <1>18, <2>1 DEF Rename, Goto, TypeOK, EntryInv, Cleared, Moving, Removing, Publishing
  <2>2. CASE ~dir[n]
    <3>1. HoldsLock(p)
      BY <1>18 DEF Rename, HoldsLock, Locked
    <3>2. \A q \in Proc \ {p} : ~Cleared(q)
      BY <3>1, Exclusive DEF Cleared, Moving, HoldsLock, Locked
    <3> QED BY <1>0, <1>18, <2>0, <2>2, <3>2 DEF Rename, Goto, Answer, TypeOK, EntryInv, Cleared,
               Moving, Removing, Publishing
  <2> QED BY <2>1, <2>2
<1>19. ASSUME NEW p \in Proc, MoveStat(p) PROVE EntryInv'
  BY <1>0, <1>19 DEF MoveStat, Goto, Answer, TypeOK, EntryInv, Cleared, Moving, Removing,
     Publishing, CallShape, PublishPcs
<1>20. ASSUME NEW p \in Proc, RmTry(p) PROVE EntryInv'
  <2> DEFINE n == call[p].ns
  <2>0. n \in Namespace
    BY <1>0, <1>20 DEF RmTry, TypeOK, Calls
  <2>1. CASE dir[n] /\ Empty(n)
    <3>1. dir' = [dir EXCEPT ![n] = FALSE] /\ blob' = blob /\ blob[n] = None
      BY <1>20, <2>1 DEF RmTry, rmdir, Empty
    <3>2. \A m \in Namespace : dir'[m] => dir[m]
      BY <1>0, <2>0, <3>1 DEF TypeOK
    <3>3. \A m \in Namespace : blob[m] # None => dir'[m]
      BY <1>0, <2>0, <3>1 DEF TypeOK, EntryInv
    <3>4. ~dir'[n]
      BY <1>0, <2>0, <3>1 DEF TypeOK
    <3> QED BY <1>0, <1>20, <2>0, <2>1, <3>1, <3>2, <3>3, <3>4 DEF RmTry, RemoveAllDone, Goto,
               Answer, TypeOK, CallShape, TriesShape, EntryInv, Cleared, Moving, Removing,
               Publishing, Calls
  <2>2. CASE ~dir[n]
    BY <1>0, <1>20, <2>2 DEF RmTry, RemoveAllDone, Goto, Answer, TypeOK, CallShape, EntryInv,
       Cleared, Moving, Removing, Publishing
  <2>3. CASE dir[n] /\ ~Empty(n)
    BY <1>0, <1>20, <2>3 DEF RmTry, Goto, Answer, TypeOK, EntryInv, Cleared, Moving, Removing,
       Publishing
  <2> QED BY <2>1, <2>2, <2>3
<1>21. ASSUME NEW p \in Proc, RmOpen(p) PROVE EntryInv'
  BY <1>0, <1>21 DEF RmOpen, RemoveAllDone, Goto, Answer, TypeOK, EntryInv, Cleared, Moving,
     Removing, Publishing, CallShape, TriesShape
<1>22. ASSUME NEW p \in Proc, RmUnlink(p) PROVE EntryInv'
  BY <1>0, <1>22 DEF RmUnlink, Goto, TypeOK, EntryInv, Cleared, Moving, Removing, Publishing,
     CallShape, Calls
<1>23. ASSUME NEW p \in Proc, RmDir(p) PROVE EntryInv'
  <2> DEFINE n == call[p].ns
  <2>0. n \in Namespace
    BY <1>0, <1>23 DEF RmDir, TypeOK, Calls
  <2>1. CASE dir[n] /\ Empty(n)
    <3>1. dir' = [dir EXCEPT ![n] = FALSE] /\ blob' = blob /\ blob[n] = None
      BY <1>23, <2>1 DEF RmDir, rmdir, Empty
    <3>2. \A m \in Namespace : dir'[m] => dir[m]
      BY <1>0, <2>0, <3>1 DEF TypeOK
    <3>3. \A m \in Namespace : blob[m] # None => dir'[m]
      BY <1>0, <2>0, <3>1 DEF TypeOK, EntryInv
    <3>4. ~dir'[n]
      BY <1>0, <2>0, <3>1 DEF TypeOK
    <3> QED BY <1>0, <1>23, <2>0, <2>1, <3>1, <3>2, <3>3, <3>4 DEF RmDir, RemoveAllDone, Goto,
               Answer, TypeOK, CallShape, TriesShape, EntryInv, Cleared, Moving, Removing,
               Publishing, Calls
  <2>2. CASE ~dir[n]
    BY <1>0, <1>23, <2>2 DEF RmDir, RemoveAllDone, Goto, Answer, TypeOK, CallShape, EntryInv,
       Cleared, Moving, Removing, Publishing
  <2>3. CASE dir[n] /\ ~Empty(n)
    BY <1>0, <1>23, <2>3 DEF RmDir, RemoveAllFailed, Goto, Answer, TypeOK, EntryInv, Cleared,
       Moving, Removing, Publishing
  <2> QED BY <2>1, <2>2, <2>3
<1>24. ASSUME NEW p \in Proc, Nlink(p) PROVE EntryInv'
  BY <1>0, <1>24 DEF Nlink, Goto, TypeOK, EntryInv, Cleared, Moving, Removing, Publishing
<1>25. ASSUME NEW p \in Proc, CleanLock(p) PROVE EntryInv'
  BY <1>0, <1>25 DEF CleanLock, Acquire, Goto, TypeOK, EntryInv, Cleared, Moving, Removing,
     Publishing
<1>26. ASSUME NEW p \in Proc, NlinkAgain(p) PROVE EntryInv'
  BY <1>0, <1>26 DEF NlinkAgain, Goto, TypeOK, EntryInv, Cleared, Moving, Removing, Publishing
<1>27. ASSUME NEW p \in Proc, RemoveShare(p) PROVE EntryInv'
  BY <1>0, <1>27 DEF RemoveShare, Goto, TypeOK, EntryInv, Cleared, Moving, Removing, Publishing
<1>28. ASSUME NEW p \in Proc, LabelStat(p) PROVE EntryInv'
  BY <1>0, <1>28 DEF LabelStat, Goto, Answer, TypeOK, EntryInv, Cleared, Moving, Removing,
     Publishing
<1>29. ASSUME NEW p \in Proc, LabelMove(p) PROVE EntryInv'
  BY <1>0, <1>29 DEF LabelMove, Goto, Answer, TypeOK, EntryInv, Cleared, Moving, Removing,
     Publishing
<1>30. ASSUME NEW p \in Proc, OpenStat(p) PROVE EntryInv'
  BY <1>0, <1>30 DEF OpenStat, Goto, Answer, TypeOK, EntryInv, Cleared, Moving, Removing, Publishing
<1>31. ASSUME NEW p \in Proc, OpenFile(p) PROVE EntryInv'
  BY <1>0, <1>31 DEF OpenFile, Goto, Answer, TypeOK, EntryInv, Cleared, Moving, Removing, Publishing
<1>32. ASSUME NEW p \in Proc, Fail(p) PROVE EntryInv'
  BY <1>0, <1>32 DEF Fail, RemoveAllFailed, Goto, Answer, TypeOK, EntryInv, Cleared, Moving,
     Removing, Publishing
<1>33. ASSUME NEW p \in Proc, Crash(p) PROVE EntryInv'
  BY <1>0, <1>33 DEF Crash, Finish, Goto, TypeOK, EntryInv, Cleared, Moving, Removing, Publishing
<1>34. CASE SourceAppears
  BY <1>0, <1>34 DEF SourceAppears, EntryInv, Cleared, Moving
<1>35. CASE SourceGoes
  BY <1>0, <1>35 DEF SourceGoes, EntryInv, Cleared, Moving
<1> QED
  BY <1>1, <1>2, <1>3, <1>4, <1>5, <1>6, <1>7, <1>8, <1>9, <1>10, <1>11, <1>12, <1>13, <1>14,
     <1>15, <1>16, <1>17, <1>18, <1>19, <1>20, <1>21, <1>22, <1>23, <1>24, <1>25, <1>26, <1>27,
     <1>28, <1>29, <1>30, <1>31, <1>32, <1>33, <1>34, <1>35 DEF Next, Step, Publish, RemoveAll,
     tryCleanup

\* Spec keeps EntryInv.
THEOREM EntryInvariant == Spec => []EntryInv
<1>1. Init => EntryInv
  BY DEF Init, EntryInv, Cleared, Moving, Removing
<1>2. Shape /\ LockOwned /\ EntryInv /\ [Next]_vars => EntryInv'
  BY NextEntry
<1> QED BY <1>1, <1>2, ShapeInvariant, LockCorrect, PTL DEF Spec

\* moveStageToRepo never sees more than one rename fail: its bound of five
\* attempts is never reached.
THEOREM RenamesTwiceCorrect == Spec => []RenamesTwice
<1>1. EntryInv => RenamesTwice
  BY DEF EntryInv, RenamesTwice
<1> QED BY <1>1, EntryInvariant, PTL

\* Which steps change an entry's blob: a rename into an empty place, and an
\* Erase's unlink.
LEMMA NextOnlyErase ==
    ASSUME Shape, EntryInv, [Next]_vars, NEW n \in Namespace, blob[n] # None
    PROVE  \/ blob'[n] = blob[n]
           \/ /\ blob'[n] = None
              /\ \E p \in Proc : call[p].op = "Erase" /\ call[p].ns = n /\ names'[p] # names[p]
<1> USE DEF disk, entry, temps, rmvars
<1>0. TypeOK /\ CallShape /\ EntryInv
  BY DEF Shape
<1>1. ASSUME NEW p \in Proc, Rename(p) PROVE blob'[n] = blob[n]
  BY <1>0, <1>1 DEF Rename, TypeOK, EntryInv
<1>2. ASSUME NEW p \in Proc, RmUnlink(p), blob'[n] # blob[n]
      PROVE  blob'[n] = None /\ call[p].op = "Erase" /\ call[p].ns = n /\ names'[p] # names[p]
  <2>1. blob'[n] = None /\ call[p].ns = n
    BY <1>0, <1>2 DEF RmUnlink, TypeOK
  <2>2. call[p].op = "Erase"
    BY <1>0, <1>2, <2>1 DEF RmUnlink, CallShape, EntryInv, Cleared, Moving, Removing
  <2>3. names'[p] # names[p]
    BY <1>0, <1>2 DEF RmUnlink, TypeOK
  <2> QED BY <2>1, <2>2, <2>3
<1>3. ASSUME NEW p \in Proc, Call(p) \/ Step(p) \/ Fail(p) \/ Crash(p), ~Rename(p), ~RmUnlink(p)
      PROVE  blob' = blob
  BY <1>3 DEF Step, Publish, RemoveAll, tryCleanup, Call, Return, Unwind, Check, Lock, Recheck,
     AdoptPin, AdoptVerify, StatShare, LinkShare, Copy, CopyDone, LinkToShare, LinkStat, LinkDup,
     LinkPin, MoveStat, RmTry, RmOpen, RmDir, Nlink, CleanLock, NlinkAgain, RemoveShare,
     LabelStat, LabelMove, OpenStat, OpenFile, Fail, Crash
<1>4. CASE SourceAppears \/ SourceGoes
  BY <1>4 DEF SourceAppears, SourceGoes
<1>5. CASE UNCHANGED vars
  BY <1>5 DEF vars
<1> QED BY <1>1, <1>2, <1>3, <1>4, <1>5 DEF Next

\* An entry's blob goes only by an unlink of an Erase of its namespace, and
\* is never replaced: a publisher's RemoveAll of a leftover directory removes
\* no blob.
THEOREM OnlyEraseRemovesCorrect == Spec => OnlyEraseRemoves
<1>1. Shape /\ EntryInv /\ [Next]_vars =>
        [\A n \in Namespace :
           blob[n] # None =>
              \/ blob'[n] = blob[n]
              \/ /\ blob'[n] = None
                 /\ \E p \in Proc : call[p].op = "Erase" /\ call[p].ns = n /\ names'[p] # names[p]]_vars
  BY NextOnlyErase
<1> QED BY <1>1, ShapeInvariant, EntryInvariant, PTL DEF Spec, OnlyEraseRemoves

-----------------------------------------------------------------------------
(* Contents.                                                               *)

\* An inode holds the digest's bytes before anything outside its stage links
\* it.
ContentInv ==
    /\ RightContent
    /\ Verify =>
         \A p \in Proc :
            /\ pc[p] = "statshare" /\ call[p].op = "Adopt" => pin[p] \notin bad
            /\ pc[p] = "linktoshare" => stage[p] \notin bad
            /\ Moving(p) => stage[p] \notin bad

\* Only an inode nothing links becomes bad.
LEMMA NextContent == Shape /\ ContentInv /\ [Next]_vars => ContentInv'
<1> SUFFICES ASSUME Shape, ContentInv, [Next]_vars, Verify PROVE ContentInv'
  BY DEF ContentInv, RightContent
<1> USE OsAssumption
<1> USE DEF disk, entry, temps, rmvars
<1>0. TypeOK /\ CallShape /\ ContentInv
  BY DEF Shape
<1>1. CASE UNCHANGED vars
  BY <1>0, <1>1 DEF vars, ContentInv, RightContent, Moving
<1>2. ASSUME NEW p \in Proc, Call(p) PROVE ContentInv'
  <2>1. PICK c \in Calls : call' = [call EXCEPT ![p] = c] /\ Goto(p, First(c.op))
    BY <1>2 DEF Call
  <2>2. c.op \in Ops
    BY <2>1 DEF Calls
  <2>3. pc'[p] = First(c.op) /\ call'[p].op = c.op
    BY <1>0, <1>2, <2>1 DEF Call, Goto, TypeOK
  <2>4. \A q \in Proc \ {p} : pc'[q] = pc[q] /\ call'[q] = call[q]
    BY <1>0, <2>1 DEF Goto, TypeOK
  <2>5. pc'[p] \in {"check", "lock", "rm", "labelstat", "openstat", "nlink"} /\ ~Moving(p)'
    BY <2>2, <2>3, FirstStep DEF Moving, Publishing, Removing
  <2> QED BY <1>0, <1>2, <2>4, <2>5 DEF Call, ContentInv, RightContent, Moving
<1>3. ASSUME NEW p \in Proc, Return(p) PROVE ContentInv'
  BY <1>0, <1>3 DEF Return, Finish, Goto, TypeOK, ContentInv, RightContent, Moving, Removing,
     Publishing
<1>4. ASSUME NEW p \in Proc, Unwind(p) PROVE ContentInv'
  BY <1>0, <1>4 DEF Unwind, Finish, Goto, TypeOK, ContentInv, RightContent, Moving, Removing,
     Publishing
<1>5. ASSUME NEW p \in Proc, Check(p) PROVE ContentInv'
  BY <1>0, <1>5 DEF Check, Goto, Answer, TypeOK, ContentInv, RightContent, Moving, Removing,
     Publishing
<1>6. ASSUME NEW p \in Proc, Lock(p) PROVE ContentInv'
  BY <1>0, <1>6 DEF Lock, Acquire, Goto, TypeOK, ContentInv, RightContent, Moving, Removing,
     Publishing
<1>7. ASSUME NEW p \in Proc, Recheck(p) PROVE ContentInv'
  BY <1>0, <1>7 DEF Recheck, Goto, Answer, TypeOK, ContentInv, RightContent, Moving, Removing,
     Publishing
<1>8. ASSUME NEW p \in Proc, AdoptPin(p) PROVE ContentInv'
  BY <1>0, <1>8 DEF AdoptPin, Goto, Answer, TypeOK, ContentInv, RightContent, Moving, Removing,
     Publishing
<1>9. ASSUME NEW p \in Proc, AdoptVerify(p) PROVE ContentInv'
  BY <1>0, <1>9 DEF AdoptVerify, Goto, Answer, TypeOK, ContentInv, RightContent, Moving, Removing,
     Publishing
<1>10. ASSUME NEW p \in Proc, StatShare(p) PROVE ContentInv'
  BY <1>0, <1>10 DEF StatShare, Goto, TypeOK, ContentInv, RightContent, Moving, Removing, Publishing
<1>11. ASSUME NEW p \in Proc, LinkShare(p) PROVE ContentInv'
  BY <1>0, <1>11 DEF LinkShare, Goto, Answer, TypeOK, ContentInv, RightContent, Moving, Removing,
     Publishing
<1>12. ASSUME NEW p \in Proc, Copy(p) PROVE ContentInv'
  BY <1>0, <1>12 DEF Copy, Goto, TypeOK, ContentInv, RightContent, Moving, Removing, Publishing,
     Free, OtherLink
<1>13. ASSUME NEW p \in Proc, CopyDone(p) PROVE ContentInv'
  BY <1>0, <1>13 DEF CopyDone, Goto, TypeOK, ContentInv, RightContent, Moving, Removing, Publishing
<1>14. ASSUME NEW p \in Proc, LinkToShare(p) PROVE ContentInv'
  BY <1>0, <1>14 DEF LinkToShare, Goto, Answer, TypeOK, ContentInv, RightContent, Moving,
     Removing, Publishing
<1>15. ASSUME NEW p \in Proc, LinkStat(p) PROVE ContentInv'
  BY <1>0, <1>15 DEF LinkStat, Goto, Answer, TypeOK, ContentInv, RightContent, Moving, Removing,
     Publishing
<1>16. ASSUME NEW p \in Proc, LinkDup(p) PROVE ContentInv'
  BY <1>0, <1>16 DEF LinkDup, Goto, Answer, TypeOK, ContentInv, RightContent, Moving, Removing,
     Publishing
<1>17. ASSUME NEW p \in Proc, LinkPin(p) PROVE ContentInv'
  BY <1>0, <1>17 DEF LinkPin, Goto, Answer, TypeOK, ContentInv, RightContent, Moving, Removing,
     Publishing, Calls
<1>18. ASSUME NEW p \in Proc, Rename(p) PROVE ContentInv'
  BY <1>0, <1>18 DEF Rename, Goto, Answer, TypeOK, ContentInv, RightContent, Moving, Removing,
     Publishing, Calls
<1>19. ASSUME NEW p \in Proc, MoveStat(p) PROVE ContentInv'
  BY <1>0, <1>19 DEF MoveStat, Goto, Answer, TypeOK, ContentInv, RightContent, Moving, Removing,
     Publishing
<1>20. ASSUME NEW p \in Proc, RmTry(p) PROVE ContentInv'
  BY <1>0, <1>20 DEF RmTry, RemoveAllDone, Goto, Answer, TypeOK, ContentInv, RightContent, Moving,
     Removing, Publishing, CallShape
<1>21. ASSUME NEW p \in Proc, RmOpen(p) PROVE ContentInv'
  BY <1>0, <1>21 DEF RmOpen, RemoveAllDone, Goto, Answer, TypeOK, ContentInv, RightContent,
     Moving, Removing, Publishing, CallShape
<1>22. ASSUME NEW p \in Proc, RmUnlink(p) PROVE ContentInv'
  BY <1>0, <1>22 DEF RmUnlink, Goto, TypeOK, ContentInv, RightContent, Moving, Removing,
     Publishing, Calls
<1>23. ASSUME NEW p \in Proc, RmDir(p) PROVE ContentInv'
  BY <1>0, <1>23 DEF RmDir, RemoveAllDone, RemoveAllFailed, Goto, Answer, TypeOK, ContentInv,
     RightContent, Moving, Removing, Publishing, CallShape
<1>24. ASSUME NEW p \in Proc, Nlink(p) PROVE ContentInv'
  BY <1>0, <1>24 DEF Nlink, Goto, TypeOK, ContentInv, RightContent, Moving, Removing, Publishing
<1>25. ASSUME NEW p \in Proc, CleanLock(p) PROVE ContentInv'
  BY <1>0, <1>25 DEF CleanLock, Acquire, Goto, TypeOK, ContentInv, RightContent, Moving, Removing,
     Publishing
<1>26. ASSUME NEW p \in Proc, NlinkAgain(p) PROVE ContentInv'
  BY <1>0, <1>26 DEF NlinkAgain, Goto, TypeOK, ContentInv, RightContent, Moving, Removing,
     Publishing
<1>27. ASSUME NEW p \in Proc, RemoveShare(p) PROVE ContentInv'
  BY <1>0, <1>27 DEF RemoveShare, Goto, TypeOK, ContentInv, RightContent, Moving, Removing,
     Publishing
<1>28. ASSUME NEW p \in Proc, LabelStat(p) PROVE ContentInv'
  BY <1>0, <1>28 DEF LabelStat, Goto, Answer, TypeOK, ContentInv, RightContent, Moving, Removing,
     Publishing
<1>29. ASSUME NEW p \in Proc, LabelMove(p) PROVE ContentInv'
  BY <1>0, <1>29 DEF LabelMove, Goto, Answer, TypeOK, ContentInv, RightContent, Moving, Removing,
     Publishing
<1>30. ASSUME NEW p \in Proc, OpenStat(p) PROVE ContentInv'
  BY <1>0, <1>30 DEF OpenStat, Goto, Answer, TypeOK, ContentInv, RightContent, Moving, Removing,
     Publishing
<1>31. ASSUME NEW p \in Proc, OpenFile(p) PROVE ContentInv'
  BY <1>0, <1>31 DEF OpenFile, Goto, Answer, TypeOK, ContentInv, RightContent, Moving, Removing,
     Publishing
<1>32. ASSUME NEW p \in Proc, Fail(p) PROVE ContentInv'
  BY <1>0, <1>32 DEF Fail, RemoveAllFailed, Goto, Answer, TypeOK, ContentInv, RightContent,
     Moving, Removing, Publishing
<1>33. ASSUME NEW p \in Proc, Crash(p) PROVE ContentInv'
  BY <1>0, <1>33 DEF Crash, Finish, Goto, TypeOK, ContentInv, RightContent, Moving, Removing,
     Publishing
<1>34. CASE SourceAppears
  BY <1>0, <1>34 DEF SourceAppears, ContentInv, RightContent, Moving, TypeOK, Free, OtherLink
<1>35. CASE SourceGoes
  BY <1>0, <1>35 DEF SourceGoes, ContentInv, RightContent, Moving
<1> QED
  BY <1>1, <1>2, <1>3, <1>4, <1>5, <1>6, <1>7, <1>8, <1>9, <1>10, <1>11, <1>12, <1>13, <1>14,
     <1>15, <1>16, <1>17, <1>18, <1>19, <1>20, <1>21, <1>22, <1>23, <1>24, <1>25, <1>26, <1>27,
     <1>28, <1>29, <1>30, <1>31, <1>32, <1>33, <1>34, <1>35 DEF Next, Step, Publish, RemoveAll,
     tryCleanup

\* share/ and every entry hold all of the digest's bytes, through crashes in
\* the middle of a copy and files swapped under Adopt, when Adopt verifies.
THEOREM RightContentCorrect == Spec => []RightContent
<1>1. Init => ContentInv
  BY DEF Init, ContentInv, RightContent, Moving, Removing
<1>2. Shape /\ ContentInv /\ [Next]_vars => ContentInv'
  BY NextContent
<1>3. ContentInv => RightContent
  BY DEF ContentInv
<1> QED BY <1>1, <1>2, <1>3, ShapeInvariant, PTL DEF Spec

-----------------------------------------------------------------------------
(* OsStore implements BlobStore.  Each step is the one abstract step that  *)
(* decides its call, or none; an Erase's unlink of the blob decides every  *)
(* Erase that has the same directory open.                                 *)

\* Nothing is decided where a call has no result.
Undecided ==
    PublishPcs \cup Removing \cup {"idle", "labelstat", "labelmove", "openstat", "openfile"}

\* Whose step it is at the places that BlobStore tells apart.
PlaceOf(p) ==
    /\ pc[p] \in {"check", "recheck", "adoptpin", "adoptverify"} => call[p].op # "Link"
    /\ pc[p] \in {"linkstat", "linkdup", "linkpin"} => call[p].op = "Link"
    /\ pc[p] \in {"labelstat", "labelmove"} => call[p].op = "Label"
    /\ pc[p] \in {"openstat", "openfile"} => call[p].op = "Open"
    /\ pc[p] \in Undecided => res[p] = None

\* A handle that is good leads to the directory at the path, whose blob, if it
\* still has one, RemoveAll has listed; moveStageToRepo has something staged.
HandleOf(p) ==
    /\ fd[p] => pc[p] \in {"rmnames", "rmdir"} /\ dir[call[p].ns]
    /\ fd[p] /\ blob[call[p].ns] # None => "blob" \in names[p]
    /\ pc[p] = "rmdir" => names[p] = {}
    /\ Moving(p) => stage[p] # None

PlaceInv == \A p \in Proc : PlaceOf(p)

HandleInv == \A p \in Proc : HandleOf(p)

\* Every step keeps the places.
LEMMA NextPlace == Shape /\ PlaceInv /\ [Next]_vars => PlaceInv'
<1> SUFFICES ASSUME Shape, PlaceInv, [Next]_vars PROVE PlaceInv'
  OBVIOUS
<1> USE OsAssumption
<1> USE DEF disk, entry, temps, rmvars
<1>0. TypeOK /\ CallShape /\ \A q \in Proc : PlaceOf(q)
  BY DEF Shape, PlaceInv
<1>1. CASE UNCHANGED vars
  BY <1>0, <1>1 DEF vars, PlaceInv, PlaceOf
<1>a. ASSUME NEW p \in Proc, PlaceOf(p)', \A q \in Proc \ {p} : pc'[q] = pc[q] /\ res'[q] = res[q]
               /\ call'[q] = call[q]
      PROVE  PlaceInv'
  BY <1>0, <1>a DEF PlaceInv, PlaceOf
<1>2. ASSUME NEW p \in Proc, Call(p) PROVE PlaceInv'
  <2>1. PICK c \in Calls : call' = [call EXCEPT ![p] = c] /\ Goto(p, First(c.op))
    BY <1>2 DEF Call
  <2>2. c.op \in Ops
    BY <2>1 DEF Calls
  <2>3. pc'[p] = First(c.op) /\ call'[p].op = c.op /\ res'[p] = None
    BY <1>0, <1>2, <2>1 DEF Call, Goto, TypeOK, PlaceOf, Undecided
  <2>4. PlaceOf(p)'
    BY <2>2, <2>3 DEF First, PlaceOf
  <2>5. \A q \in Proc \ {p} : pc'[q] = pc[q] /\ res'[q] = res[q] /\ call'[q] = call[q]
    BY <1>0, <1>2, <2>1 DEF Call, Goto, TypeOK
  <2> QED BY <2>4, <2>5, <1>a
<1>3. ASSUME NEW p \in Proc, Return(p) PROVE PlaceInv'
  <2>1. PlaceOf(p)'
    BY <1>0, <1>3 DEF Return, Finish, Goto, TypeOK, PlaceOf, Undecided, PublishPcs, Removing,
       CallShape, Publishing
  <2>2. \A q \in Proc \ {p} : pc'[q] = pc[q] /\ res'[q] = res[q] /\ call'[q] = call[q]
    BY <1>0, <1>3 DEF Return, Finish, Goto, TypeOK
  <2> QED BY <2>1, <2>2, <1>a
<1>4. ASSUME NEW p \in Proc, Unwind(p) PROVE PlaceInv'
  <2>1. PlaceOf(p)'
    BY <1>0, <1>4 DEF Unwind, Finish, Goto, TypeOK, PlaceOf, Undecided, PublishPcs, Removing,
       CallShape, Publishing
  <2>2. \A q \in Proc \ {p} : pc'[q] = pc[q] /\ res'[q] = res[q] /\ call'[q] = call[q]
    BY <1>0, <1>4 DEF Unwind, Finish, Goto, TypeOK
  <2> QED BY <2>1, <2>2, <1>a
<1>5. ASSUME NEW p \in Proc, Check(p) PROVE PlaceInv'
  <2>1. PlaceOf(p)'
    BY <1>0, <1>5 DEF Check, Goto, Answer, TypeOK, PlaceOf, Undecided, PublishPcs, Removing,
       CallShape, Publishing
  <2>2. \A q \in Proc \ {p} : pc'[q] = pc[q] /\ res'[q] = res[q] /\ call'[q] = call[q]
    BY <1>0, <1>5 DEF Check, Goto, Answer, TypeOK
  <2> QED BY <2>1, <2>2, <1>a
<1>6. ASSUME NEW p \in Proc, Lock(p) PROVE PlaceInv'
  <2>1. PlaceOf(p)'
    BY <1>0, <1>6 DEF Lock, Acquire, Goto, TypeOK, PlaceOf, Undecided, PublishPcs, Removing,
       CallShape, Publishing
  <2>2. \A q \in Proc \ {p} : pc'[q] = pc[q] /\ res'[q] = res[q] /\ call'[q] = call[q]
    BY <1>0, <1>6 DEF Lock, Acquire, Goto, TypeOK
  <2> QED BY <2>1, <2>2, <1>a
<1>7. ASSUME NEW p \in Proc, Recheck(p) PROVE PlaceInv'
  <2>1. PlaceOf(p)'
    BY <1>0, <1>7 DEF Recheck, Goto, Answer, TypeOK, PlaceOf, Undecided, PublishPcs, Removing,
       CallShape, Publishing
  <2>2. \A q \in Proc \ {p} : pc'[q] = pc[q] /\ res'[q] = res[q] /\ call'[q] = call[q]
    BY <1>0, <1>7 DEF Recheck, Goto, Answer, TypeOK
  <2> QED BY <2>1, <2>2, <1>a
<1>8. ASSUME NEW p \in Proc, AdoptPin(p) PROVE PlaceInv'
  <2>1. PlaceOf(p)'
    BY <1>0, <1>8 DEF AdoptPin, Goto, Answer, TypeOK, PlaceOf, Undecided, PublishPcs, Removing,
       CallShape, Publishing
  <2>2. \A q \in Proc \ {p} : pc'[q] = pc[q] /\ res'[q] = res[q] /\ call'[q] = call[q]
    BY <1>0, <1>8 DEF AdoptPin, Goto, Answer, TypeOK
  <2> QED BY <2>1, <2>2, <1>a
<1>9. ASSUME NEW p \in Proc, AdoptVerify(p) PROVE PlaceInv'
  <2>1. PlaceOf(p)'
    BY <1>0, <1>9 DEF AdoptVerify, Goto, Answer, TypeOK, PlaceOf, Undecided, PublishPcs, Removing,
       CallShape, Publishing
  <2>2. \A q \in Proc \ {p} : pc'[q] = pc[q] /\ res'[q] = res[q] /\ call'[q] = call[q]
    BY <1>0, <1>9 DEF AdoptVerify, Goto, Answer, TypeOK
  <2> QED BY <2>1, <2>2, <1>a
<1>10. ASSUME NEW p \in Proc, StatShare(p) PROVE PlaceInv'
  <2>1. PlaceOf(p)'
    BY <1>0, <1>10 DEF StatShare, Goto, TypeOK, PlaceOf, Undecided, PublishPcs, Removing,
       CallShape, Publishing
  <2>2. \A q \in Proc \ {p} : pc'[q] = pc[q] /\ res'[q] = res[q] /\ call'[q] = call[q]
    BY <1>0, <1>10 DEF StatShare, Goto, TypeOK
  <2> QED BY <2>1, <2>2, <1>a
<1>11. ASSUME NEW p \in Proc, LinkShare(p) PROVE PlaceInv'
  <2>1. PlaceOf(p)'
    BY <1>0, <1>11 DEF LinkShare, Goto, Answer, TypeOK, PlaceOf, Undecided, PublishPcs, Removing,
       CallShape, Publishing
  <2>2. \A q \in Proc \ {p} : pc'[q] = pc[q] /\ res'[q] = res[q] /\ call'[q] = call[q]
    BY <1>0, <1>11 DEF LinkShare, Goto, Answer, TypeOK
  <2> QED BY <2>1, <2>2, <1>a
<1>12. ASSUME NEW p \in Proc, Copy(p) PROVE PlaceInv'
  <2>1. PlaceOf(p)'
    BY <1>0, <1>12 DEF Copy, Goto, TypeOK, PlaceOf, Undecided, PublishPcs, Removing, CallShape,
       Publishing
  <2>2. \A q \in Proc \ {p} : pc'[q] = pc[q] /\ res'[q] = res[q] /\ call'[q] = call[q]
    BY <1>0, <1>12 DEF Copy, Goto, TypeOK
  <2> QED BY <2>1, <2>2, <1>a
<1>13. ASSUME NEW p \in Proc, CopyDone(p) PROVE PlaceInv'
  <2>1. PlaceOf(p)'
    BY <1>0, <1>13 DEF CopyDone, Goto, TypeOK, PlaceOf, Undecided, PublishPcs, Removing,
       CallShape, Publishing
  <2>2. \A q \in Proc \ {p} : pc'[q] = pc[q] /\ res'[q] = res[q] /\ call'[q] = call[q]
    BY <1>0, <1>13 DEF CopyDone, Goto, TypeOK
  <2> QED BY <2>1, <2>2, <1>a
<1>14. ASSUME NEW p \in Proc, LinkToShare(p) PROVE PlaceInv'
  <2>1. PlaceOf(p)'
    BY <1>0, <1>14 DEF LinkToShare, Goto, Answer, TypeOK, PlaceOf, Undecided, PublishPcs,
       Removing, CallShape, Publishing
  <2>2. \A q \in Proc \ {p} : pc'[q] = pc[q] /\ res'[q] = res[q] /\ call'[q] = call[q]
    BY <1>0, <1>14 DEF LinkToShare, Goto, Answer, TypeOK
  <2> QED BY <2>1, <2>2, <1>a
<1>15. ASSUME NEW p \in Proc, LinkStat(p) PROVE PlaceInv'
  <2>1. PlaceOf(p)'
    BY <1>0, <1>15 DEF LinkStat, Goto, Answer, TypeOK, PlaceOf, Undecided, PublishPcs, Removing,
       CallShape, Publishing
  <2>2. \A q \in Proc \ {p} : pc'[q] = pc[q] /\ res'[q] = res[q] /\ call'[q] = call[q]
    BY <1>0, <1>15 DEF LinkStat, Goto, Answer, TypeOK
  <2> QED BY <2>1, <2>2, <1>a
<1>16. ASSUME NEW p \in Proc, LinkDup(p) PROVE PlaceInv'
  <2>1. PlaceOf(p)'
    BY <1>0, <1>16 DEF LinkDup, Goto, Answer, TypeOK, PlaceOf, Undecided, PublishPcs, Removing,
       CallShape, Publishing
  <2>2. \A q \in Proc \ {p} : pc'[q] = pc[q] /\ res'[q] = res[q] /\ call'[q] = call[q]
    BY <1>0, <1>16 DEF LinkDup, Goto, Answer, TypeOK
  <2> QED BY <2>1, <2>2, <1>a
<1>17. ASSUME NEW p \in Proc, LinkPin(p) PROVE PlaceInv'
  <2>1. PlaceOf(p)'
    BY <1>0, <1>17 DEF LinkPin, Goto, Answer, TypeOK, PlaceOf, Undecided, PublishPcs, Removing,
       CallShape, Publishing
  <2>2. \A q \in Proc \ {p} : pc'[q] = pc[q] /\ res'[q] = res[q] /\ call'[q] = call[q]
    BY <1>0, <1>17 DEF LinkPin, Goto, Answer, TypeOK
  <2> QED BY <2>1, <2>2, <1>a
<1>18. ASSUME NEW p \in Proc, Rename(p) PROVE PlaceInv'
  <2>1. PlaceOf(p)'
    BY <1>0, <1>18 DEF Rename, Goto, Answer, TypeOK, PlaceOf, Undecided, PublishPcs, Removing,
       CallShape, Publishing
  <2>2. \A q \in Proc \ {p} : pc'[q] = pc[q] /\ res'[q] = res[q] /\ call'[q] = call[q]
    BY <1>0, <1>18 DEF Rename, Goto, Answer, TypeOK
  <2> QED BY <2>1, <2>2, <1>a
<1>19. ASSUME NEW p \in Proc, MoveStat(p) PROVE PlaceInv'
  <2>1. PlaceOf(p)'
    BY <1>0, <1>19 DEF MoveStat, Goto, Answer, TypeOK, PlaceOf, Undecided, PublishPcs, Removing,
       CallShape, Publishing
  <2>2. \A q \in Proc \ {p} : pc'[q] = pc[q] /\ res'[q] = res[q] /\ call'[q] = call[q]
    BY <1>0, <1>19 DEF MoveStat, Goto, Answer, TypeOK
  <2> QED BY <2>1, <2>2, <1>a
<1>20. ASSUME NEW p \in Proc, RmTry(p) PROVE PlaceInv'
  <2>1. PlaceOf(p)'
    BY <1>0, <1>20 DEF RmTry, RemoveAllDone, Goto, Answer, TypeOK, PlaceOf, Undecided, PublishPcs,
       Removing, CallShape, Publishing
  <2>2. \A q \in Proc \ {p} : pc'[q] = pc[q] /\ res'[q] = res[q] /\ call'[q] = call[q]
    BY <1>0, <1>20 DEF RmTry, RemoveAllDone, Goto, Answer, TypeOK
  <2> QED BY <2>1, <2>2, <1>a
<1>21. ASSUME NEW p \in Proc, RmOpen(p) PROVE PlaceInv'
  <2>1. PlaceOf(p)'
    BY <1>0, <1>21 DEF RmOpen, RemoveAllDone, Goto, Answer, TypeOK, PlaceOf, Undecided,
       PublishPcs, Removing, CallShape, Publishing
  <2>2. \A q \in Proc \ {p} : pc'[q] = pc[q] /\ res'[q] = res[q] /\ call'[q] = call[q]
    BY <1>0, <1>21 DEF RmOpen, RemoveAllDone, Goto, Answer, TypeOK
  <2> QED BY <2>1, <2>2, <1>a
<1>22. ASSUME NEW p \in Proc, RmUnlink(p) PROVE PlaceInv'
  <2>1. PlaceOf(p)'
    BY <1>0, <1>22 DEF RmUnlink, Goto, TypeOK, PlaceOf, Undecided, PublishPcs, Removing,
       CallShape, Publishing
  <2>2. \A q \in Proc \ {p} : pc'[q] = pc[q] /\ res'[q] = res[q] /\ call'[q] = call[q]
    BY <1>0, <1>22 DEF RmUnlink, Goto, TypeOK
  <2> QED BY <2>1, <2>2, <1>a
<1>23. ASSUME NEW p \in Proc, RmDir(p) PROVE PlaceInv'
  <2>1. PlaceOf(p)'
    BY <1>0, <1>23 DEF RmDir, RemoveAllDone, RemoveAllFailed, Goto, Answer, TypeOK, PlaceOf,
       Undecided, PublishPcs, Removing, CallShape, Publishing
  <2>2. \A q \in Proc \ {p} : pc'[q] = pc[q] /\ res'[q] = res[q] /\ call'[q] = call[q]
    BY <1>0, <1>23 DEF RmDir, RemoveAllDone, RemoveAllFailed, Goto, Answer, TypeOK
  <2> QED BY <2>1, <2>2, <1>a
<1>24. ASSUME NEW p \in Proc, Nlink(p) PROVE PlaceInv'
  <2>1. PlaceOf(p)'
    BY <1>0, <1>24 DEF Nlink, Goto, TypeOK, PlaceOf, Undecided, PublishPcs, Removing, CallShape,
       Publishing
  <2>2. \A q \in Proc \ {p} : pc'[q] = pc[q] /\ res'[q] = res[q] /\ call'[q] = call[q]
    BY <1>0, <1>24 DEF Nlink, Goto, TypeOK
  <2> QED BY <2>1, <2>2, <1>a
<1>25. ASSUME NEW p \in Proc, CleanLock(p) PROVE PlaceInv'
  <2>1. PlaceOf(p)'
    BY <1>0, <1>25 DEF CleanLock, Acquire, Goto, TypeOK, PlaceOf, Undecided, PublishPcs, Removing,
       CallShape, Publishing
  <2>2. \A q \in Proc \ {p} : pc'[q] = pc[q] /\ res'[q] = res[q] /\ call'[q] = call[q]
    BY <1>0, <1>25 DEF CleanLock, Acquire, Goto, TypeOK
  <2> QED BY <2>1, <2>2, <1>a
<1>26. ASSUME NEW p \in Proc, NlinkAgain(p) PROVE PlaceInv'
  <2>1. PlaceOf(p)'
    BY <1>0, <1>26 DEF NlinkAgain, Goto, TypeOK, PlaceOf, Undecided, PublishPcs, Removing,
       CallShape, Publishing
  <2>2. \A q \in Proc \ {p} : pc'[q] = pc[q] /\ res'[q] = res[q] /\ call'[q] = call[q]
    BY <1>0, <1>26 DEF NlinkAgain, Goto, TypeOK
  <2> QED BY <2>1, <2>2, <1>a
<1>27. ASSUME NEW p \in Proc, RemoveShare(p) PROVE PlaceInv'
  <2>1. PlaceOf(p)'
    BY <1>0, <1>27 DEF RemoveShare, Goto, TypeOK, PlaceOf, Undecided, PublishPcs, Removing,
       CallShape, Publishing
  <2>2. \A q \in Proc \ {p} : pc'[q] = pc[q] /\ res'[q] = res[q] /\ call'[q] = call[q]
    BY <1>0, <1>27 DEF RemoveShare, Goto, TypeOK
  <2> QED BY <2>1, <2>2, <1>a
<1>28. ASSUME NEW p \in Proc, LabelStat(p) PROVE PlaceInv'
  <2>1. PlaceOf(p)'
    BY <1>0, <1>28 DEF LabelStat, Goto, Answer, TypeOK, PlaceOf, Undecided, PublishPcs, Removing,
       CallShape, Publishing
  <2>2. \A q \in Proc \ {p} : pc'[q] = pc[q] /\ res'[q] = res[q] /\ call'[q] = call[q]
    BY <1>0, <1>28 DEF LabelStat, Goto, Answer, TypeOK
  <2> QED BY <2>1, <2>2, <1>a
<1>29. ASSUME NEW p \in Proc, LabelMove(p) PROVE PlaceInv'
  <2>1. PlaceOf(p)'
    BY <1>0, <1>29 DEF LabelMove, Goto, Answer, TypeOK, PlaceOf, Undecided, PublishPcs, Removing,
       CallShape, Publishing
  <2>2. \A q \in Proc \ {p} : pc'[q] = pc[q] /\ res'[q] = res[q] /\ call'[q] = call[q]
    BY <1>0, <1>29 DEF LabelMove, Goto, Answer, TypeOK
  <2> QED BY <2>1, <2>2, <1>a
<1>30. ASSUME NEW p \in Proc, OpenStat(p) PROVE PlaceInv'
  <2>1. PlaceOf(p)'
    BY <1>0, <1>30 DEF OpenStat, Goto, Answer, TypeOK, PlaceOf, Undecided, PublishPcs, Removing,
       CallShape, Publishing
  <2>2. \A q \in Proc \ {p} : pc'[q] = pc[q] /\ res'[q] = res[q] /\ call'[q] = call[q]
    BY <1>0, <1>30 DEF OpenStat, Goto, Answer, TypeOK
  <2> QED BY <2>1, <2>2, <1>a
<1>31. ASSUME NEW p \in Proc, OpenFile(p) PROVE PlaceInv'
  <2>1. PlaceOf(p)'
    BY <1>0, <1>31 DEF OpenFile, Goto, Answer, TypeOK, PlaceOf, Undecided, PublishPcs, Removing,
       CallShape, Publishing
  <2>2. \A q \in Proc \ {p} : pc'[q] = pc[q] /\ res'[q] = res[q] /\ call'[q] = call[q]
    BY <1>0, <1>31 DEF OpenFile, Goto, Answer, TypeOK
  <2> QED BY <2>1, <2>2, <1>a
<1>32. ASSUME NEW p \in Proc, Fail(p) PROVE PlaceInv'
  <2>1. PlaceOf(p)'
    BY <1>0, <1>32 DEF Fail, RemoveAllFailed, Goto, Answer, TypeOK, PlaceOf, Undecided,
       PublishPcs, Removing, CallShape, Publishing
  <2>2. \A q \in Proc \ {p} : pc'[q] = pc[q] /\ res'[q] = res[q] /\ call'[q] = call[q]
    BY <1>0, <1>32 DEF Fail, RemoveAllFailed, Goto, Answer, TypeOK
  <2> QED BY <2>1, <2>2, <1>a
<1>33. ASSUME NEW p \in Proc, Crash(p) PROVE PlaceInv'
  <2>1. PlaceOf(p)'
    BY <1>0, <1>33 DEF Crash, Finish, Goto, TypeOK, PlaceOf, Undecided, PublishPcs, Removing,
       CallShape, Publishing
  <2>2. \A q \in Proc \ {p} : pc'[q] = pc[q] /\ res'[q] = res[q] /\ call'[q] = call[q]
    BY <1>0, <1>33 DEF Crash, Finish, Goto, TypeOK
  <2> QED BY <2>1, <2>2, <1>a
<1>34. CASE SourceAppears \/ SourceGoes
  BY <1>0, <1>34 DEF SourceAppears, SourceGoes, PlaceInv, PlaceOf
<1> QED
  BY <1>1, <1>2, <1>3, <1>4, <1>5, <1>6, <1>7, <1>8, <1>9, <1>10, <1>11, <1>12, <1>13, <1>14,
     <1>15, <1>16, <1>17, <1>18, <1>19, <1>20, <1>21, <1>22, <1>23, <1>24, <1>25, <1>26, <1>27,
     <1>28, <1>29, <1>30, <1>31, <1>32, <1>33, <1>34 DEF Next, Step, Publish, RemoveAll,
     tryCleanup

\* Spec keeps the places.
THEOREM PlaceInvariant == Spec => []PlaceInv
<1>1. Init => PlaceInv
  BY DEF Init, PlaceInv, PlaceOf
<1> QED BY <1>1, NextPlace, ShapeInvariant, PTL DEF Spec

\* Removing the directory spoils the handles on it, and no other.
LEMMA DirGone ==
    ASSUME TypeOK, \A q \in Proc : HandleOf(q), NEW n \in Namespace
    PROVE  /\ rmdir(n) => \A q \in Proc : fd'[q] => fd[q] /\ call[q].ns # n /\ dir'[call[q].ns]
           /\ UNCHANGED <<dir, fd>> => \A q \in Proc : fd'[q] => fd[q] /\ dir'[call[q].ns]
           /\ \A p \in Proc : fd' = [fd EXCEPT ![p] = FALSE] /\ UNCHANGED dir =>
                 /\ ~fd'[p]
                 /\ \A q \in Proc : fd'[q] => fd[q] /\ dir'[call[q].ns]
<1>1. ASSUME rmdir(n), NEW q \in Proc, fd'[q] PROVE fd[q] /\ call[q].ns # n /\ dir'[call[q].ns]
  <2>1. fd[q] /\ call[q].ns # n
    BY <1>1 DEF rmdir
  <2>2. dir[call[q].ns]
    BY <2>1 DEF HandleOf
  <2>3. call[q].ns \in Namespace
    BY <2>1 DEF HandleOf, TypeOK, Calls
  <2>4. dir' = [dir EXCEPT ![n] = FALSE]
    BY <1>1 DEF rmdir
  <2>5. dir'[call[q].ns] = dir[call[q].ns]
    BY <2>1, <2>3, <2>4 DEF TypeOK
  <2> QED BY <2>1, <2>2, <2>5
<1>2. ASSUME UNCHANGED <<dir, fd>>, NEW q \in Proc, fd'[q] PROVE fd[q] /\ dir'[call[q].ns]
  BY <1>2 DEF HandleOf
<1>3. ASSUME NEW p \in Proc, fd' = [fd EXCEPT ![p] = FALSE], UNCHANGED dir
      PROVE  ~fd'[p] /\ \A q \in Proc : fd'[q] => fd[q] /\ dir'[call[q].ns]
  BY <1>3 DEF HandleOf, TypeOK
<1> QED BY <1>1, <1>2, <1>3

\* Every step keeps what a handle leads to.
LEMMA NextHandle ==
    Shape /\ LockOwned /\ Staging /\ ShareStable /\ EntryInv /\ HandleInv /\ [Next]_vars => HandleInv'
<1> SUFFICES ASSUME Shape, LockOwned, Staging, ShareStable, EntryInv, HandleInv, [Next]_vars
    PROVE HandleInv'
  OBVIOUS
<1> USE OsAssumption
<1> USE DEF disk, entry, temps, rmvars
<1>0. TypeOK /\ CallShape /\ \A q \in Proc : HandleOf(q)
  BY DEF Shape, HandleInv
<1>1. CASE UNCHANGED vars
  BY <1>0, <1>1 DEF vars, HandleInv, HandleOf, Moving
<1>a. ASSUME NEW p \in Proc, HandleOf(p)',
             \A q \in Proc \ {p} : /\ pc'[q] = pc[q] /\ call'[q] = call[q]
                                   /\ names'[q] = names[q] /\ stage'[q] = stage[q]
                                   /\ fd'[q] => fd[q] /\ dir'[call[q].ns]
                                   /\ fd'[q] /\ blob'[call[q].ns] # None => blob[call[q].ns] # None
      PROVE  HandleInv'
  BY <1>0, <1>a DEF HandleInv, HandleOf, Moving
<1>2. ASSUME NEW p \in Proc, Call(p) PROVE HandleInv'
  <2>1. PICK c \in Calls : call' = [call EXCEPT ![p] = c] /\ Goto(p, First(c.op))
    BY <1>2 DEF Call
  <2>2. c.op \in Ops
    BY <2>1 DEF Calls
  <2>3. pc'[p] = First(c.op) /\ call'[p].op = c.op /\ ~fd'[p]
    BY <1>0, <1>2, <2>1 DEF Call, Goto, TypeOK, HandleOf
  <2>4. HandleOf(p)'
    BY <2>2, <2>3, FirstStep DEF HandleOf, Moving, Removing, Publishing
  <2>5. \A q \in Proc \ {p} : pc'[q] = pc[q] /\ call'[q] = call[q]
    BY <1>0, <2>1 DEF Goto, TypeOK
  <2> QED BY <1>0, <1>2, <2>4, <2>5, <1>a DEF Call, HandleOf
<1>3. ASSUME NEW p \in Proc, Return(p) PROVE HandleInv'
  <2>1. HandleOf(p)'
    BY <1>0, <1>3 DEF Return, Finish, Goto, TypeOK, HandleOf, Moving, Removing, CallShape,
       PublishPcs, Publishing
  <2>2. blob' = blob /\ dir' = dir
    BY <1>3 DEF Return
  <2>3. \A q \in Proc \ {p} : pc'[q] = pc[q] /\ call'[q] = call[q] /\ names'[q] = names[q]
          /\ stage'[q] = stage[q] /\ (fd'[q] => fd[q])
    BY <1>0, <1>3 DEF Return, Finish, Goto, TypeOK
  <2> QED BY <1>0, <2>1, <2>2, <2>3, <1>a DEF HandleOf
<1>4. ASSUME NEW p \in Proc, Unwind(p) PROVE HandleInv'
  <2>1. HandleOf(p)'
    BY <1>0, <1>4 DEF Unwind, Finish, Goto, TypeOK, HandleOf, Moving, Removing, CallShape,
       PublishPcs, Publishing
  <2>2. blob' = blob /\ dir' = dir
    BY <1>4 DEF Unwind
  <2>3. \A q \in Proc \ {p} : pc'[q] = pc[q] /\ call'[q] = call[q] /\ names'[q] = names[q]
          /\ stage'[q] = stage[q] /\ (fd'[q] => fd[q])
    BY <1>0, <1>4 DEF Unwind, Finish, Goto, TypeOK
  <2> QED BY <1>0, <2>1, <2>2, <2>3, <1>a DEF HandleOf
<1>5. ASSUME NEW p \in Proc, Check(p) PROVE HandleInv'
  <2>1. HandleOf(p)'
    BY <1>0, <1>5 DEF Check, Goto, Answer, TypeOK, HandleOf, Moving, Removing, CallShape,
       PublishPcs, Publishing
  <2>2. blob' = blob /\ dir' = dir
    BY <1>5 DEF Check
  <2>3. \A q \in Proc \ {p} : pc'[q] = pc[q] /\ call'[q] = call[q] /\ names'[q] = names[q]
          /\ stage'[q] = stage[q] /\ (fd'[q] => fd[q])
    BY <1>0, <1>5 DEF Check, Goto, Answer, TypeOK
  <2> QED BY <1>0, <2>1, <2>2, <2>3, <1>a DEF HandleOf
<1>6. ASSUME NEW p \in Proc, Lock(p) PROVE HandleInv'
  <2>1. HandleOf(p)'
    BY <1>0, <1>6 DEF Lock, Acquire, Goto, TypeOK, HandleOf, Moving, Removing, CallShape,
       PublishPcs, Publishing
  <2>2. blob' = blob /\ dir' = dir
    BY <1>6 DEF Lock
  <2>3. \A q \in Proc \ {p} : pc'[q] = pc[q] /\ call'[q] = call[q] /\ names'[q] = names[q]
          /\ stage'[q] = stage[q] /\ (fd'[q] => fd[q])
    BY <1>0, <1>6 DEF Lock, Acquire, Goto, TypeOK
  <2> QED BY <1>0, <2>1, <2>2, <2>3, <1>a DEF HandleOf
<1>7. ASSUME NEW p \in Proc, Recheck(p) PROVE HandleInv'
  <2>1. HandleOf(p)'
    BY <1>0, <1>7 DEF Recheck, Goto, Answer, TypeOK, HandleOf, Moving, Removing, CallShape,
       PublishPcs, Publishing
  <2>2. blob' = blob /\ dir' = dir
    BY <1>7 DEF Recheck
  <2>3. \A q \in Proc \ {p} : pc'[q] = pc[q] /\ call'[q] = call[q] /\ names'[q] = names[q]
          /\ stage'[q] = stage[q] /\ (fd'[q] => fd[q])
    BY <1>0, <1>7 DEF Recheck, Goto, Answer, TypeOK
  <2> QED BY <1>0, <2>1, <2>2, <2>3, <1>a DEF HandleOf
<1>8. ASSUME NEW p \in Proc, AdoptPin(p) PROVE HandleInv'
  <2>1. HandleOf(p)'
    BY <1>0, <1>8 DEF AdoptPin, Goto, Answer, TypeOK, HandleOf, Moving, Removing, CallShape,
       PublishPcs, Publishing
  <2>2. blob' = blob /\ dir' = dir
    BY <1>8 DEF AdoptPin
  <2>3. \A q \in Proc \ {p} : pc'[q] = pc[q] /\ call'[q] = call[q] /\ names'[q] = names[q]
          /\ stage'[q] = stage[q] /\ (fd'[q] => fd[q])
    BY <1>0, <1>8 DEF AdoptPin, Goto, Answer, TypeOK
  <2> QED BY <1>0, <2>1, <2>2, <2>3, <1>a DEF HandleOf
<1>9. ASSUME NEW p \in Proc, AdoptVerify(p) PROVE HandleInv'
  <2>1. HandleOf(p)'
    BY <1>0, <1>9 DEF AdoptVerify, Goto, Answer, TypeOK, HandleOf, Moving, Removing, CallShape,
       PublishPcs, Publishing
  <2>2. blob' = blob /\ dir' = dir
    BY <1>9 DEF AdoptVerify
  <2>3. \A q \in Proc \ {p} : pc'[q] = pc[q] /\ call'[q] = call[q] /\ names'[q] = names[q]
          /\ stage'[q] = stage[q] /\ (fd'[q] => fd[q])
    BY <1>0, <1>9 DEF AdoptVerify, Goto, Answer, TypeOK
  <2> QED BY <1>0, <2>1, <2>2, <2>3, <1>a DEF HandleOf
<1>10. ASSUME NEW p \in Proc, StatShare(p) PROVE HandleInv'
  <2>1. HandleOf(p)'
    BY <1>0, <1>10 DEF StatShare, Goto, TypeOK, HandleOf, Moving, Removing, CallShape, PublishPcs,
       Publishing
  <2>2. blob' = blob /\ dir' = dir
    BY <1>10 DEF StatShare
  <2>3. \A q \in Proc \ {p} : pc'[q] = pc[q] /\ call'[q] = call[q] /\ names'[q] = names[q]
          /\ stage'[q] = stage[q] /\ (fd'[q] => fd[q])
    BY <1>0, <1>10 DEF StatShare, Goto, TypeOK
  <2> QED BY <1>0, <2>1, <2>2, <2>3, <1>a DEF HandleOf
<1>11. ASSUME NEW p \in Proc, LinkShare(p) PROVE HandleInv'
  <2>1. HandleOf(p)'
    BY <1>0, <1>11 DEF LinkShare, Goto, Answer, TypeOK, HandleOf, Moving, Removing, CallShape,
       PublishPcs, Publishing, Staging, ShareStable
  <2>2. blob' = blob /\ dir' = dir
    BY <1>11 DEF LinkShare
  <2>3. \A q \in Proc \ {p} : pc'[q] = pc[q] /\ call'[q] = call[q] /\ names'[q] = names[q]
          /\ stage'[q] = stage[q] /\ (fd'[q] => fd[q])
    BY <1>0, <1>11 DEF LinkShare, Goto, Answer, TypeOK
  <2> QED BY <1>0, <2>1, <2>2, <2>3, <1>a DEF HandleOf
<1>12. ASSUME NEW p \in Proc, Copy(p) PROVE HandleInv'
  <2>1. HandleOf(p)'
    BY <1>0, <1>12 DEF Copy, Goto, TypeOK, HandleOf, Moving, Removing, CallShape, PublishPcs,
       Publishing
  <2>2. blob' = blob /\ dir' = dir
    BY <1>12 DEF Copy
  <2>3. \A q \in Proc \ {p} : pc'[q] = pc[q] /\ call'[q] = call[q] /\ names'[q] = names[q]
          /\ stage'[q] = stage[q] /\ (fd'[q] => fd[q])
    BY <1>0, <1>12 DEF Copy, Goto, TypeOK
  <2> QED BY <1>0, <2>1, <2>2, <2>3, <1>a DEF HandleOf
<1>13. ASSUME NEW p \in Proc, CopyDone(p) PROVE HandleInv'
  <2>1. HandleOf(p)'
    BY <1>0, <1>13 DEF CopyDone, Goto, TypeOK, HandleOf, Moving, Removing, CallShape, PublishPcs,
       Publishing
  <2>2. blob' = blob /\ dir' = dir
    BY <1>13 DEF CopyDone
  <2>3. \A q \in Proc \ {p} : pc'[q] = pc[q] /\ call'[q] = call[q] /\ names'[q] = names[q]
          /\ stage'[q] = stage[q] /\ (fd'[q] => fd[q])
    BY <1>0, <1>13 DEF CopyDone, Goto, TypeOK
  <2> QED BY <1>0, <2>1, <2>2, <2>3, <1>a DEF HandleOf
<1>14. ASSUME NEW p \in Proc, LinkToShare(p) PROVE HandleInv'
  <2>1. HandleOf(p)'
    BY <1>0, <1>14 DEF LinkToShare, Goto, Answer, TypeOK, HandleOf, Moving, Removing, CallShape,
       PublishPcs, Publishing, Staging, ShareStable
  <2>2. blob' = blob /\ dir' = dir
    BY <1>14 DEF LinkToShare
  <2>3. \A q \in Proc \ {p} : pc'[q] = pc[q] /\ call'[q] = call[q] /\ names'[q] = names[q]
          /\ stage'[q] = stage[q] /\ (fd'[q] => fd[q])
    BY <1>0, <1>14 DEF LinkToShare, Goto, Answer, TypeOK
  <2> QED BY <1>0, <2>1, <2>2, <2>3, <1>a DEF HandleOf
<1>15. ASSUME NEW p \in Proc, LinkStat(p) PROVE HandleInv'
  <2>1. HandleOf(p)'
    BY <1>0, <1>15 DEF LinkStat, Goto, Answer, TypeOK, HandleOf, Moving, Removing, CallShape,
       PublishPcs, Publishing
  <2>2. blob' = blob /\ dir' = dir
    BY <1>15 DEF LinkStat
  <2>3. \A q \in Proc \ {p} : pc'[q] = pc[q] /\ call'[q] = call[q] /\ names'[q] = names[q]
          /\ stage'[q] = stage[q] /\ (fd'[q] => fd[q])
    BY <1>0, <1>15 DEF LinkStat, Goto, Answer, TypeOK
  <2> QED BY <1>0, <2>1, <2>2, <2>3, <1>a DEF HandleOf
<1>16. ASSUME NEW p \in Proc, LinkDup(p) PROVE HandleInv'
  <2>1. HandleOf(p)'
    BY <1>0, <1>16 DEF LinkDup, Goto, Answer, TypeOK, HandleOf, Moving, Removing, CallShape,
       PublishPcs, Publishing
  <2>2. blob' = blob /\ dir' = dir
    BY <1>16 DEF LinkDup
  <2>3. \A q \in Proc \ {p} : pc'[q] = pc[q] /\ call'[q] = call[q] /\ names'[q] = names[q]
          /\ stage'[q] = stage[q] /\ (fd'[q] => fd[q])
    BY <1>0, <1>16 DEF LinkDup, Goto, Answer, TypeOK
  <2> QED BY <1>0, <2>1, <2>2, <2>3, <1>a DEF HandleOf
<1>17. ASSUME NEW p \in Proc, LinkPin(p) PROVE HandleInv'
  <2>1. HandleOf(p)'
    BY <1>0, <1>17 DEF LinkPin, Goto, Answer, TypeOK, HandleOf, Moving, Removing, CallShape,
       PublishPcs, Publishing
  <2>2. blob' = blob /\ dir' = dir
    BY <1>17 DEF LinkPin
  <2>3. \A q \in Proc \ {p} : pc'[q] = pc[q] /\ call'[q] = call[q] /\ names'[q] = names[q]
          /\ stage'[q] = stage[q] /\ (fd'[q] => fd[q])
    BY <1>0, <1>17 DEF LinkPin, Goto, Answer, TypeOK
  <2> QED BY <1>0, <2>1, <2>2, <2>3, <1>a DEF HandleOf
<1>18. ASSUME NEW p \in Proc, Rename(p) PROVE HandleInv'
  <2> DEFINE n == call[p].ns
  <2>0. n \in Namespace /\ ~fd[p]
    BY <1>0, <1>18 DEF Rename, TypeOK, Calls, HandleOf
  <2>1. CASE dir[n]
    BY <1>0, <1>18, <2>1, <1>a DEF Rename, Goto, TypeOK, HandleOf, Moving
  <2>2. CASE ~dir[n]
    <3>1. \A q \in Proc : fd[q] => call[q].ns # n
      BY <1>0, <2>2 DEF HandleOf
    <3>2. /\ pc' = [pc EXCEPT ![p] = "unwind"] /\ call' = call /\ fd' = fd /\ names' = names
          /\ stage' = [stage EXCEPT ![p] = None]
          /\ dir' = [dir EXCEPT ![n] = TRUE] /\ blob' = [blob EXCEPT ![n] = stage[p]]
      BY <1>18, <2>2 DEF Rename, Goto, Answer
    <3>3. HandleOf(p)'
      BY <1>0, <2>0, <3>2 DEF HandleOf, Moving, TypeOK, Removing
    <3>4. ASSUME NEW q \in Proc \ {p}
          PROVE  /\ pc'[q] = pc[q] /\ call'[q] = call[q]
                 /\ names'[q] = names[q] /\ stage'[q] = stage[q]
                 /\ fd'[q] => fd[q] /\ dir'[call[q].ns]
                 /\ fd'[q] /\ blob'[call[q].ns] # None => blob[call[q].ns] # None
      <4>1. fd[q] => call[q].ns # n /\ call[q].ns \in Namespace /\ dir[call[q].ns]
        BY <1>0, <3>1 DEF HandleOf, TypeOK, Calls
      <4>2. fd[q] => dir'[call[q].ns]
        BY <1>0, <3>2, <4>1 DEF TypeOK
      <4>3. fd[q] => blob'[call[q].ns] = blob[call[q].ns]
        BY <1>0, <3>2, <4>1 DEF TypeOK
      <4> QED BY <1>0, <3>2, <4>2, <4>3 DEF TypeOK
    <3> QED BY <3>3, <3>4, <1>a
  <2> QED BY <2>1, <2>2
<1>19. ASSUME NEW p \in Proc, MoveStat(p) PROVE HandleInv'
  <2>1. HandleOf(p)'
    BY <1>0, <1>19 DEF MoveStat, Goto, Answer, TypeOK, HandleOf, Moving, Removing, CallShape,
       PublishPcs, Publishing
  <2>2. blob' = blob /\ dir' = dir
    BY <1>19 DEF MoveStat
  <2>3. \A q \in Proc \ {p} : pc'[q] = pc[q] /\ call'[q] = call[q] /\ names'[q] = names[q]
          /\ stage'[q] = stage[q] /\ (fd'[q] => fd[q])
    BY <1>0, <1>19 DEF MoveStat, Goto, Answer, TypeOK
  <2> QED BY <1>0, <2>1, <2>2, <2>3, <1>a DEF HandleOf
<1>20. ASSUME NEW p \in Proc, RmTry(p) PROVE HandleInv'
  <2> DEFINE n == call[p].ns
  <2>0. n \in Namespace /\ ~fd[p]
    BY <1>0, <1>20 DEF RmTry, TypeOK, Calls, HandleOf
  <2>1. \A q \in Proc : fd'[q] => fd[q] /\ dir'[call[q].ns]
    BY <1>0, <1>20, <2>0, DirGone DEF RmTry
  <2>2. pc'[p] # "rmdir" /\ (Moving(p)' => Moving(p) /\ stage'[p] = stage[p])
    BY <1>0, <1>20 DEF RmTry, RemoveAllDone, Goto, Answer, Moving, Removing, Publishing, TypeOK,
       CallShape
  <2>3. HandleOf(p)'
    BY <1>0, <2>0, <2>1, <2>2 DEF HandleOf
  <2>4. blob' = blob /\ call' = call /\ names' = names /\ stage' = stage
    BY <1>20 DEF RmTry
  <2>5. \A q \in Proc \ {p} : pc'[q] = pc[q]
    BY <1>0, <1>20 DEF RmTry, RemoveAllDone, Goto, Answer, TypeOK
  <2> QED BY <2>1, <2>3, <2>4, <2>5, <1>a
<1>21. ASSUME NEW p \in Proc, RmOpen(p) PROVE HandleInv'
  <2> DEFINE n == call[p].ns
  <2>0. n \in Namespace /\ (dir[n] \/ ~dir[n])
    BY <1>0, <1>21 DEF RmOpen, TypeOK, Calls
  <2>1. CASE ~dir[n]
    BY <1>0, <1>21, <2>1, <1>a DEF RmOpen, RemoveAllDone, Goto, Answer, TypeOK, HandleOf, Moving,
       Removing, Publishing, CallShape
  <2>2. CASE dir[n]
    <3>1. /\ fd' = [fd EXCEPT ![p] = TRUE] /\ blob' = blob /\ dir' = dir /\ call' = call /\ stage' = stage
          /\ names' = [names EXCEPT ![p] = {x \in {"blob", "labels"} :
                              IF x = "blob" THEN blob[n] # None ELSE labels[n]}]
          /\ pc' = [pc EXCEPT ![p] = IF names'[p] = {} THEN "rmdir" ELSE "rmnames"]
      BY <1>21, <2>2 DEF RmOpen, Goto
    <3>2. blob[n] # None => "blob" \in names'[p]
      BY <1>0, <3>1 DEF TypeOK
    <3>3. HandleOf(p)'
      BY <1>0, <1>21, <2>2, <3>1, <3>2 DEF RmOpen, HandleOf, Moving, Removing, TypeOK
    <3>4. \A q \in Proc \ {p} : names'[q] = names[q] /\ pc'[q] = pc[q] /\ (fd'[q] => fd[q])
      BY <1>0, <3>1 DEF TypeOK
    <3> QED BY <1>0, <3>1, <3>3, <3>4, <1>a DEF HandleOf
  <2> QED BY <2>0, <2>1, <2>2
<1>22. ASSUME NEW p \in Proc, RmUnlink(p) PROVE HandleInv'
  <2> DEFINE n == call[p].ns
  <2>0. n \in Namespace
    BY <1>0, <1>22 DEF RmUnlink, TypeOK, Calls
  <2>1. PICK x \in names[p] :
          /\ names' = [names EXCEPT ![p] = @ \ {x}]
          /\ blob' = IF fd[p] /\ x = "blob" THEN [blob EXCEPT ![n] = None] ELSE blob
    BY <1>22 DEF RmUnlink
  <2>2. fd[p] /\ x = "blob" => blob'[n] = None
    BY <1>0, <2>0, <2>1 DEF TypeOK
  <2>3. \A m \in Namespace : blob'[m] # None => blob[m] # None
    BY <1>0, <2>0, <2>1 DEF TypeOK
  <2>4. names'[p] = names[p] \ {x}
    BY <1>0, <2>1 DEF TypeOK
  <2>5. pc' = [pc EXCEPT ![p] = IF names'[p] = {} THEN "rmdir" ELSE "rmnames"]
          /\ UNCHANGED <<dir, fd, call, stage>>
    BY <1>22 DEF RmUnlink, Goto
  <2>6. HandleOf(p)'
    BY <1>0, <1>22, <2>0, <2>2, <2>3, <2>4, <2>5 DEF RmUnlink, HandleOf, Moving, Removing, TypeOK
  <2>7. \A q \in Proc \ {p} : names'[q] = names[q] /\ pc'[q] = pc[q] /\ (fd[q] => call[q].ns \in Namespace)
    BY <1>0, <2>1, <2>5 DEF TypeOK, HandleOf, Calls
  <2> QED BY <1>0, <2>3, <2>5, <2>6, <2>7, <1>a DEF HandleOf
<1>23. ASSUME NEW p \in Proc, RmDir(p) PROVE HandleInv'
  <2> DEFINE n == call[p].ns
  <2>0. n \in Namespace
    BY <1>0, <1>23 DEF RmDir, TypeOK, Calls
  <2>1. \A q \in Proc : fd'[q] => fd[q] /\ dir'[call[q].ns]
    BY <1>0, <1>23, <2>0, DirGone DEF RmDir
  <2>2. pc'[p] # "rmdir" /\ (Moving(p)' => Moving(p) /\ stage'[p] = stage[p])
    BY <1>0, <1>23 DEF RmDir, RemoveAllDone, RemoveAllFailed, Goto, Answer, Moving, Removing,
       Publishing, TypeOK, CallShape
  <2>6. ~fd'[p]
    BY <1>0, <1>23, <2>0, DirGone DEF RmDir
  <2>3. HandleOf(p)'
    BY <1>0, <2>0, <2>6, <2>2 DEF HandleOf
  <2>4. blob' = blob /\ call' = call /\ names' = names /\ stage' = stage
    BY <1>23 DEF RmDir
  <2>5. \A q \in Proc \ {p} : pc'[q] = pc[q]
    BY <1>0, <1>23 DEF RmDir, RemoveAllDone, RemoveAllFailed, Goto, Answer, TypeOK
  <2> QED BY <2>1, <2>3, <2>4, <2>5, <1>a
<1>24. ASSUME NEW p \in Proc, Nlink(p) PROVE HandleInv'
  <2>1. HandleOf(p)'
    BY <1>0, <1>24 DEF Nlink, Goto, TypeOK, HandleOf, Moving, Removing, CallShape, PublishPcs,
       Publishing
  <2>2. blob' = blob /\ dir' = dir
    BY <1>24 DEF Nlink
  <2>3. \A q \in Proc \ {p} : pc'[q] = pc[q] /\ call'[q] = call[q] /\ names'[q] = names[q]
          /\ stage'[q] = stage[q] /\ (fd'[q] => fd[q])
    BY <1>0, <1>24 DEF Nlink, Goto, TypeOK
  <2> QED BY <1>0, <2>1, <2>2, <2>3, <1>a DEF HandleOf
<1>25. ASSUME NEW p \in Proc, CleanLock(p) PROVE HandleInv'
  <2>1. HandleOf(p)'
    BY <1>0, <1>25 DEF CleanLock, Acquire, Goto, TypeOK, HandleOf, Moving, Removing, CallShape,
       PublishPcs, Publishing
  <2>2. blob' = blob /\ dir' = dir
    BY <1>25 DEF CleanLock
  <2>3. \A q \in Proc \ {p} : pc'[q] = pc[q] /\ call'[q] = call[q] /\ names'[q] = names[q]
          /\ stage'[q] = stage[q] /\ (fd'[q] => fd[q])
    BY <1>0, <1>25 DEF CleanLock, Acquire, Goto, TypeOK
  <2> QED BY <1>0, <2>1, <2>2, <2>3, <1>a DEF HandleOf
<1>26. ASSUME NEW p \in Proc, NlinkAgain(p) PROVE HandleInv'
  <2>1. HandleOf(p)'
    BY <1>0, <1>26 DEF NlinkAgain, Goto, TypeOK, HandleOf, Moving, Removing, CallShape,
       PublishPcs, Publishing
  <2>2. blob' = blob /\ dir' = dir
    BY <1>26 DEF NlinkAgain
  <2>3. \A q \in Proc \ {p} : pc'[q] = pc[q] /\ call'[q] = call[q] /\ names'[q] = names[q]
          /\ stage'[q] = stage[q] /\ (fd'[q] => fd[q])
    BY <1>0, <1>26 DEF NlinkAgain, Goto, TypeOK
  <2> QED BY <1>0, <2>1, <2>2, <2>3, <1>a DEF HandleOf
<1>27. ASSUME NEW p \in Proc, RemoveShare(p) PROVE HandleInv'
  <2>1. HandleOf(p)'
    BY <1>0, <1>27 DEF RemoveShare, Goto, TypeOK, HandleOf, Moving, Removing, CallShape,
       PublishPcs, Publishing
  <2>2. blob' = blob /\ dir' = dir
    BY <1>27 DEF RemoveShare
  <2>3. \A q \in Proc \ {p} : pc'[q] = pc[q] /\ call'[q] = call[q] /\ names'[q] = names[q]
          /\ stage'[q] = stage[q] /\ (fd'[q] => fd[q])
    BY <1>0, <1>27 DEF RemoveShare, Goto, TypeOK
  <2> QED BY <1>0, <2>1, <2>2, <2>3, <1>a DEF HandleOf
<1>28. ASSUME NEW p \in Proc, LabelStat(p) PROVE HandleInv'
  <2>1. HandleOf(p)'
    BY <1>0, <1>28 DEF LabelStat, Goto, Answer, TypeOK, HandleOf, Moving, Removing, CallShape,
       PublishPcs, Publishing
  <2>2. blob' = blob /\ dir' = dir
    BY <1>28 DEF LabelStat
  <2>3. \A q \in Proc \ {p} : pc'[q] = pc[q] /\ call'[q] = call[q] /\ names'[q] = names[q]
          /\ stage'[q] = stage[q] /\ (fd'[q] => fd[q])
    BY <1>0, <1>28 DEF LabelStat, Goto, Answer, TypeOK
  <2> QED BY <1>0, <2>1, <2>2, <2>3, <1>a DEF HandleOf
<1>29. ASSUME NEW p \in Proc, LabelMove(p) PROVE HandleInv'
  <2>1. HandleOf(p)'
    BY <1>0, <1>29 DEF LabelMove, Goto, Answer, TypeOK, HandleOf, Moving, Removing, CallShape,
       PublishPcs, Publishing
  <2>2. blob' = blob /\ dir' = dir
    BY <1>29 DEF LabelMove
  <2>3. \A q \in Proc \ {p} : pc'[q] = pc[q] /\ call'[q] = call[q] /\ names'[q] = names[q]
          /\ stage'[q] = stage[q] /\ (fd'[q] => fd[q])
    BY <1>0, <1>29 DEF LabelMove, Goto, Answer, TypeOK
  <2> QED BY <1>0, <2>1, <2>2, <2>3, <1>a DEF HandleOf
<1>30. ASSUME NEW p \in Proc, OpenStat(p) PROVE HandleInv'
  <2>1. HandleOf(p)'
    BY <1>0, <1>30 DEF OpenStat, Goto, Answer, TypeOK, HandleOf, Moving, Removing, CallShape,
       PublishPcs, Publishing
  <2>2. blob' = blob /\ dir' = dir
    BY <1>30 DEF OpenStat
  <2>3. \A q \in Proc \ {p} : pc'[q] = pc[q] /\ call'[q] = call[q] /\ names'[q] = names[q]
          /\ stage'[q] = stage[q] /\ (fd'[q] => fd[q])
    BY <1>0, <1>30 DEF OpenStat, Goto, Answer, TypeOK
  <2> QED BY <1>0, <2>1, <2>2, <2>3, <1>a DEF HandleOf
<1>31. ASSUME NEW p \in Proc, OpenFile(p) PROVE HandleInv'
  <2>1. HandleOf(p)'
    BY <1>0, <1>31 DEF OpenFile, Goto, Answer, TypeOK, HandleOf, Moving, Removing, CallShape,
       PublishPcs, Publishing
  <2>2. blob' = blob /\ dir' = dir
    BY <1>31 DEF OpenFile
  <2>3. \A q \in Proc \ {p} : pc'[q] = pc[q] /\ call'[q] = call[q] /\ names'[q] = names[q]
          /\ stage'[q] = stage[q] /\ (fd'[q] => fd[q])
    BY <1>0, <1>31 DEF OpenFile, Goto, Answer, TypeOK
  <2> QED BY <1>0, <2>1, <2>2, <2>3, <1>a DEF HandleOf
<1>32. ASSUME NEW p \in Proc, Fail(p) PROVE HandleInv'
  <2>1. HandleOf(p)'
    BY <1>0, <1>32 DEF Fail, RemoveAllFailed, Goto, Answer, TypeOK, HandleOf, Moving, Removing,
       CallShape, PublishPcs, Publishing
  <2>2. blob' = blob /\ dir' = dir
    BY <1>32 DEF Fail
  <2>3. \A q \in Proc \ {p} : pc'[q] = pc[q] /\ call'[q] = call[q] /\ names'[q] = names[q]
          /\ stage'[q] = stage[q] /\ (fd'[q] => fd[q])
    BY <1>0, <1>32 DEF Fail, RemoveAllFailed, Goto, Answer, TypeOK
  <2> QED BY <1>0, <2>1, <2>2, <2>3, <1>a DEF HandleOf
<1>33. ASSUME NEW p \in Proc, Crash(p) PROVE HandleInv'
  <2>1. HandleOf(p)'
    BY <1>0, <1>33 DEF Crash, Finish, Goto, TypeOK, HandleOf, Moving, Removing, CallShape,
       PublishPcs, Publishing
  <2>2. blob' = blob /\ dir' = dir
    BY <1>33 DEF Crash
  <2>3. \A q \in Proc \ {p} : pc'[q] = pc[q] /\ call'[q] = call[q] /\ names'[q] = names[q]
          /\ stage'[q] = stage[q] /\ (fd'[q] => fd[q])
    BY <1>0, <1>33 DEF Crash, Finish, Goto, TypeOK
  <2> QED BY <1>0, <2>1, <2>2, <2>3, <1>a DEF HandleOf
<1>34. CASE SourceAppears \/ SourceGoes
  BY <1>0, <1>34 DEF SourceAppears, SourceGoes, HandleInv, HandleOf, Moving
<1> QED
  BY <1>1, <1>2, <1>3, <1>4, <1>5, <1>6, <1>7, <1>8, <1>9, <1>10, <1>11, <1>12, <1>13, <1>14,
     <1>15, <1>16, <1>17, <1>18, <1>19, <1>20, <1>21, <1>22, <1>23, <1>24, <1>25, <1>26, <1>27,
     <1>28, <1>29, <1>30, <1>31, <1>32, <1>33, <1>34 DEF Next, Step, Publish, RemoveAll,
     tryCleanup

\* Spec keeps what a handle leads to.
THEOREM HandleInvariant == Spec => []HandleInv
<1>1. Init => HandleInv
  BY DEF Init, HandleInv, HandleOf, Moving, Removing
<1>2. ShareInv => Staging /\ ShareStable
  BY DEF ShareInv
<1> QED BY <1>1, <1>2, NextHandle, ShapeInvariant, LockCorrect, ShareInvariant, EntryInvariant,
           PTL DEF Spec

\* What a call is to BlobStore.
AbsOp(p) == IF call[p].op = "Adopt" THEN "Add" ELSE call[p].op

\* A call that BlobStore knows of.
Live(p) == pc[p] # "idle" /\ call[p].op # "Reclaim"

\* Nothing that BlobStore sees of the other calls changes.
Alone(p) == \A q \in Proc \ {p} : AbsCall(q)' = AbsCall(q)

\* So it is when neither they nor the blobs change, ...
LEMMA AloneAbs ==
    ASSUME NEW p \in Proc, blob' = blob,
           \A q \in Proc \ {p} :
              pc'[q] = pc[q] /\ res'[q] = res[q] /\ call'[q] = call[q] /\ (fd'[q] <=> fd[q])
    PROVE  Alone(p)
<1> SUFFICES ASSUME NEW q \in Proc \ {p} PROVE AbsCall(q)' = AbsCall(q)
  BY DEF Alone
<1>1. pc'[q] = pc[q] /\ res'[q] = res[q] /\ call'[q] = call[q] /\ (fd'[q] <=> fd[q])
  OBVIOUS
<1>2. Removed(q)' <=> Removed(q)
  BY <1>1 DEF Removed
<1>3. AbsPhase(q)' = AbsPhase(q)
  BY <1>1, <1>2 DEF AbsPhase
<1> QED BY <1>1, <1>3 DEF AbsCall

\* ... and when a directory without a blob is removed: a handle on it led to
\* no blob already.
LEMMA AloneRmdir ==
    ASSUME Shape, NEW p \in Proc, blob' = blob, NEW n \in Namespace, blob[n] = None, rmdir(n),
           \A q \in Proc \ {p} : pc'[q] = pc[q] /\ res'[q] = res[q] /\ call'[q] = call[q]
    PROVE  Alone(p)
<1> SUFFICES ASSUME NEW q \in Proc \ {p} PROVE AbsCall(q)' = AbsCall(q)
  BY DEF Alone
<1>1. pc'[q] = pc[q] /\ res'[q] = res[q] /\ call'[q] = call[q]
  OBVIOUS
<1>2. fd'[q] <=> fd[q] /\ call[q].ns # n
  BY DEF rmdir
<1>3. Removed(q)' <=> Removed(q)
  BY <1>1, <1>2 DEF Removed
<1>4. AbsPhase(q)' = AbsPhase(q)
  BY <1>1, <1>3 DEF AbsPhase
<1> QED BY <1>1, <1>4 DEF AbsCall

\* Between its call and its return, a step of p decides the phase of its call.
LEMMA AbsDecides ==
    ASSUME NEW p \in Proc, Alone(p), call'[p] = call[p], Live(p), pc'[p] # "idle", NEW r, AbsPhase(p)' = r
    PROVE  Abs!Decide(p, r)
<1>1. AbsCall(p)' = [AbsCall(p) EXCEPT !.phase = r]
  BY DEF AbsCall, Live
<1> QED BY <1>1 DEF Abs!Decide, Alone

\* A step that leaves the phase and the blobs alone is none of BlobStore's.
LEMMA AbsStutters ==
    ASSUME NEW p \in Proc, Alone(p), call'[p] = call[p], pc[p] # "idle", pc'[p] # "idle",
           AbsPhase(p)' = AbsPhase(p), blob' = blob
    PROVE  UNCHANGED Abs!vars
<1>1. AbsCall(p)' = AbsCall(p)
  BY DEF AbsCall
<1> QED BY <1>1 DEF Abs!vars, Alone

\* The abstract call of a live call is pending.
LEMMA AbsPending ==
    ASSUME NEW p \in Proc, Live(p), NEW ops, NEW phases, AbsOp(p) \in ops, AbsPhase(p) \in phases
    PROVE  /\ Abs!Pending(p, ops, phases)
           /\ Abs!Reads(p) = IF call[p].op = "Link" THEN call[p].from ELSE call[p].ns
           /\ [q \in Proc |-> AbsCall(q)][p].ns = call[p].ns
<1>1. AbsCall(p) = [op |-> AbsOp(p), ns |-> call[p].ns, from |-> call[p].from, phase |-> AbsPhase(p)]
  BY DEF AbsCall, AbsOp, Live
<1>2. [q \in Proc |-> AbsCall(q)][p] = AbsCall(p)
  OBVIOUS
<1>3. AbsCall(p) # [op |-> "none"]
  BY <1>1
<1>4. AbsOp(p) = "Link" <=> call[p].op = "Link"
  BY DEF AbsOp
<1> QED BY <1>1, <1>2, <1>3, <1>4 DEF Abs!Pending, Abs!Reads, Abs!Idle

\* The phase of a call that has no result yet.
LEMMA Phases ==
    ASSUME NEW p \in Proc, res[p] = None
    PROVE  /\ call[p].op \in {"Add", "Adopt", "Open"} => AbsPhase(p) = "run"
           /\ call[p].op = "Link" => AbsPhase(p) = IF pc[p] \in {"lock", "linkstat"} THEN "run" ELSE "pinned"
           /\ call[p].op = "Label" => AbsPhase(p) = IF pc[p] = "labelmove" THEN "pinned" ELSE "run"
           /\ call[p].op = "Erase" => AbsPhase(p) = IF Removed(p) THEN "ok" ELSE "run"
  BY DEF AbsPhase

\* A step that sets the result decides the abstract call.
LEMMA AbsAnswers ==
    ASSUME Shape, NEW p \in Proc, Alone(p), call'[p] = call[p], Live(p),
           NEW r \in Results, NEW l \in {"ret", "unwind", "nlink"}, Answer(p, r, l)
    PROVE  Abs!Decide(p, r)
<1>1. pc'[p] = l /\ res'[p] = r
  BY DEF Answer, Goto, Shape, TypeOK
<1>2. AbsPhase(p)' = r
  BY <1>1, OsAssumption DEF AbsPhase, Results
<1> QED BY <1>1, <1>2, AbsDecides

\* A step that ends an undecided call with an error is BlobStore's Fail.
LEMMA AbsFails ==
    ASSUME Shape, NEW p \in Proc, PlaceOf(p), Alone(p), call'[p] = call[p], blob' = blob, Live(p),
           pc[p] \in Undecided, NEW l \in {"ret", "unwind"}, Answer(p, "error", l)
    PROVE  Abs!Next
<1>1. Abs!Decide(p, "error")
  BY AbsAnswers DEF Results
<1>2. res[p] = None
  BY DEF PlaceOf
<1>3. call[p].op \in {"Add", "Adopt", "Link", "Erase", "Label", "Open"}
  BY OsAssumption DEF Live, Shape, TypeOK, Calls
<1>4. \/ AbsOp(p) \in {"Add", "Link", "Label", "Open"} /\ AbsPhase(p) \in {"run", "pinned"}
      \/ AbsOp(p) \in {"Erase"} /\ AbsPhase(p) \in {"run", "ok"}
  BY <1>2, <1>3, Phases DEF AbsOp
<1>5. Abs!Fail(p)
  BY <1>1, <1>4, AbsPending DEF Abs!Fail
<1> QED BY <1>5 DEF Abs!Next

\* A step that only goes on, past none of the places where something is decided,
\* is none of BlobStore's.
LEMMA AbsGoes ==
    ASSUME Shape, NEW p \in Proc, NEW l, Goto(p, l), UNCHANGED <<blob, call, res, fd>>,
           {pc[p], l} \cap {"idle", "rmnames", "rmdir", "labelmove"} = {},
           call[p].op = "Link" => (pc[p] \in {"lock", "linkstat"} <=> l \in {"lock", "linkstat"})
    PROVE  UNCHANGED Abs!vars
<1>1. pc'[p] = l /\ call'[p] = call[p] /\ res'[p] = res[p]
  BY DEF Goto, Shape, TypeOK
<1>2. Alone(p)
  BY AloneAbs DEF Goto, Shape, TypeOK
<1>3. ~Removed(p) /\ ~Removed(p)'
  BY <1>1 DEF Removed
<1>4. AbsPhase(p)' = AbsPhase(p)
  BY <1>1, <1>3 DEF AbsPhase
<1> QED BY <1>1, <1>2, <1>4, AbsStutters

\* A step that decides some Erases of a namespace, whose blob it removes if it is
\* there, is BlobStore's Remove.
LEMMA AbsErases ==
    ASSUME NEW n \in Namespace, NEW S \in SUBSET Proc, S # {},
           \A q \in S : /\ Live(q) /\ call[q].op = "Erase" /\ call[q].ns = n /\ AbsPhase(q) = "run"
                        /\ call'[q] = call[q] /\ pc'[q] # "idle" /\ AbsPhase(q)' = "ok",
           \A q \in Proc \ S : AbsCall(q)' = AbsCall(q),
           {m \in Namespace : blob'[m] # None} = {m \in Namespace : blob[m] # None} \ {n}
    PROVE  Abs!Next
<1> DEFINE A == [q \in Proc |-> AbsCall(q)]
<1>1. ASSUME NEW q \in S
      PROVE  /\ Abs!Pending(q, {"Erase"}, {"run"}) /\ A[q].ns = n
             /\ A'[q] = [A[q] EXCEPT !.phase = "ok"]
  <2>1. AbsOp(q) \in {"Erase"} /\ AbsPhase(q) \in {"run"}
    BY <1>1 DEF AbsOp
  <2>2. Abs!Pending(q, {"Erase"}, {"run"}) /\ A[q].ns = n
    BY <1>1, <2>1, AbsPending
  <2>3. AbsCall(q)' = [AbsCall(q) EXCEPT !.phase = "ok"]
    BY <1>1 DEF AbsCall, Live
  <2> QED BY <1>1, <2>2, <2>3
<1>2. A' = [q \in Proc |-> CASE q \in S -> [A[q] EXCEPT !.phase = "ok"]
                             [] q \in {} -> [A[q] EXCEPT !.phase = "notexist"]
                             [] OTHER -> A[q]]
  <2>1. \A q \in Proc : A'[q] = IF q \in S THEN [A[q] EXCEPT !.phase = "ok"] ELSE A[q]
    BY <1>1
  <2>2. \A q \in Proc : (CASE q \in S -> [A[q] EXCEPT !.phase = "ok"]
                           [] q \in {} -> [A[q] EXCEPT !.phase = "notexist"]
                           [] OTHER -> A[q])
                        = IF q \in S THEN [A[q] EXCEPT !.phase = "ok"] ELSE A[q]
    <3> HIDE DEF A
    <3> QED OBVIOUS
  <2> QED BY <2>1, <2>2
<1>3. Abs!Remove(n)
  <2> SUFFICES \E Q \in SUBSET {q \in Proc : Abs!Pending(q, {"Erase"}, {"run"}) /\ A[q].ns = n},
                 T \in SUBSET {q \in Proc : Abs!Pending(q, {"Link", "Label", "Open"}, {"run", "pinned"})
                                            /\ Abs!Reads(q) = n} :
                 /\ Q # {}
                 /\ {m \in Namespace : blob'[m] # None} = {m \in Namespace : blob[m] # None} \ {n}
                 /\ A' = [q \in Proc |-> CASE q \in Q -> [A[q] EXCEPT !.phase = "ok"]
                                          [] q \in T -> [A[q] EXCEPT !.phase = "notexist"]
                                          [] OTHER -> A[q]]
    BY Zenon DEF Abs!Remove
  <2>1. S \in SUBSET {q \in Proc : Abs!Pending(q, {"Erase"}, {"run"}) /\ A[q].ns = n}
    BY <1>1
  <2>2. {} \in SUBSET {q \in Proc : Abs!Pending(q, {"Link", "Label", "Open"}, {"run", "pinned"})
                                    /\ Abs!Reads(q) = n}
    OBVIOUS
  <2> HIDE DEF A
  <2> USE <2>1, <2>2
  <2> WITNESS S \in SUBSET {q \in Proc : Abs!Pending(q, {"Erase"}, {"run"}) /\ A[q].ns = n},
              {} \in SUBSET {q \in Proc : Abs!Pending(q, {"Link", "Label", "Open"}, {"run", "pinned"})
                                          /\ Abs!Reads(q) = n}
  <2> QED BY <1>2, Zenon
<1> QED BY <1>3 DEF Abs!Next

\* An Erase that finds no blob and has its result is one of those.
LEMMA AbsErasesNothing ==
    ASSUME Shape, NEW p \in Proc, PlaceOf(p), Alone(p), call[p].op = "Erase", pc[p] \in {"rm", "rmopen"},
           call' = call, blob' = blob, blob[call[p].ns] = None, pc'[p] # "idle", AbsPhase(p)' = "ok"
    PROVE  Abs!Next
<1>1. Live(p) /\ call[p].ns \in Namespace
  BY DEF Live, Shape, TypeOK, Calls
<1>2. res[p] = None /\ ~Removed(p)
  BY DEF PlaceOf, Undecided, Removing, Removed
<1>3. AbsPhase(p) = "run"
  BY <1>2, Phases
<1>4. /\ {p} \in SUBSET Proc /\ {p} # {}
      /\ \A q \in {p} : /\ Live(q) /\ call[q].op = "Erase" /\ call[q].ns = call[p].ns /\ AbsPhase(q) = "run"
                        /\ call'[q] = call[q] /\ pc'[q] # "idle" /\ AbsPhase(q)' = "ok"
      /\ \A q \in Proc \ {p} : AbsCall(q)' = AbsCall(q)
  BY <1>1, <1>3 DEF Alone
<1>5. {m \in Namespace : blob'[m] # None} = {m \in Namespace : blob[m] # None} \ {call[p].ns}
  OBVIOUS
<1> QED BY <1>1, <1>4, <1>5, AbsErases

\* A RemoveAll that returns nil: an Erase has its result and finds no blob, and a
\* publisher's call is where it was, or has failed.
LEMMA AbsRemoveAllDone ==
    ASSUME Shape, NEW p \in Proc, PlaceOf(p), Alone(p), call' = call, blob' = blob, Live(p),
           call[p].op \in Publishing \cup {"Erase"}, pc[p] \in Removing, RemoveAllDone(p),
           call[p].op = "Erase" => pc[p] \in {"rm", "rmopen"} /\ blob[call[p].ns] = None
    PROVE  [Abs!Next]_(Abs!vars)
<1>0. res[p] = None
  BY DEF PlaceOf, Undecided
<1>1. CASE call[p].op = "Erase"
  <2>1. pc'[p] = "nlink" /\ res'[p] = "ok"
    BY <1>1 DEF RemoveAllDone, Answer, Goto, Shape, TypeOK
  <2>2. AbsPhase(p)' = "ok"
    BY <2>1, OsAssumption DEF AbsPhase
  <2> QED BY <1>1, <2>1, <2>2, AbsErasesNothing
<1>2. CASE call[p].op # "Erase" /\ tries[p] < Attempts
  <2>1. pc'[p] = "move" /\ res'[p] = res[p] /\ call'[p] = call[p] /\ pc[p] # "idle"
    BY <1>2 DEF RemoveAllDone, Goto, Shape, TypeOK, Removing
  <2>2. AbsPhase(p)' = AbsPhase(p)
    BY <1>0, <1>2, <2>1 DEF AbsPhase, Publishing, Removing
  <2> QED BY <2>1, <2>2, AbsStutters
<1>3. CASE call[p].op # "Erase" /\ ~(tries[p] < Attempts)
  <2>1. Answer(p, "error", "unwind")
    BY <1>3 DEF RemoveAllDone
  <2> QED BY <2>1, AbsFails DEF Undecided
<1> QED BY <1>1, <1>2, <1>3

\* Every step of the filesystem store is a step of BlobStore, or none.
LEMMA NextAbs ==
    Shape /\ PlaceInv /\ HandleInv /\ EntryInv /\ [Next]_vars => [Abs!Next]_(Abs!vars)
<1> SUFFICES ASSUME Shape, PlaceInv, HandleInv, EntryInv, [Next]_vars PROVE [Abs!Next]_(Abs!vars)
  OBVIOUS
<1> USE OsAssumption
<1> USE DEF disk, entry, temps, rmvars
<1> DEFINE A == [q \in Proc |-> AbsCall(q)]
           present == {n \in Namespace : blob[n] # None}
<1>0. TypeOK /\ CallShape /\ \A q \in Proc : PlaceOf(q) /\ HandleOf(q)
  BY DEF Shape, PlaceInv, HandleInv
<1>1. CASE UNCHANGED vars
  <2>1. \A q \in Proc : AbsCall(q)' = AbsCall(q)
    BY <1>1 DEF vars, AbsCall, AbsPhase, Removed
  <2> QED BY <1>1, <2>1 DEF vars, Abs!vars
<1>2. ASSUME NEW p \in Proc, Call(p) PROVE [Abs!Next]_(Abs!vars)
  <2>1. PICK c \in Calls : call' = [call EXCEPT ![p] = c] /\ Goto(p, First(c.op))
    BY <1>2 DEF Call
  <2>2. c.op \in Ops /\ c.ns \in Namespace /\ c.from \in Namespace
    BY <2>1 DEF Calls
  <2>3. pc'[p] = First(c.op) /\ call'[p] = c /\ res'[p] = None /\ pc[p] = "idle"
    BY <1>0, <1>2, <2>1 DEF Call, Goto, TypeOK, PlaceOf, Undecided
  <2>4. Alone(p) /\ blob' = blob
    BY <1>0, <1>2, <2>1, AloneAbs DEF Call, Goto, TypeOK
  <2>5. AbsCall(p) = [op |-> "none"]
    BY <2>3 DEF AbsCall
  <2>6. CASE c.op = "Reclaim"
    <3>1. AbsCall(p)' = AbsCall(p)
      BY <2>3, <2>5, <2>6 DEF AbsCall
    <3> QED BY <2>4, <3>1 DEF Abs!vars, Alone
  <2>7. CASE c.op # "Reclaim"
    <3>1. /\ pc'[p] \notin {"idle", "rmnames", "rmdir", "labelmove"}
          /\ c.op = "Link" => pc'[p] = "lock"
      BY <2>2, <2>3 DEF First
    <3>2. AbsPhase(p)' = "run"
      BY <2>3, <3>1 DEF AbsPhase, Removed
    <3> DEFINE o == IF c.op = "Adopt" THEN "Add" ELSE c.op
    <3>3. AbsCall(p)' = [op |-> o, ns |-> c.ns, from |-> c.from, phase |-> "run"]
      BY <2>3, <2>7, <3>1, <3>2 DEF AbsCall
    <3>4. o \in {"Add", "Link", "Erase", "Label", "Open"}
      BY <2>2, <2>7
    <3>5. AbsCall(p)' \in Abs!Calls /\ AbsCall(p)'.phase = "run"
      BY <2>2, <3>3, <3>4 DEF Abs!Calls, Abs!Phases
    <3>6. A' = [A EXCEPT ![p] = AbsCall(p)']
      BY <2>4 DEF Alone
    <3>7. A[p] = [op |-> "none"]
      BY <2>5
    <3>8. Abs!Begin(p)
      BY <2>4, <3>5, <3>6, <3>7 DEF Abs!Begin, Abs!Idle
    <3> QED BY <3>8 DEF Abs!Next
  <2> QED BY <2>6, <2>7
<1>3. ASSUME NEW p \in Proc, Return(p) \/ Unwind(p) \/ Crash(p) PROVE [Abs!Next]_(Abs!vars)
  <2>1. pc[p] # "idle" /\ pc'[p] = "idle" /\ blob' = blob
    BY <1>0, <1>3 DEF Return, Unwind, Crash, Finish, Goto, TypeOK
  <2>2. Alone(p)
    <3>1. \A q \in Proc \ {p} :
             pc'[q] = pc[q] /\ res'[q] = res[q] /\ call'[q] = call[q] /\ (fd'[q] <=> fd[q])
      BY <1>0, <1>3 DEF Return, Unwind, Crash, Finish, Goto, TypeOK
    <3> QED BY <2>1, <3>1, AloneAbs
  <2>3. AbsCall(p)' = [op |-> "none"]
    BY <2>1 DEF AbsCall
  <2>4. CASE call[p].op = "Reclaim"
    <3>1. AbsCall(p)' = AbsCall(p)
      BY <2>3, <2>4 DEF AbsCall
    <3> QED BY <2>1, <2>2, <3>1 DEF Abs!vars, Alone
  <2>5. CASE call[p].op # "Reclaim"
    <3>1. AbsCall(p).op # "none"
      BY <1>0, <2>1, <2>5 DEF AbsCall, TypeOK, Calls
    <3>2. A[p] # [op |-> "none"]
      BY <3>1
    <3>3. A' = [A EXCEPT ![p] = [op |-> "none"]]
      BY <2>2, <2>3 DEF Alone
    <3>4. Abs!End(p)
      BY <2>1, <3>2, <3>3 DEF Abs!End, Abs!Idle
    <3> QED BY <3>4 DEF Abs!Next
  <2> QED BY <2>4, <2>5
<1>4. ASSUME NEW p \in Proc, Lock(p) PROVE UNCHANGED Abs!vars
  <2>1. UNCHANGED <<blob, call, res, fd>>
    BY <1>4 DEF Lock
  <2> QED BY <1>0, <1>4, <2>1, AbsGoes DEF Lock, Publishing, CallShape, PublishPcs
<1>5. ASSUME NEW p \in Proc, Copy(p) PROVE UNCHANGED Abs!vars
  <2>1. UNCHANGED <<blob, call, res, fd>>
    BY <1>5 DEF Copy
  <2> QED BY <1>0, <1>5, <2>1, AbsGoes DEF Copy
<1>6. ASSUME NEW p \in Proc, CopyDone(p) PROVE UNCHANGED Abs!vars
  <2>1. UNCHANGED <<blob, call, res, fd>>
    BY <1>6 DEF CopyDone
  <2> QED BY <1>0, <1>6, <2>1, AbsGoes DEF CopyDone
<1>7. ASSUME NEW p \in Proc, StatShare(p) PROVE UNCHANGED Abs!vars
  <2>1. UNCHANGED <<blob, call, res, fd>>
    BY <1>7 DEF StatShare
  <2> QED BY <1>0, <1>7, <2>1, AbsGoes DEF StatShare
<1>8. ASSUME NEW p \in Proc, Nlink(p) PROVE UNCHANGED Abs!vars
  <2>1. UNCHANGED <<blob, call, res, fd>>
    BY <1>8 DEF Nlink
  <2> QED BY <1>0, <1>8, <2>1, AbsGoes DEF Nlink
<1>9. ASSUME NEW p \in Proc, CleanLock(p) PROVE UNCHANGED Abs!vars
  <2>1. UNCHANGED <<blob, call, res, fd>>
    BY <1>9 DEF CleanLock
  <2> QED BY <1>0, <1>9, <2>1, AbsGoes DEF CleanLock
<1>10. ASSUME NEW p \in Proc, NlinkAgain(p) PROVE UNCHANGED Abs!vars
  <2>1. UNCHANGED <<blob, call, res, fd>>
    BY <1>10 DEF NlinkAgain
  <2> QED BY <1>0, <1>10, <2>1, AbsGoes DEF NlinkAgain
<1>11. ASSUME NEW p \in Proc, RemoveShare(p) PROVE UNCHANGED Abs!vars
  <2>1. UNCHANGED <<blob, call, res, fd>>
    BY <1>11 DEF RemoveShare
  <2> QED BY <1>0, <1>11, <2>1, AbsGoes DEF RemoveShare
<1>12. ASSUME NEW p \in Proc, AdoptPin(p) PROVE [Abs!Next]_(Abs!vars)
  <2>1. UNCHANGED <<blob, call, fd>> /\ pc[p] \in Undecided /\ Live(p)
    BY <1>0, <1>12 DEF AdoptPin, Undecided, PublishPcs, Removing, Live, CallShape, Publishing,
       PlaceOf
  <2>2. Alone(p)
    <3>1. \A q \in Proc \ {p} : pc'[q] = pc[q] /\ res'[q] = res[q]
      BY <1>0, <1>12 DEF AdoptPin, Goto, Answer, TypeOK
    <3> QED BY <2>1, <3>1, AloneAbs
  <2>3. CASE Answer(p, "error", "unwind")
    BY <1>0, <2>1, <2>2, <2>3, AbsFails
  <2>4. CASE ~(src = None)
    BY <1>0, <1>12, <2>1, <2>4, AbsGoes DEF AdoptPin
  <2> QED BY <1>12, <2>3, <2>4 DEF AdoptPin
<1>13. ASSUME NEW p \in Proc, LinkShare(p) PROVE [Abs!Next]_(Abs!vars)
  <2>1. UNCHANGED <<blob, call, fd>> /\ pc[p] \in Undecided /\ Live(p)
    BY <1>0, <1>13 DEF LinkShare, Undecided, PublishPcs, Removing, Live, CallShape, Publishing,
       PlaceOf
  <2>2. Alone(p)
    <3>1. \A q \in Proc \ {p} : pc'[q] = pc[q] /\ res'[q] = res[q]
      BY <1>0, <1>13 DEF LinkShare, Goto, Answer, TypeOK
    <3> QED BY <2>1, <3>1, AloneAbs
  <2>3. CASE Answer(p, "error", "unwind")
    BY <1>0, <2>1, <2>2, <2>3, AbsFails
  <2>4. CASE ~(share = None)
    BY <1>0, <1>13, <2>1, <2>4, AbsGoes DEF LinkShare
  <2> QED BY <1>13, <2>3, <2>4 DEF LinkShare
<1>14. ASSUME NEW p \in Proc, LinkToShare(p) PROVE [Abs!Next]_(Abs!vars)
  <2>1. UNCHANGED <<blob, call, fd>> /\ pc[p] \in Undecided /\ Live(p)
    BY <1>0, <1>14 DEF LinkToShare, Undecided, PublishPcs, Removing, Live, CallShape, Publishing,
       PlaceOf
  <2>2. Alone(p)
    <3>1. \A q \in Proc \ {p} : pc'[q] = pc[q] /\ res'[q] = res[q]
      BY <1>0, <1>14 DEF LinkToShare, Goto, Answer, TypeOK
    <3> QED BY <2>1, <3>1, AloneAbs
  <2>3. CASE Answer(p, "error", "unwind")
    BY <1>0, <2>1, <2>2, <2>3, AbsFails
  <2>4. CASE ~(share # None)
    BY <1>0, <1>14, <2>1, <2>4, AbsGoes DEF LinkToShare
  <2> QED BY <1>14, <2>3, <2>4 DEF LinkToShare
<1>15. ASSUME NEW p \in Proc, MoveStat(p) PROVE [Abs!Next]_(Abs!vars)
  <2>1. UNCHANGED <<blob, call, fd>> /\ pc[p] \in Undecided /\ Live(p)
    BY <1>0, <1>15 DEF MoveStat, Undecided, PublishPcs, Removing, Live, CallShape, Publishing,
       PlaceOf
  <2>2. Alone(p)
    <3>1. \A q \in Proc \ {p} : pc'[q] = pc[q] /\ res'[q] = res[q]
      BY <1>0, <1>15 DEF MoveStat, Goto, Answer, TypeOK
    <3> QED BY <2>1, <3>1, AloneAbs
  <2>3. CASE Answer(p, "error", "unwind")
    BY <1>0, <2>1, <2>2, <2>3, AbsFails
  <2>4. CASE ~(~dir[call[p].ns])
    BY <1>0, <1>15, <2>1, <2>4, AbsGoes DEF MoveStat
  <2> QED BY <1>15, <2>3, <2>4 DEF MoveStat
<1>16. ASSUME NEW p \in Proc, AdoptVerify(p) PROVE [Abs!Next]_(Abs!vars)
  <2>1. UNCHANGED <<blob, call, fd>> /\ pc[p] \in Undecided /\ Live(p)
    BY <1>0, <1>16 DEF AdoptVerify, Undecided, PublishPcs, Removing, Live, CallShape, Publishing,
       PlaceOf
  <2>2. Alone(p)
    <3>1. \A q \in Proc \ {p} : pc'[q] = pc[q] /\ res'[q] = res[q]
      BY <1>0, <1>16 DEF AdoptVerify, Goto, Answer, TypeOK
    <3> QED BY <2>1, <3>1, AloneAbs
  <2>3. CASE pin[p] \in bad
    <3>1. Abs!Decide(p, "mismatch")
      BY <1>16, <2>1, <2>2, <2>3, AbsAnswers DEF AdoptVerify, Results
    <3>2. Abs!Pending(p, {"Add"}, {"run"})
      BY <1>0, <1>16, <2>1, Phases, AbsPending DEF AdoptVerify, AbsOp, PlaceOf, CallShape,
         PublishPcs, Publishing
    <3>3. Abs!Mismatch(p)
      BY <2>1, <3>1, <3>2 DEF Abs!Mismatch
    <3> QED BY <3>3 DEF Abs!Next
  <2>4. CASE pin[p] \notin bad
    BY <1>0, <1>16, <2>1, <2>4, AbsGoes DEF AdoptVerify
  <2> QED BY <2>3, <2>4
<1>17. ASSUME NEW p \in Proc, Check(p) PROVE [Abs!Next]_(Abs!vars)
  <2>1. UNCHANGED <<blob, call, fd>> /\ pc[p] \in Undecided /\ Live(p)
    BY <1>0, <1>17 DEF Check, Undecided, PublishPcs, Removing, Live, CallShape, Publishing, PlaceOf
  <2>2. Alone(p)
    <3>1. \A q \in Proc \ {p} : pc'[q] = pc[q] /\ res'[q] = res[q]
      BY <1>0, <1>17 DEF Check, Goto, Answer, TypeOK
    <3> QED BY <2>1, <3>1, AloneAbs
  <2>3. CASE checkDup(call[p].ns) /\ Answer(p, "exists", "ret")
    <3>1. Abs!Decide(p, "exists")
      BY <1>17, <2>1, <2>2, <2>3, AbsAnswers DEF Check, Results
    <3>2. Abs!Pending(p, {"Add"}, {"run"}) /\ A[p].ns = call[p].ns
      BY <1>0, <1>17, <2>1, Phases, AbsPending DEF Check, AbsOp, PlaceOf, CallShape, PublishPcs,
         Publishing
    <3>3. A[p].ns \in present
      BY <1>0, <2>3, <3>2, <1>17 DEF checkDup, Check, TypeOK, Calls
    <3>4. Abs!Exists(p)
      BY <2>1, <3>1, <3>2, <3>3 DEF Abs!Exists
    <3> QED BY <3>4 DEF Abs!Next
  <2>4. CASE Answer(p, "error", "ret")
    BY <1>0, <2>1, <2>2, <2>4, AbsFails
  <2>5. CASE Answer(p, "mismatch", "ret")
    <3>1. Abs!Decide(p, "mismatch")
      BY <2>1, <2>2, <2>5, AbsAnswers DEF Results
    <3>2. Abs!Pending(p, {"Add"}, {"run"})
      BY <1>0, <1>17, <2>1, Phases, AbsPending DEF Check, AbsOp, PlaceOf, CallShape, PublishPcs,
         Publishing
    <3>3. Abs!Mismatch(p)
      BY <2>1, <3>1, <3>2 DEF Abs!Mismatch
    <3> QED BY <3>3 DEF Abs!Next
  <2>6. CASE Goto(p, "lock") /\ UNCHANGED res
    BY <1>0, <1>17, <2>1, <2>6, AbsGoes DEF Check, PlaceOf
  <2> QED BY <1>17, <2>3, <2>4, <2>5, <2>6 DEF Check
<1>18. ASSUME NEW p \in Proc, Recheck(p) PROVE [Abs!Next]_(Abs!vars)
  <2>1. UNCHANGED <<blob, call, fd>> /\ pc[p] \in Undecided /\ Live(p)
    BY <1>0, <1>18 DEF Recheck, Undecided, PublishPcs, Removing, Live, CallShape, Publishing,
       PlaceOf
  <2>2. Alone(p)
    <3>1. \A q \in Proc \ {p} : pc'[q] = pc[q] /\ res'[q] = res[q]
      BY <1>0, <1>18 DEF Recheck, Goto, Answer, TypeOK
    <3> QED BY <2>1, <3>1, AloneAbs
  <2>3. CASE checkDup(call[p].ns)
    <3>1. Abs!Decide(p, "exists")
      BY <1>18, <2>1, <2>2, <2>3, AbsAnswers DEF Recheck, Results
    <3>2. Abs!Pending(p, {"Add"}, {"run"}) /\ A[p].ns = call[p].ns
      BY <1>0, <1>18, <2>1, Phases, AbsPending DEF Recheck, AbsOp, PlaceOf, CallShape, PublishPcs,
         Publishing
    <3>3. A[p].ns \in present
      BY <1>0, <2>3, <3>2, <1>18 DEF checkDup, Recheck, TypeOK, Calls
    <3>4. Abs!Exists(p)
      BY <2>1, <3>1, <3>2, <3>3 DEF Abs!Exists
    <3> QED BY <3>4 DEF Abs!Next
  <2>4. CASE ~checkDup(call[p].ns)
    BY <1>0, <1>18, <2>1, <2>4, AbsGoes DEF Recheck, PlaceOf
  <2> QED BY <2>3, <2>4
<1>19. ASSUME NEW p \in Proc, LinkDup(p) PROVE [Abs!Next]_(Abs!vars)
  <2>1. UNCHANGED <<blob, call, fd>> /\ pc[p] \in Undecided /\ Live(p)
    BY <1>0, <1>19 DEF LinkDup, Undecided, PublishPcs, Removing, Live, CallShape, Publishing,
       PlaceOf
  <2>2. Alone(p)
    <3>1. \A q \in Proc \ {p} : pc'[q] = pc[q] /\ res'[q] = res[q]
      BY <1>0, <1>19 DEF LinkDup, Goto, Answer, TypeOK
    <3> QED BY <2>1, <3>1, AloneAbs
  <2>3. CASE checkDup(call[p].ns)
    <3>1. Abs!Decide(p, "exists")
      BY <1>19, <2>1, <2>2, <2>3, AbsAnswers DEF LinkDup, Results
    <3>2. Abs!Pending(p, {"Link"}, {"pinned"}) /\ A[p].ns = call[p].ns
      BY <1>0, <1>19, <2>1, Phases, AbsPending DEF LinkDup, AbsOp, PlaceOf, CallShape, PublishPcs,
         Publishing
    <3>3. A[p].ns \in present
      BY <1>0, <2>3, <3>2, <1>19 DEF checkDup, LinkDup, TypeOK, Calls
    <3>4. Abs!Exists(p)
      BY <2>1, <3>1, <3>2, <3>3 DEF Abs!Exists
    <3> QED BY <3>4 DEF Abs!Next
  <2>4. CASE ~checkDup(call[p].ns)
    BY <1>0, <1>19, <2>1, <2>4, AbsGoes DEF LinkDup
  <2> QED BY <2>3, <2>4
<1>20. ASSUME NEW p \in Proc, LinkStat(p) PROVE [Abs!Next]_(Abs!vars)
  <2>1. UNCHANGED <<blob, call, fd>> /\ pc[p] \in Undecided /\ Live(p)
    BY <1>0, <1>20 DEF LinkStat, Undecided, PublishPcs, Removing, Live, CallShape, Publishing,
       PlaceOf
  <2>2. Alone(p)
    <3>1. \A q \in Proc \ {p} : pc'[q] = pc[q] /\ res'[q] = res[q]
      BY <1>0, <1>20 DEF LinkStat, Goto, Answer, TypeOK
    <3> QED BY <2>1, <3>1, AloneAbs
  <2>3. CASE ~checkDup(call[p].from)
    <3>1. Abs!Decide(p, "notexist")
      BY <1>20, <2>1, <2>2, <2>3, AbsAnswers DEF LinkStat, Results
    <3>2. Abs!Pending(p, {"Link", "Label", "Open"}, {"run", "pinned"}) /\ Abs!Reads(p) = call[p].from
      BY <1>0, <1>20, <2>1, Phases, AbsPending DEF LinkStat, AbsOp, PlaceOf, Undecided
    <3>3. Abs!Reads(p) \notin present
      BY <1>0, <2>3, <3>2 DEF checkDup, EntryInv
    <3>4. Abs!NotExist(p)
      BY <2>1, <3>1, <3>2, <3>3 DEF Abs!NotExist
    <3> QED BY <3>4 DEF Abs!Next
  <2>4. CASE checkDup(call[p].from)
    <3>1. pc'[p] = "linkdup" /\ res'[p] = None /\ call'[p] = call[p]
      BY <1>0, <1>20, <2>1, <2>4 DEF LinkStat, Goto, TypeOK, PlaceOf
    <3>2. AbsPhase(p)' = "pinned"
      BY <1>0, <1>20, <3>1 DEF AbsPhase, Removed, PlaceOf, LinkStat
    <3>3. Abs!Decide(p, "pinned")
      BY <2>1, <2>2, <3>1, <3>2, AbsDecides
    <3>4. Abs!Pending(p, {"Link", "Label"}, {"run"}) /\ Abs!Reads(p) = call[p].from
      BY <1>0, <1>20, <2>1, Phases, AbsPending DEF LinkStat, AbsOp, PlaceOf, Undecided
    <3>5. Abs!Reads(p) \in present
      BY <1>0, <1>20, <2>4, <3>4 DEF checkDup, LinkStat, TypeOK, Calls
    <3>6. Abs!Pin(p)
      BY <2>1, <3>3, <3>4, <3>5 DEF Abs!Pin
    <3> QED BY <3>6 DEF Abs!Next
  <2> QED BY <2>3, <2>4
<1>21. ASSUME NEW p \in Proc, LabelStat(p) PROVE [Abs!Next]_(Abs!vars)
  <2>1. UNCHANGED <<blob, call, fd>> /\ pc[p] \in Undecided /\ Live(p)
    BY <1>0, <1>21 DEF LabelStat, Undecided, PublishPcs, Removing, Live, CallShape, Publishing,
       PlaceOf
  <2>2. Alone(p)
    <3>1. \A q \in Proc \ {p} : pc'[q] = pc[q] /\ res'[q] = res[q]
      BY <1>0, <1>21 DEF LabelStat, Goto, Answer, TypeOK
    <3> QED BY <2>1, <3>1, AloneAbs
  <2>3. CASE ~checkDup(call[p].ns)
    <3>1. Abs!Decide(p, "notexist")
      BY <1>21, <2>1, <2>2, <2>3, AbsAnswers DEF LabelStat, Results
    <3>2. Abs!Pending(p, {"Link", "Label", "Open"}, {"run", "pinned"}) /\ Abs!Reads(p) = call[p].ns
      BY <1>0, <1>21, <2>1, Phases, AbsPending DEF LabelStat, AbsOp, PlaceOf, Undecided
    <3>3. Abs!Reads(p) \notin present
      BY <1>0, <2>3, <3>2 DEF checkDup, EntryInv
    <3>4. Abs!NotExist(p)
      BY <2>1, <3>1, <3>2, <3>3 DEF Abs!NotExist
    <3> QED BY <3>4 DEF Abs!Next
  <2>4. CASE checkDup(call[p].ns)
    <3>1. pc'[p] = "labelmove" /\ res'[p] = None /\ call'[p] = call[p]
      BY <1>0, <1>21, <2>1, <2>4 DEF LabelStat, Goto, TypeOK, PlaceOf
    <3>2. AbsPhase(p)' = "pinned"
      BY <1>0, <1>21, <3>1 DEF AbsPhase, Removed, PlaceOf, LabelStat
    <3>3. Abs!Decide(p, "pinned")
      BY <2>1, <2>2, <3>1, <3>2, AbsDecides
    <3>4. Abs!Pending(p, {"Link", "Label"}, {"run"}) /\ Abs!Reads(p) = call[p].ns
      BY <1>0, <1>21, <2>1, Phases, AbsPending DEF LabelStat, AbsOp, PlaceOf, Undecided
    <3>5. Abs!Reads(p) \in present
      BY <1>0, <1>21, <2>4, <3>4 DEF checkDup, LabelStat, TypeOK, Calls
    <3>6. Abs!Pin(p)
      BY <2>1, <3>3, <3>4, <3>5 DEF Abs!Pin
    <3> QED BY <3>6 DEF Abs!Next
  <2> QED BY <2>3, <2>4
<1>22. ASSUME NEW p \in Proc, LinkPin(p) PROVE [Abs!Next]_(Abs!vars)
  <2>1. UNCHANGED <<blob, call, fd>> /\ pc[p] \in Undecided /\ Live(p)
    BY <1>0, <1>22 DEF LinkPin, Undecided, PublishPcs, Removing, Live, CallShape, Publishing,
       PlaceOf
  <2>2. Alone(p)
    <3>1. \A q \in Proc \ {p} : pc'[q] = pc[q] /\ res'[q] = res[q]
      BY <1>0, <1>22 DEF LinkPin, Goto, Answer, TypeOK
    <3> QED BY <2>1, <3>1, AloneAbs
  <2>3. CASE blob[call[p].from] = None
    <3>1. Abs!Decide(p, "notexist")
      BY <1>22, <2>1, <2>2, <2>3, AbsAnswers DEF LinkPin, Results
    <3>2. Abs!Pending(p, {"Link", "Label", "Open"}, {"run", "pinned"}) /\ Abs!Reads(p) = call[p].from
      BY <1>0, <1>22, <2>1, Phases, AbsPending DEF LinkPin, AbsOp, PlaceOf, Undecided
    <3>3. Abs!Reads(p) \notin present
      BY <1>0, <2>3, <3>2 DEF checkDup, EntryInv
    <3>4. Abs!NotExist(p)
      BY <2>1, <3>1, <3>2, <3>3 DEF Abs!NotExist
    <3> QED BY <3>4 DEF Abs!Next
  <2>4. CASE blob[call[p].from] # None
    BY <1>0, <1>22, <2>1, <2>4, AbsGoes DEF LinkPin
  <2> QED BY <2>3, <2>4
<1>23. ASSUME NEW p \in Proc, OpenStat(p) PROVE [Abs!Next]_(Abs!vars)
  <2>1. UNCHANGED <<blob, call, fd>> /\ pc[p] \in Undecided /\ Live(p)
    BY <1>0, <1>23 DEF OpenStat, Undecided, PublishPcs, Removing, Live, CallShape, Publishing,
       PlaceOf
  <2>2. Alone(p)
    <3>1. \A q \in Proc \ {p} : pc'[q] = pc[q] /\ res'[q] = res[q]
      BY <1>0, <1>23 DEF OpenStat, Goto, Answer, TypeOK
    <3> QED BY <2>1, <3>1, AloneAbs
  <2>3. CASE ~checkDup(call[p].ns)
    <3>1. Abs!Decide(p, "notexist")
      BY <1>23, <2>1, <2>2, <2>3, AbsAnswers DEF OpenStat, Results
    <3>2. Abs!Pending(p, {"Link", "Label", "Open"}, {"run", "pinned"}) /\ Abs!Reads(p) = call[p].ns
      BY <1>0, <1>23, <2>1, Phases, AbsPending DEF OpenStat, AbsOp, PlaceOf, Undecided
    <3>3. Abs!Reads(p) \notin present
      BY <1>0, <2>3, <3>2 DEF checkDup, EntryInv
    <3>4. Abs!NotExist(p)
      BY <2>1, <3>1, <3>2, <3>3 DEF Abs!NotExist
    <3> QED BY <3>4 DEF Abs!Next
  <2>4. CASE checkDup(call[p].ns)
    BY <1>0, <1>23, <2>1, <2>4, AbsGoes DEF OpenStat, PlaceOf
  <2> QED BY <2>3, <2>4
<1>24. ASSUME NEW p \in Proc, OpenFile(p) PROVE [Abs!Next]_(Abs!vars)
  <2>1. UNCHANGED <<blob, call, fd>> /\ pc[p] \in Undecided /\ Live(p)
    BY <1>0, <1>24 DEF OpenFile, Undecided, PublishPcs, Removing, Live, CallShape, Publishing,
       PlaceOf
  <2>2. Alone(p)
    <3>1. \A q \in Proc \ {p} : pc'[q] = pc[q] /\ res'[q] = res[q]
      BY <1>0, <1>24 DEF OpenFile, Goto, Answer, TypeOK
    <3> QED BY <2>1, <3>1, AloneAbs
  <2>3. CASE blob[call[p].ns] = None
    <3>1. Abs!Decide(p, "notexist")
      BY <1>24, <2>1, <2>2, <2>3, AbsAnswers DEF OpenFile, Results
    <3>2. Abs!Pending(p, {"Link", "Label", "Open"}, {"run", "pinned"}) /\ Abs!Reads(p) = call[p].ns
      BY <1>0, <1>24, <2>1, Phases, AbsPending DEF OpenFile, AbsOp, PlaceOf, Undecided
    <3>3. Abs!Reads(p) \notin present
      BY <1>0, <2>3, <3>2 DEF checkDup, EntryInv
    <3>4. Abs!NotExist(p)
      BY <2>1, <3>1, <3>2, <3>3 DEF Abs!NotExist
    <3> QED BY <3>4 DEF Abs!Next
  <2>4. CASE blob[call[p].ns] # None
    <3>1. Abs!Decide(p, "ok")
      BY <1>24, <2>1, <2>2, <2>4, AbsAnswers DEF OpenFile, Results
    <3>2. Abs!Pending(p, {"Open"}, {"run"}) /\ A[p].ns = call[p].ns
      BY <1>0, <1>24, <2>1, Phases, AbsPending DEF OpenFile, AbsOp, PlaceOf, Undecided
    <3>3. A[p].ns \in present
      BY <1>0, <1>24, <2>4, <3>2 DEF OpenFile, TypeOK, Calls
    <3>4. Abs!Found(p)
      BY <2>1, <3>1, <3>2, <3>3 DEF Abs!Found
    <3> QED BY <3>4 DEF Abs!Next
  <2> QED BY <2>3, <2>4
<1>25. ASSUME NEW p \in Proc, LabelMove(p) PROVE [Abs!Next]_(Abs!vars)
  <2>1. UNCHANGED <<blob, call, fd>> /\ pc[p] \in Undecided /\ Live(p)
    BY <1>0, <1>25 DEF LabelMove, Undecided, PublishPcs, Removing, Live, CallShape, Publishing,
       PlaceOf
  <2>2. Alone(p)
    <3>1. \A q \in Proc \ {p} : pc'[q] = pc[q] /\ res'[q] = res[q]
      BY <1>0, <1>25 DEF LabelMove, Goto, Answer, TypeOK
    <3> QED BY <2>1, <3>1, AloneAbs
  <2>3. CASE ~dir[call[p].ns]
    <3>1. Abs!Decide(p, "notexist")
      BY <1>25, <2>1, <2>2, <2>3, AbsAnswers DEF LabelMove, Results
    <3>2. Abs!Pending(p, {"Link", "Label", "Open"}, {"run", "pinned"}) /\ Abs!Reads(p) = call[p].ns
      BY <1>0, <1>25, <2>1, Phases, AbsPending DEF LabelMove, AbsOp, PlaceOf, Undecided
    <3>3. Abs!Reads(p) \notin present
      BY <1>0, <2>3, <3>2 DEF checkDup, EntryInv
    <3>4. Abs!NotExist(p)
      BY <2>1, <3>1, <3>2, <3>3 DEF Abs!NotExist
    <3> QED BY <3>4 DEF Abs!Next
  <2>4. CASE dir[call[p].ns]
    <3>1. Abs!Decide(p, "ok")
      BY <1>25, <2>1, <2>2, <2>4, AbsAnswers DEF LabelMove, Results
    <3>2. Abs!Pending(p, {"Label"}, {"pinned"}) /\ A[p].ns = call[p].ns
      BY <1>0, <1>25, <2>1, Phases, AbsPending DEF LabelMove, AbsOp, PlaceOf, Undecided
    <3>4. Abs!Found(p)
      BY <2>1, <3>1, <3>2 DEF Abs!Found
    <3> QED BY <3>4 DEF Abs!Next
  <2> QED BY <2>3, <2>4
<1>26. ASSUME NEW p \in Proc, Fail(p) PROVE [Abs!Next]_(Abs!vars)
  <2>1. UNCHANGED <<blob, call, fd>>
    BY <1>26 DEF Fail
  <2>2. Alone(p)
    <3>1. \A q \in Proc \ {p} : pc'[q] = pc[q] /\ res'[q] = res[q]
      BY <1>0, <1>26 DEF Fail, RemoveAllFailed, Goto, Answer, TypeOK
    <3> QED BY <2>1, <3>1, AloneAbs
  <2>3. CASE pc[p] = "cleanlock" /\ Goto(p, "ret") /\ UNCHANGED res
    BY <2>1, <2>3, AbsGoes
  <2>4. CASE ~(pc[p] = "cleanlock" /\ Goto(p, "ret") /\ UNCHANGED res)
    <3>1. pc[p] \in Undecided /\ Live(p)
      BY <1>0, <1>26, <2>4 DEF Fail, Undecided, PublishPcs, Removing, Live, CallShape, Publishing,
         PlaceOf
    <3>2. Answer(p, "error", "ret") \/ Answer(p, "error", "unwind")
      BY <1>26, <2>4 DEF Fail, RemoveAllFailed
    <3> QED BY <1>0, <2>1, <2>2, <3>1, <3>2, AbsFails
  <2> QED BY <2>3, <2>4
<1>27. ASSUME NEW p \in Proc, Rename(p) PROVE [Abs!Next]_(Abs!vars)
  <2> DEFINE n == call[p].ns
  <2>0. n \in Namespace /\ UNCHANGED <<call, fd>> /\ Live(p) /\ call[p].op \in Publishing /\ res[p] = None
    BY <1>0, <1>27 DEF Rename, TypeOK, Calls, Live, CallShape, PublishPcs, Publishing, PlaceOf,
       Undecided
  <2>1. CASE dir[n]
    BY <1>0, <1>27, <2>0, <2>1, AbsGoes DEF Rename
  <2>2. CASE ~dir[n]
    <3>1. blob' = [blob EXCEPT ![n] = stage[p]] /\ stage[p] # None /\ Answer(p, "ok", "unwind")
      BY <1>0, <1>27, <2>2 DEF Rename, HandleOf, Moving
    <3>2. Alone(p)
      <4>1. SUFFICES ASSUME NEW q \in Proc \ {p} PROVE AbsCall(q)' = AbsCall(q)
        BY DEF Alone
      <4>2. pc'[q] = pc[q] /\ res'[q] = res[q] /\ call'[q] = call[q] /\ (fd'[q] <=> fd[q])
        BY <1>0, <2>0, <3>1 DEF Answer, Goto, TypeOK
      <4>3. fd[q] => call[q].ns # n
        BY <1>0, <2>2 DEF HandleOf
      <4>4. fd[q] => blob'[call[q].ns] = blob[call[q].ns]
        BY <1>0, <3>1, <4>3 DEF TypeOK, HandleOf, Calls
      <4>5. Removed(q)' <=> Removed(q)
        BY <4>2, <4>4 DEF Removed
      <4>6. AbsPhase(q)' = AbsPhase(q)
        BY <4>2, <4>5 DEF AbsPhase
      <4> QED BY <4>2, <4>6 DEF AbsCall
    <3>3. Abs!Decide(p, "ok")
      BY <2>0, <3>1, <3>2, AbsAnswers DEF Results
    <3>4. /\ Abs!Pending(p, {"Add"}, {"run"}) \/ Abs!Pending(p, {"Link"}, {"pinned"})
          /\ A[p].ns = n
      <4>1. \/ AbsOp(p) \in {"Add"} /\ AbsPhase(p) \in {"run"}
            \/ AbsOp(p) \in {"Link"} /\ AbsPhase(p) \in {"pinned"}
        BY <1>27, <2>0, Phases DEF AbsOp, Publishing, Rename
      <4> QED BY <2>0, <4>1, AbsPending
    <3>5. n \notin present
      BY <1>0, <2>2 DEF EntryInv
    <3>6. {m \in Namespace : blob'[m] # None} = {m \in Namespace : blob[m] # None} \cup {n}
      BY <1>0, <2>0, <3>1 DEF TypeOK
    <3>7. Abs!Put(p)
      BY <3>3, <3>4, <3>5, <3>6 DEF Abs!Put
    <3> QED BY <3>7 DEF Abs!Next
  <2> QED BY <2>1, <2>2
<1>28. ASSUME NEW p \in Proc, RmTry(p) PROVE [Abs!Next]_(Abs!vars)
  <2> DEFINE n == call[p].ns
  <2>0. n \in Namespace /\ call' = call /\ Live(p) /\ call[p].op \in Publishing \cup {"Erase"}
          /\ res[p] = None
    BY <1>0, <1>28 DEF RmTry, TypeOK, Calls, Live, CallShape, Removing, Publishing, PlaceOf,
       Undecided
  <2>1. blob' = blob /\ \A q \in Proc \ {p} : pc'[q] = pc[q] /\ res'[q] = res[q]
    BY <1>0, <1>28 DEF RmTry, RemoveAllDone, Goto, Answer, TypeOK
  <2>2. CASE dir[n] /\ ~Empty(n)
    BY <1>28, <2>0, <2>1, <2>2, AbsGoes DEF RmTry
  <2>3. CASE ~dir[n] \/ Empty(n)
    <3>1. blob[n] = None /\ RemoveAllDone(p)
      BY <1>0, <1>28, <2>0, <2>3 DEF RmTry, EntryInv, Empty
    <3>2. Alone(p)
      <4>1. CASE UNCHANGED <<dir, fd>>
        BY <2>0, <2>1, <4>1, AloneAbs
      <4>2. CASE rmdir(n)
        BY <2>0, <2>1, <3>1, <4>2, AloneRmdir
      <4> QED BY <1>28, <2>3, <4>1, <4>2 DEF RmTry
    <3> QED BY <1>0, <1>28, <2>0, <2>1, <3>1, <3>2, AbsRemoveAllDone DEF RmTry, Removing
  <2> QED BY <2>2, <2>3
<1>29. ASSUME NEW p \in Proc, RmOpen(p) PROVE [Abs!Next]_(Abs!vars)
  <2> DEFINE n == call[p].ns
  <2>0. n \in Namespace /\ call' = call /\ Live(p) /\ call[p].op \in Publishing \cup {"Erase"}
          /\ res[p] = None
    BY <1>0, <1>29 DEF RmOpen, TypeOK, Calls, Live, CallShape, Removing, Publishing, PlaceOf,
       Undecided
  <2>1. blob' = blob /\ \A q \in Proc \ {p} : pc'[q] = pc[q] /\ res'[q] = res[q] /\ (fd'[q] <=> fd[q])
    BY <1>0, <1>29 DEF RmOpen, RemoveAllDone, Goto, Answer, TypeOK
  <2>2. Alone(p)
    BY <2>0, <2>1, AloneAbs
  <2>3. CASE ~dir[n]
    <3>1. blob[n] = None /\ RemoveAllDone(p)
      BY <1>0, <1>29, <2>0, <2>3 DEF RmOpen, EntryInv
    <3> QED BY <1>0, <1>29, <2>0, <2>1, <2>2, <3>1, AbsRemoveAllDone DEF RmOpen, Removing
  <2>4. CASE dir[n]
    <3>1. pc'[p] \in {"rmnames", "rmdir"} /\ res'[p] = None /\ fd'[p]
      BY <1>0, <1>29, <2>0, <2>4 DEF RmOpen, Goto, TypeOK
    <3>2. Removed(p)' <=> blob[n] = None
      BY <2>0, <2>1, <3>1 DEF Removed
    <3>3. ~Removed(p)
      BY <1>29 DEF RmOpen, Removed
    <3>4. CASE call[p].op = "Erase" /\ blob[n] = None
      <4>1. AbsPhase(p)' = "ok"
        BY <2>0, <3>1, <3>2, <3>4 DEF AbsPhase
      <4> QED BY <1>0, <1>29, <2>0, <2>1, <2>2, <3>1, <3>4, <4>1, AbsErasesNothing DEF RmOpen
    <3>5. CASE ~(call[p].op = "Erase" /\ blob[n] = None)
      <4>1. AbsPhase(p)' = AbsPhase(p)
        BY <1>29, <2>0, <3>1, <3>2, <3>3, <3>5 DEF AbsPhase, RmOpen
      <4> QED BY <1>29, <2>0, <2>1, <2>2, <3>1, <4>1, AbsStutters DEF RmOpen
    <3> QED BY <3>4, <3>5
  <2> QED BY <2>3, <2>4
<1>30. ASSUME NEW p \in Proc, RmDir(p) PROVE [Abs!Next]_(Abs!vars)
  <2> DEFINE n == call[p].ns
  <2>0. n \in Namespace /\ call' = call /\ Live(p) /\ call[p].op \in Publishing \cup {"Erase"}
          /\ res[p] = None
    BY <1>0, <1>30 DEF RmDir, TypeOK, Calls, Live, CallShape, Removing, Publishing, PlaceOf,
       Undecided
  <2>1. blob' = blob /\ \A q \in Proc \ {p} : pc'[q] = pc[q] /\ res'[q] = res[q]
    BY <1>0, <1>30 DEF RmDir, RemoveAllDone, RemoveAllFailed, Goto, Answer, TypeOK
  <2>2. Removed(p)
    BY <1>0, <1>30 DEF RmDir, Removed, HandleOf
  <2>3. Alone(p)
    <3>1. CASE fd' = [fd EXCEPT ![p] = FALSE]
      BY <1>0, <2>0, <2>1, <3>1, AloneAbs DEF TypeOK
    <3>2. CASE Empty(n) /\ rmdir(n)
      BY <2>0, <2>1, <3>2, AloneRmdir DEF Empty
    <3> QED BY <1>30, <3>1, <3>2 DEF RmDir
  <2>4. CASE RemoveAllFailed(p)
    <3>1. Answer(p, "error", "ret") \/ Answer(p, "error", "unwind")
      BY <2>4 DEF RemoveAllFailed
    <3> QED BY <1>0, <1>30, <2>0, <2>1, <2>3, <3>1, AbsFails DEF RmDir, Undecided, Removing
  <2>5. CASE RemoveAllDone(p) /\ call[p].op = "Erase"
    <3>1. pc'[p] = "nlink" /\ res'[p] = "ok"
      BY <1>0, <2>5 DEF RemoveAllDone, Answer, Goto, TypeOK
    <3>2. AbsPhase(p)' = "ok" /\ AbsPhase(p) = "ok"
      BY <2>0, <2>2, <2>5, <3>1 DEF AbsPhase
    <3> QED BY <1>30, <2>0, <2>1, <2>3, <3>1, <3>2, AbsStutters DEF RmDir
  <2>6. CASE RemoveAllDone(p) /\ call[p].op # "Erase"
    BY <1>0, <1>30, <2>0, <2>1, <2>3, <2>6, AbsRemoveAllDone DEF RmDir, Removing
  <2> QED BY <1>30, <2>4, <2>5, <2>6 DEF RmDir
<1>31. ASSUME NEW p \in Proc, RmUnlink(p) PROVE [Abs!Next]_(Abs!vars)
  <2> DEFINE n == call[p].ns
  <2>0. n \in Namespace /\ call' = call /\ Live(p) /\ call[p].op \in Publishing \cup {"Erase"}
          /\ res[p] = None
    BY <1>0, <1>31 DEF RmUnlink, TypeOK, Calls, Live, CallShape, Removing, Publishing, PlaceOf,
       Undecided
  <2>1. PICK x \in names[p] :
          blob' = IF fd[p] /\ x = "blob" THEN [blob EXCEPT ![n] = None] ELSE blob
    BY <1>31 DEF RmUnlink
  <2>2. /\ \A q \in Proc \ {p} : pc'[q] = pc[q]
        /\ pc'[p] \in {"rmnames", "rmdir"} /\ pc[p] = "rmnames" /\ UNCHANGED <<fd, res>>
    BY <1>0, <1>31 DEF RmUnlink, Goto, TypeOK
  <2>3. CASE blob' = blob
    <3>1. Alone(p)
      BY <2>0, <2>2, <2>3, AloneAbs
    <3>2. Removed(p)' <=> Removed(p)
      BY <2>0, <2>2, <2>3 DEF Removed
    <3>3. AbsPhase(p)' = AbsPhase(p)
      BY <2>0, <2>2, <3>2 DEF AbsPhase
    <3> QED BY <2>0, <2>2, <2>3, <3>1, <3>3, AbsStutters
  <2>4. CASE blob' # blob
    <3>1. blob' = [blob EXCEPT ![n] = None] /\ fd[p] /\ blob[n] # None
      BY <1>0, <2>0, <2>1, <2>4 DEF TypeOK
    <3>2. call[p].op = "Erase"
      BY <1>0, <2>0, <2>2, <3>1 DEF EntryInv, Cleared, Moving, Removing
    <3> DEFINE S == {q \in Proc : call[q].op = "Erase" /\ pc[q] \in {"rmnames", "rmdir"} /\ fd[q] /\ call[q].ns = n}
    <3>3. p \in S
      BY <2>2, <3>1, <3>2
    <3>4. ASSUME NEW q \in S
          PROVE  /\ Live(q) /\ call[q].op = "Erase" /\ call[q].ns = n /\ AbsPhase(q) = "run"
                 /\ call'[q] = call[q] /\ pc'[q] # "idle" /\ AbsPhase(q)' = "ok"
      <4>1. res[q] = None /\ res'[q] = None /\ pc'[q] \in {"rmnames", "rmdir"} /\ call'[q] = call[q]
        BY <1>0, <2>0, <2>2 DEF PlaceOf, Undecided, Removing
      <4>2. ~Removed(q) /\ AbsPhase(q) = "run"
        BY <3>1, <4>1 DEF Removed, AbsPhase
      <4>3. blob'[n] = None
        BY <1>0, <2>0, <3>1 DEF TypeOK
      <4>4. Removed(q)'
        BY <4>1, <4>3 DEF Removed
      <4>5. AbsPhase(q)' = "ok"
        BY <4>1, <4>4 DEF AbsPhase
      <4> QED BY <4>1, <4>2, <4>5 DEF Live
    <3>5. ASSUME NEW q \in Proc \ S PROVE AbsCall(q)' = AbsCall(q)
      <4>1. q # p
        BY <3>3
      <4>2. pc'[q] = pc[q] /\ res'[q] = res[q] /\ call'[q] = call[q] /\ (fd'[q] <=> fd[q])
        BY <2>0, <2>2, <4>1
      <4>3. call[q].op = "Erase" => (Removed(q)' <=> Removed(q))
        <5>1. CASE call[q].op = "Erase" /\ pc[q] \in {"rmnames", "rmdir"} /\ fd[q]
          <6>1. call[q].ns # n /\ call[q].ns \in Namespace
            BY <1>0, <5>1 DEF TypeOK, Calls
          <6>2. blob'[call[q].ns] = blob[call[q].ns]
            BY <1>0, <3>1, <6>1 DEF TypeOK
          <6> QED BY <4>2, <6>2 DEF Removed
        <5>2. CASE ~(pc[q] \in {"rmnames", "rmdir"} /\ fd[q])
          BY <4>2, <5>2 DEF Removed
        <5> QED BY <5>1, <5>2
      <4>4. AbsPhase(q)' = AbsPhase(q)
        BY <4>2, <4>3 DEF AbsPhase
      <4> QED BY <4>2, <4>4 DEF AbsCall
    <3>6. {m \in Namespace : blob'[m] # None} = {m \in Namespace : blob[m] # None} \ {n}
      BY <1>0, <2>0, <3>1 DEF TypeOK
    <3>7. S \in SUBSET Proc /\ S # {}
      BY <3>3
    <3> HIDE DEF S
    <3> QED BY <2>0, <3>4, <3>5, <3>6, <3>7, AbsErases
  <2> QED BY <2>3, <2>4
<1>32. CASE SourceAppears \/ SourceGoes
  <2>1. \A q \in Proc : AbsCall(q)' = AbsCall(q)
    BY <1>32 DEF SourceAppears, SourceGoes, AbsCall, AbsPhase, Removed
  <2> QED BY <1>32, <2>1 DEF SourceAppears, SourceGoes, Abs!vars
<1> QED
  BY <1>1, <1>2, <1>3, <1>4, <1>5, <1>6, <1>7, <1>8, <1>9, <1>10, <1>11, <1>12, <1>13, <1>14,
     <1>15, <1>16, <1>17, <1>18, <1>19, <1>20, <1>21, <1>22, <1>23, <1>24, <1>25, <1>26, <1>27,
     <1>28, <1>29, <1>30, <1>31, <1>32 DEF Next, Step, Publish, RemoveAll,
     tryCleanup

\* The empty pool is the empty abstract store.
LEMMA InitAbs == Init => Abs!Init
<1> SUFFICES ASSUME Init PROVE Abs!Init
  OBVIOUS
<1>1. \A p \in Proc : AbsCall(p) = [op |-> "none"]
  BY DEF Init, AbsCall
<1>2. {n \in Namespace : blob[n] # None} = {}
  BY DEF Init
<1> QED BY <1>1, <1>2 DEF Abs!Init, Abs!Idle

\* The filesystem store keeps the contract of store.go, with failures and crashes
\* and on platforms without link counts too: each call's result is that of one step
\* between its call and its return, at which it agrees with what the namespaces hold.
THEOREM OsImplements == Spec => ImplementsBlobStore
  BY InitAbs, NextAbs, ShapeInvariant, PlaceInvariant, HandleInvariant, EntryInvariant, PTL
     DEF Spec, ImplementsBlobStore, Abs!Spec
=============================================================================
