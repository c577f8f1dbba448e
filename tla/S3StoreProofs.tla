--------------------------- MODULE S3StoreProofs ---------------------------
(***************************************************************************)
(* The sweep loses no bytes an Add has referenced, for any number of       *)
(* callers, namespaces and any grace, with failures and with Links, Labels *)
(* and Erases beside it, as long as more than grace passes from the end of *)
(* a sweep to the next.                                                    *)
(*                                                                         *)
(* The argument: bytes can go only when blob/ is missing.  A missing blob/ *)
(* was deleted by an earlier sweep, so an Add that still holds it is older *)
(* than that sweep's end, and with the gap none is left when the next one  *)
(* begins.  From then on no Add can write a marker while blob/ is missing, *)
(* so the listing cannot miss one.                                         *)
(*                                                                         *)
(* And it leaves none that nothing references, under the same schedule.    *)
(***************************************************************************)
EXTENDS S3Store, TLAPS

\* The host's schedule: more than grace between two sweeps.
Spaced == SweepGap = Grace + 1

\* The types, and what is true at each point of a sweep.
Shape ==
    /\ TypeOK
    /\ \A p \in Proc : pc[p] = "headref" => call[p].op # "Erase"
    /\ sweep \notin {"idle", "refs"} => todo = {}
    /\ sweep # "idle" => since = MaxAge
    /\ sweep \in {"backhead", "backcopy"} => refd

\* An Add that has found or stored the bytes and not yet written its marker.
Adding(p) == pc[p] = "putref" /\ call[p].op = "Add"

\* Where the bytes are.
Kept ==
    /\ AddsKept
    /\ \A n \in added : ref[n]
    /\ \A p \in Proc : Adding(p) => blob # None \/ trash # None
    /\ \A p \in Proc : Adding(p) /\ blob = None => since <= hold[p]
    /\ sweep = "aside" => blob # None
    /\ sweep = "blobdel" => trash # None
    /\ sweep = "trashdel" /\ refd => blob # None
    /\ sweep # "idle" /\ ~refd /\ blob = None => added \subseteq todo

\* Everything is empty at first.
LEMMA InitInv == Init => Shape /\ Kept
<1> SUFFICES ASSUME Init PROVE Shape /\ Kept
  OBVIOUS
<1> USE S3Assumption DEF Init
<1>1. TypeOK
  <2>1. since \in Ages /\ swept \in 0 .. MaxSwept /\ 0 \in 0 .. Grace
    BY DEF Ages, MaxAge, MaxSwept
  <2> QED BY <2>1 DEF TypeOK, Sweeps
<1>2. Shape
  BY <1>1 DEF Shape
<1>3. Kept
  BY DEF Kept, AddsKept, Adding
<1> QED BY <1>2, <1>3

\* The clock ages what there is, and creates and destroys nothing.
LEMMA OlderType ==
    \A a \in Ages \cup {None} : Older(a) \in Ages \cup {None} /\ (Older(a) = None <=> a = None)
  BY S3Assumption DEF Older, Ages, MaxAge

\* Every step keeps the types, and under the schedule the shape of a sweep.
LEMMA NextShape == ASSUME Spaced PROVE Shape /\ [Next]_vars => Shape'
<1> SUFFICES ASSUME Shape, [Next]_vars PROVE Shape'
  OBVIOUS
<1> USE S3Assumption
<1> USE DEF objects, callers, sweeper, history
<1>0. TypeOK
  BY DEF Shape
<1>1. CASE UNCHANGED vars
  BY <1>0, <1>1 DEF vars, Shape, TypeOK
<1>2. ASSUME NEW p \in Proc, Call(p) PROVE Shape'
  <2>1. PICK c \in Calls :
          /\ call' = [call EXCEPT ![p] = c]
          /\ Goto(p, IF c.op = "Erase" THEN "delref" ELSE "headref")
          /\ quiet' = (quiet /\ ~References(c.op))
          /\ swept' = IF References(c.op) THEN 0 ELSE swept
    BY <1>2 DEF Call
  <2>2. pc' \in [Proc -> Requests \cup {"idle"}] /\ call' \in [Proc -> Calls \cup {NoCall}]
    BY <1>0, <2>1 DEF Goto, TypeOK, Requests
  <2>3. quiet' \in BOOLEAN /\ swept' \in 0 .. MaxSwept
    BY <1>0, <2>1 DEF TypeOK, References, MaxSwept
  <2>4. \A q \in Proc : pc'[q] # "idle" => call'[q] \in Calls
    BY <1>0, <2>1 DEF Goto, TypeOK
  <2>5. TypeOK'
    BY <1>0, <1>2, <2>2, <2>3, <2>4 DEF Call, TypeOK
  <2> QED BY <1>0, <1>2, <2>1, <2>5 DEF Call, Goto, Shape, TypeOK
<1>3. ASSUME NEW p \in Proc, HeadRef(p) PROVE Shape'
  <2>1. call[p].op \in {"Add", "Link", "Label", "Open"}
    BY <1>0, <1>3 DEF HeadRef, TypeOK, Calls, Shape
  <2>2. CASE Return(p)
    <3>1. TypeOK'
      BY <1>0, <1>3, <2>2 DEF HeadRef, Return, Goto, TypeOK
    <3> QED BY <1>0, <1>3, <2>2, <3>1 DEF HeadRef, Return, Goto, Shape, TypeOK
  <2>3. ASSUME NEW l \in {"headblob", "putnew", "putref", "openblob"}, Continue(p, l) PROVE Shape'
    <3>1. TypeOK'
      BY <1>0, <1>3, <2>3 DEF HeadRef, Continue, Goto, TypeOK, Requests
    <3> QED BY <1>0, <1>3, <2>3, <3>1 DEF HeadRef, Continue, Goto, Shape, TypeOK
  <2> QED BY <1>3, <2>1, <2>2, <2>3 DEF HeadRef
<1>4. ASSUME NEW p \in Proc, HeadBlob(p) PROVE Shape'
  <2>1. TypeOK'
    BY <1>0, <1>4 DEF HeadBlob, Return, Continue, Goto, TypeOK, Requests
  <2> QED BY <1>0, <1>4, <2>1 DEF HeadBlob, Return, Continue, Goto, Shape, TypeOK, Spaced, Calls
<1>5. ASSUME NEW p \in Proc, PutBlob(p) PROVE Shape'
  <2>0. 0 \in Ages
    BY DEF Ages, MaxAge
  <2>1. TypeOK'
    <3>1. blob' \in Ages \cup {None} /\ oldBlob' \in BOOLEAN
      BY <1>0, <1>5, <2>0 DEF PutBlob, TypeOK
    <3>2. CASE Return(p)
      BY <1>0, <1>5, <3>1, <3>2 DEF PutBlob, Return, Goto, TypeOK
    <3>3. CASE Continue(p, "putref")
      BY <1>0, <1>5, <3>1, <3>3 DEF PutBlob, Continue, Goto, TypeOK, Requests
    <3> QED BY <1>5, <3>2, <3>3 DEF PutBlob
  <2> QED BY <1>0, <1>5, <2>1 DEF PutBlob, Return, Continue, Goto, Shape, TypeOK, Spaced, Calls
<1>6. ASSUME NEW p \in Proc, PutRef(p) PROVE Shape'
  <2>1. TypeOK'
    BY <1>0, <1>6 DEF PutRef, Return, Goto, TypeOK, Requests, Calls
  <2> QED BY <1>0, <1>6, <2>1 DEF PutRef, Return, Goto, Shape, TypeOK, Spaced, Calls
<1>7. ASSUME NEW p \in Proc, Erase(p) PROVE Shape'
  <2>1. TypeOK'
    BY <1>0, <1>7 DEF Erase, Return, Goto, TypeOK, Requests, Calls
  <2> QED BY <1>0, <1>7, <2>1 DEF Erase, Return, Goto, Shape, TypeOK, Spaced, Calls
<1>8. ASSUME NEW p \in Proc, OpenBlob(p) PROVE Shape'
  <2>1. TypeOK'
    BY <1>0, <1>8 DEF OpenBlob, Return, Continue, Goto, TypeOK, Requests
  <2> QED BY <1>0, <1>8, <2>1 DEF OpenBlob, Return, Continue, Goto, Shape, TypeOK, Spaced, Calls
<1>9. ASSUME NEW p \in Proc, OpenTrash(p) PROVE Shape'
  <2>1. TypeOK'
    BY <1>0, <1>9 DEF OpenTrash, Return, Goto, TypeOK, Requests
  <2> QED BY <1>0, <1>9, <2>1 DEF OpenTrash, Return, Goto, Shape, TypeOK, Spaced, Calls
<1>10. ASSUME NEW p \in Proc, Fail(p) PROVE Shape'
  <2>1. TypeOK'
    BY <1>0, <1>10 DEF Fail, Return, Goto, TypeOK, Requests
  <2> QED BY <1>0, <1>10, <2>1 DEF Fail, Return, Goto, Shape, TypeOK, Spaced, Calls
<1>11. ASSUME NEW p \in Proc, PutNew(p) PROVE Shape'
  <2>1. TypeOK'
    BY <1>0, <1>11 DEF PutNew, Return, Goto, TypeOK, Requests, Calls
  <2> QED BY <1>0, <1>11, <2>1 DEF PutNew, Return, Goto, Shape, TypeOK, Calls
<1>12. CASE SweepStart
  <2>1. TypeOK'
    BY <1>0, <1>12 DEF SweepStart, Aged, Unreferenced, TypeOK, Sweeps, Ages, MaxAge
  <2> QED BY <1>0, <1>12, <2>1 DEF SweepStart, Aged, Unreferenced, Shape, TypeOK, Spaced, Sweeps,
             Ages, MaxAge
<1>13. CASE ListRef
  <2>1. TypeOK'
    BY <1>0, <1>13 DEF ListRef, TypeOK, Sweeps
  <2> QED BY <1>0, <1>13, <2>1 DEF ListRef, Shape, TypeOK, Spaced, Sweeps, Ages, MaxAge
<1>14. CASE ListTrash
  <2>1. TypeOK'
    BY <1>0, <1>14 DEF ListTrash, SweepGoto, TypeOK, Sweeps
  <2> QED BY <1>0, <1>14, <2>1 DEF ListTrash, SweepGoto, Shape, TypeOK, Spaced, Sweeps, Ages, MaxAge
<1>15. CASE BackHead
  <2>1. TypeOK'
    BY <1>0, <1>15 DEF BackHead, SweepGoto, TypeOK, Sweeps
  <2> QED BY <1>0, <1>15, <2>1 DEF BackHead, SweepGoto, Shape, TypeOK, Spaced, Sweeps, Ages, MaxAge
<1>16. CASE BackCopy
  <2>0. 0 \in Ages
    BY DEF Ages, MaxAge
  <2>1. TypeOK'
    BY <1>0, <1>16, <2>0 DEF BackCopy, SweepGoto, TypeOK, Sweeps
  <2> QED BY <1>0, <1>16, <2>1 DEF BackCopy, SweepGoto, Shape, TypeOK, Spaced, Sweeps, Ages, MaxAge
<1>17. CASE TrashDel
  <2>1. TypeOK'
    BY <1>0, <1>17 DEF TrashDel, SweepGoto, TypeOK, Sweeps
  <2> QED BY <1>0, <1>17, <2>1 DEF TrashDel, SweepGoto, Shape, TypeOK, Spaced, Sweeps, Ages, MaxAge
<1>18. CASE ListBlob
  <2>1. TypeOK'
    BY <1>0, <1>18 DEF ListBlob, SweepGoto, SweepEnd, TypeOK, Sweeps, Ages, MaxAge, MaxSwept
  <2> QED BY <1>0, <1>18, <2>1 DEF ListBlob, SweepGoto, SweepEnd, Shape, TypeOK, Spaced, Sweeps,
             Ages, MaxAge
<1>19. CASE Aside
  <2>1. TypeOK'
    BY <1>0, <1>19 DEF Aside, SweepGoto, TypeOK, Sweeps, Ages, MaxAge
  <2> QED BY <1>0, <1>19, <2>1 DEF Aside, SweepGoto, Shape, TypeOK, Spaced, Sweeps, Ages, MaxAge
<1>20. CASE BlobDel
  <2>1. TypeOK'
    BY <1>0, <1>20 DEF BlobDel, SweepEnd, TypeOK, Sweeps, Ages, MaxAge, MaxSwept
  <2> QED BY <1>0, <1>20, <2>1 DEF BlobDel, SweepEnd, Shape, TypeOK, Spaced, Sweeps, Ages, MaxAge
<1>21. CASE SweepFail
  <2>1. TypeOK'
    BY <1>0, <1>21 DEF SweepFail, TypeOK, Sweeps, Ages, MaxAge
  <2> QED BY <1>0, <1>21, <2>1 DEF SweepFail, Shape, TypeOK, Spaced, Sweeps, Ages, MaxAge
<1>22. CASE Tick
  <2>1. blob' \in Ages \cup {None} /\ trash' \in Ages \cup {None}
    BY <1>0, <1>22, OlderType DEF Tick, TypeOK
  <2>2. since' \in Ages /\ (since = MaxAge => since' = MaxAge)
    BY <1>0, <1>22 DEF Tick, TypeOK, Older, Ages, MaxAge
  <2>3. hold' \in [Proc -> 0 .. Grace]
    BY <1>0, <1>22 DEF Tick, TypeOK
  <2>4. TypeOK'
    BY <1>0, <1>22, <2>1, <2>2, <2>3 DEF Tick, TypeOK
  <2> QED BY <1>22, <2>2, <2>4 DEF Tick, Shape, MaxAge
<1> QED
  BY <1>1, <1>2, <1>3, <1>4, <1>5, <1>6, <1>7, <1>8, <1>9, <1>10, <1>11, <1>12, <1>13, <1>14,
     <1>15, <1>16, <1>17, <1>18, <1>19, <1>20, <1>21, <1>22 DEF Next, Step, Reclaim

\* Every step keeps the bytes that an Add has referenced or is about to.
LEMMA NextKept == ASSUME Spaced PROVE Shape /\ Kept /\ [Next]_vars => Kept'
<1> SUFFICES ASSUME Shape, Kept, [Next]_vars PROVE Kept'
  OBVIOUS
<1> USE S3Assumption
<1> USE DEF objects, callers, sweeper, history
<1>0. TypeOK
  BY DEF Shape
<1>1. CASE UNCHANGED vars
  BY <1>0, <1>1 DEF vars, Kept, AddsKept, Adding
<1>2. ASSUME NEW p \in Proc, Call(p) PROVE Kept'
  BY <1>0, <1>2 DEF Call, Goto, References, TypeOK, Kept, AddsKept, Adding
<1>3. ASSUME NEW p \in Proc, HeadRef(p) PROVE Kept'
  <2>1. call[p].op \in {"Add", "Link", "Label", "Open"}
    BY <1>0, <1>3 DEF HeadRef, TypeOK, Calls, Shape
  <2>2. ~Adding(p)'
    BY <1>0, <1>3, <2>1 DEF HeadRef, Return, Continue, Goto, TypeOK, Adding
  <2>3. \A q \in Proc \ {p} : pc'[q] = pc[q] /\ call'[q] = call[q] /\ hold'[q] = hold[q]
    BY <1>0, <1>3 DEF HeadRef, Return, Continue, Goto, TypeOK
  <2> QED BY <1>0, <1>3, <2>1, <2>2, <2>3 DEF HeadRef, TypeOK, Kept, AddsKept, Adding
<1>4. ASSUME NEW p \in Proc, HeadBlob(p) PROVE Kept'
  BY <1>0, <1>4 DEF HeadBlob, Return, Continue, Goto, TypeOK, Kept, AddsKept, Adding, Ages
<1>5. ASSUME NEW p \in Proc, PutBlob(p) PROVE Kept'
  BY <1>0, <1>5 DEF PutBlob, Return, Continue, Goto, TypeOK, Kept, AddsKept, Adding, Ages
<1>6. ASSUME NEW p \in Proc, PutRef(p) PROVE Kept'
  BY <1>0, <1>6 DEF PutRef, Return, Goto, TypeOK, Kept, AddsKept, Adding, Calls, MaxAge, Shape
<1>7. ASSUME NEW p \in Proc, Erase(p) PROVE Kept'
  BY <1>0, <1>7 DEF Erase, Return, Goto, TypeOK, Kept, AddsKept, Adding
<1>8. ASSUME NEW p \in Proc, OpenBlob(p) PROVE Kept'
  BY <1>0, <1>8 DEF OpenBlob, Return, Continue, Goto, TypeOK, Kept, AddsKept, Adding
<1>9. ASSUME NEW p \in Proc, OpenTrash(p) PROVE Kept'
  BY <1>0, <1>9 DEF OpenTrash, Return, Goto, TypeOK, Kept, AddsKept, Adding
<1>10. ASSUME NEW p \in Proc, Fail(p) PROVE Kept'
  BY <1>0, <1>10 DEF Fail, Return, Goto, TypeOK, Kept, AddsKept, Adding
<1>11. ASSUME NEW p \in Proc, PutNew(p) PROVE Kept'
  BY <1>0, <1>11 DEF PutNew, Return, Goto, TypeOK, Kept, AddsKept, Adding, Calls
<1>12. CASE SweepStart
  BY <1>0, <1>12 DEF SweepStart, Aged, Unreferenced, TypeOK, Kept, AddsKept, Adding
<1>13. CASE ListRef
  BY <1>0, <1>13 DEF ListRef, TypeOK, Kept, AddsKept, Adding
<1>14. CASE ListTrash
  BY <1>0, <1>14 DEF ListTrash, SweepGoto, TypeOK, Kept, AddsKept, Adding
<1>15. CASE BackHead
  BY <1>0, <1>15 DEF BackHead, SweepGoto, TypeOK, Kept, AddsKept, Adding, Shape
<1>16. CASE BackCopy
  BY <1>0, <1>16 DEF BackCopy, SweepGoto, TypeOK, Kept, AddsKept, Adding, Shape, Ages
<1>17. CASE TrashDel
  BY <1>0, <1>17 DEF TrashDel, SweepGoto, TypeOK, Kept, AddsKept, Adding, Shape, MaxAge
<1>18. CASE ListBlob
  BY <1>0, <1>18 DEF ListBlob, SweepGoto, SweepEnd, TypeOK, Kept, AddsKept, Adding
<1>19. CASE Aside
  BY <1>0, <1>19 DEF Aside, SweepGoto, TypeOK, Kept, AddsKept, Adding
<1>20. CASE BlobDel
  BY <1>0, <1>20 DEF BlobDel, SweepEnd, TypeOK, Kept, AddsKept, Adding
<1>21. CASE SweepFail
  BY <1>0, <1>21 DEF SweepFail, TypeOK, Kept, AddsKept, Adding
<1>22. CASE Tick
  <2>1. (blob' = None <=> blob = None) /\ (trash' = None <=> trash = None)
    BY <1>0, <1>22, OlderType DEF Tick, TypeOK
  <2>2. \A p \in Proc : Adding(p) /\ since <= hold[p] => since' <= hold'[p]
    BY <1>0, <1>22 DEF Tick, TypeOK, Older, Ages, MaxAge, Adding, Holding
  <2> QED BY <1>0, <1>22, <2>1, <2>2 DEF Tick, TypeOK, Kept, AddsKept, Adding
<1> QED
  BY <1>1, <1>2, <1>3, <1>4, <1>5, <1>6, <1>7, <1>8, <1>9, <1>10, <1>11, <1>12, <1>13, <1>14,
     <1>15, <1>16, <1>17, <1>18, <1>19, <1>20, <1>21, <1>22 DEF Next, Step, Reclaim

\* Under the schedule no marker an Add wrote outlives its bytes, whatever
\* requests fail and however the sweep's listing interleaves with the calls.
THEOREM AddsKeptCorrect == ASSUME Spaced PROVE Spec => []AddsKept
<1>1. Init => Shape /\ Kept
  BY InitInv
<1>2. Shape /\ Kept /\ [Next]_vars => (Shape /\ Kept)'
  BY NextShape, NextKept
<1>3. Kept => AddsKept
  BY DEF Kept
<1> QED BY <1>1, <1>2, <1>3, PTL DEF Spec

-----------------------------------------------------------------------------
(* Three complete sweeps reclaim a digest that nothing references: the     *)
(* first finds its bytes too young, the second puts them aside, and the    *)
(* third deletes them.  The gap between sweeps makes what the last one     *)
(* left old enough for the next.                                           *)

\* Nothing references the digest, or is about to, while a sweep may count.
Silent ==
    /\ \A p \in Proc :
          pc[p] \in {"headblob", "headagain", "putblob", "putref", "putnew"} => References(call[p].op)
    /\ quiet \/ swept > 0 => Unreferenced
    /\ sweep # "idle" /\ quiet => ~refd
    /\ sweep # "idle" /\ swept > 0 => quiet

\* What is left after the first sweep that counts ages until the next, which
\* empties trash/ and then blob/; the third empties trash/ again.
Emptied ==
    /\ sweep = "blobdel" => blob # None
    /\ swept >= 1 => blob = None \/ blob >= since
    /\ swept >= 1 /\ sweep # "blobdel" => trash = None \/ trash >= since
    /\ swept >= 1 /\ sweep # "idle" /\ blob # None => oldBlob
    /\ swept >= 1 /\ sweep \in {"refs", "trash"} /\ trash # None => oldTrash
    /\ swept >= 1 /\ sweep \in {"blobs", "aside"} => trash = None
    /\ swept >= 2 => blob = None
    /\ swept = MaxSwept => trash = None

\* A call that writes a marker says so when it begins.
LEMMA NextSilent == ASSUME Spaced PROVE Shape /\ Silent /\ [Next]_vars => Silent'
<1> SUFFICES ASSUME Shape, Silent, [Next]_vars PROVE Silent'
  OBVIOUS
<1> USE S3Assumption
<1> USE DEF objects, callers, sweeper, history
<1>0. TypeOK
  BY DEF Shape
<1>1. CASE UNCHANGED vars
  BY <1>0, <1>1 DEF vars, Silent, Unreferenced, References, Calls, NoCall
<1>2. ASSUME NEW p \in Proc, Call(p) PROVE Silent'
  BY <1>0, <1>2 DEF Call, Goto, TypeOK, Silent, Unreferenced, References, Calls, NoCall
<1>3. ASSUME NEW p \in Proc, HeadRef(p) PROVE Silent'
  BY <1>0, <1>3 DEF HeadRef, Return, Continue, Goto, TypeOK, Shape, Silent, Unreferenced,
     References, Calls, NoCall
<1>4. ASSUME NEW p \in Proc, HeadBlob(p) PROVE Silent'
  BY <1>0, <1>4 DEF HeadBlob, Return, Continue, Goto, TypeOK, Silent, Unreferenced, References,
     Calls, NoCall
<1>5. ASSUME NEW p \in Proc, PutBlob(p) PROVE Silent'
  BY <1>0, <1>5 DEF PutBlob, Return, Continue, Goto, TypeOK, Silent, Unreferenced, References,
     Calls, NoCall
<1>6. ASSUME NEW p \in Proc, PutRef(p) PROVE Silent'
  BY <1>0, <1>6 DEF PutRef, Return, Goto, TypeOK, Silent, Unreferenced, References, Calls, NoCall
<1>7. ASSUME NEW p \in Proc, PutNew(p) PROVE Silent'
  BY <1>0, <1>7 DEF PutNew, Return, Goto, TypeOK, Silent, Unreferenced, References, Calls, NoCall
<1>8. ASSUME NEW p \in Proc, Erase(p) PROVE Silent'
  BY <1>0, <1>8 DEF Erase, Return, Goto, TypeOK, Silent, Unreferenced, References, Calls, NoCall
<1>9. ASSUME NEW p \in Proc, OpenBlob(p) PROVE Silent'
  BY <1>0, <1>9 DEF OpenBlob, Return, Continue, Goto, TypeOK, Silent, Unreferenced, References,
     Calls, NoCall
<1>10. ASSUME NEW p \in Proc, OpenTrash(p) PROVE Silent'
  BY <1>0, <1>10 DEF OpenTrash, Return, Goto, TypeOK, Silent, Unreferenced, References, Calls,
     NoCall
<1>11. ASSUME NEW p \in Proc, Fail(p) PROVE Silent'
  BY <1>0, <1>11 DEF Fail, Return, Goto, TypeOK, Silent, Unreferenced, References, Calls, NoCall
<1>12. CASE SweepStart
  BY <1>0, <1>12 DEF SweepStart, Aged, TypeOK, Silent, Unreferenced, References, Calls, NoCall
<1>13. CASE ListRef
  BY <1>0, <1>13 DEF ListRef, TypeOK, Silent, Unreferenced, References, Calls, NoCall
<1>14. CASE ListTrash
  BY <1>0, <1>14 DEF ListTrash, SweepGoto, TypeOK, Silent, Unreferenced, References, Calls, NoCall
<1>15. CASE BackHead
  BY <1>0, <1>15 DEF BackHead, SweepGoto, TypeOK, Silent, Unreferenced, References, Calls, NoCall
<1>16. CASE BackCopy
  BY <1>0, <1>16 DEF BackCopy, SweepGoto, TypeOK, Silent, Unreferenced, References, Calls, NoCall
<1>17. CASE TrashDel
  BY <1>0, <1>17 DEF TrashDel, SweepGoto, TypeOK, Silent, Unreferenced, References, Calls, NoCall
<1>18. CASE ListBlob
  BY <1>0, <1>18 DEF ListBlob, SweepGoto, SweepEnd, TypeOK, Silent, Unreferenced, References,
     Calls, NoCall
<1>19. CASE Aside
  BY <1>0, <1>19 DEF Aside, SweepGoto, TypeOK, Silent, Unreferenced, References, Calls, NoCall
<1>20. CASE BlobDel
  BY <1>0, <1>20 DEF BlobDel, SweepEnd, TypeOK, Silent, Unreferenced, References, Calls, NoCall
<1>21. CASE SweepFail
  BY <1>0, <1>21 DEF SweepFail, TypeOK, Silent, Unreferenced, References, Calls, NoCall
<1>22. CASE Tick
  BY <1>0, <1>22 DEF Tick, Older, TypeOK, Silent, Unreferenced, References, Calls, NoCall
<1> QED
  BY <1>1, <1>2, <1>3, <1>4, <1>5, <1>6, <1>7, <1>8, <1>9, <1>10, <1>11, <1>12, <1>13, <1>14,
     <1>15, <1>16, <1>17, <1>18, <1>19, <1>20, <1>21, <1>22
     DEF Next, Step, Reclaim

\* Every step of the sweep, one that fails too, keeps to it.
LEMMA NextEmptied == ASSUME Spaced PROVE Shape /\ Kept /\ Silent /\ Emptied /\ [Next]_vars => Emptied'
<1> SUFFICES ASSUME Shape, Kept, Silent, Emptied, [Next]_vars PROVE Emptied'
  OBVIOUS
<1> USE S3Assumption
<1> USE DEF objects, callers, sweeper, history
<1>0. TypeOK
  BY DEF Shape
<1>1. CASE UNCHANGED vars
  BY <1>0, <1>1 DEF vars, Emptied, Silent, Unreferenced, References, Shape, Kept, Spaced, Ages,
     MaxAge, MaxSwept
<1>2. ASSUME NEW p \in Proc, Call(p) PROVE Emptied'
  BY <1>0, <1>2 DEF Call, Goto, TypeOK, Emptied, Silent, Unreferenced, References, Shape, Kept,
     Spaced, Ages, MaxAge, MaxSwept
<1>3. ASSUME NEW p \in Proc, HeadRef(p) PROVE Emptied'
  BY <1>0, <1>3 DEF HeadRef, Return, Continue, Goto, TypeOK, Emptied, Silent, Unreferenced,
     References, Shape, Kept, Spaced, Ages, MaxAge, MaxSwept
<1>4. ASSUME NEW p \in Proc, HeadBlob(p) PROVE Emptied'
  BY <1>0, <1>4 DEF HeadBlob, Return, Continue, Goto, TypeOK, Emptied, Silent, Unreferenced,
     References, Shape, Kept, Spaced, Ages, MaxAge, MaxSwept
<1>5. ASSUME NEW p \in Proc, PutBlob(p) PROVE Emptied'
  BY <1>0, <1>5 DEF PutBlob, Return, Continue, Goto, TypeOK, Emptied, Silent, Unreferenced,
     References, Shape, Kept, Spaced, Ages, MaxAge, MaxSwept
<1>6. ASSUME NEW p \in Proc, PutRef(p) PROVE Emptied'
  BY <1>0, <1>6 DEF PutRef, Return, Goto, TypeOK, Emptied, Silent, Unreferenced, References,
     Shape, Kept, Spaced, Ages, MaxAge, MaxSwept
<1>7. ASSUME NEW p \in Proc, PutNew(p) PROVE Emptied'
  BY <1>0, <1>7 DEF PutNew, Return, Goto, TypeOK, Emptied, Silent, Unreferenced, References,
     Shape, Kept, Spaced, Ages, MaxAge, MaxSwept
<1>8. ASSUME NEW p \in Proc, Erase(p) PROVE Emptied'
  BY <1>0, <1>8 DEF Erase, Return, Goto, TypeOK, Emptied, Silent, Unreferenced, References, Shape,
     Kept, Spaced, Ages, MaxAge, MaxSwept
<1>9. ASSUME NEW p \in Proc, OpenBlob(p) PROVE Emptied'
  BY <1>0, <1>9 DEF OpenBlob, Return, Continue, Goto, TypeOK, Emptied, Silent, Unreferenced,
     References, Shape, Kept, Spaced, Ages, MaxAge, MaxSwept
<1>10. ASSUME NEW p \in Proc, OpenTrash(p) PROVE Emptied'
  BY <1>0, <1>10 DEF OpenTrash, Return, Goto, TypeOK, Emptied, Silent, Unreferenced, References,
     Shape, Kept, Spaced, Ages, MaxAge, MaxSwept
<1>11. ASSUME NEW p \in Proc, Fail(p) PROVE Emptied'
  BY <1>0, <1>11 DEF Fail, Return, Goto, TypeOK, Emptied, Silent, Unreferenced, References, Shape,
     Kept, Spaced, Ages, MaxAge, MaxSwept
<1>12. CASE SweepStart
  <2>1. since = MaxAge /\ sweep = "idle" /\ UNCHANGED <<blob, trash, since, swept>> /\ sweep' = "refs"
    BY <1>0, <1>12 DEF SweepStart, Spaced, TypeOK, Ages, MaxAge
  <2>2. swept >= 1 /\ blob # None => oldBlob'
    <3>1. swept >= 1 /\ blob # None => blob > Grace
      BY <1>0, <2>1 DEF Emptied, TypeOK, Ages, MaxAge
    <3> QED BY <1>12, <3>1 DEF SweepStart, Aged
  <2>3. swept >= 1 /\ trash # None => oldTrash'
    <3>1. swept >= 1 /\ trash # None => trash > Grace
      BY <1>0, <2>1 DEF Emptied, TypeOK, Ages, MaxAge
    <3> QED BY <1>12, <3>1 DEF SweepStart, Aged
  <2> QED BY <2>1, <2>2, <2>3 DEF Emptied
<1>13. CASE ListRef
  BY <1>0, <1>13 DEF ListRef, TypeOK, Emptied, Silent, Unreferenced, References, Shape, Kept,
     Spaced, Ages, MaxAge, MaxSwept
<1>14. CASE ListTrash
  BY <1>0, <1>14 DEF ListTrash, SweepGoto, TypeOK, Emptied, Silent, Unreferenced, References,
     Shape, Kept, Spaced, Ages, MaxAge, MaxSwept
<1>15. CASE BackHead
  BY <1>0, <1>15 DEF BackHead, SweepGoto, TypeOK, Emptied, Silent, Unreferenced, References,
     Shape, Kept, Spaced, Ages, MaxAge, MaxSwept
<1>16. CASE BackCopy
  BY <1>0, <1>16 DEF BackCopy, SweepGoto, TypeOK, Emptied, Silent, Unreferenced, References,
     Shape, Kept, Spaced, Ages, MaxAge, MaxSwept
<1>17. CASE TrashDel
  BY <1>0, <1>17 DEF TrashDel, SweepGoto, TypeOK, Emptied, Silent, Unreferenced, References,
     Shape, Kept, Spaced, Ages, MaxAge, MaxSwept
<1>18. CASE ListBlob
  BY <1>0, <1>18 DEF ListBlob, SweepGoto, SweepEnd, TypeOK, Emptied, Silent, Unreferenced,
     References, Shape, Kept, Spaced, Ages, MaxAge, MaxSwept
<1>19. CASE Aside
  BY <1>0, <1>19 DEF Aside, SweepGoto, TypeOK, Emptied, Silent, Unreferenced, References, Shape,
     Kept, Spaced, Ages, MaxAge, MaxSwept
<1>20. CASE BlobDel
  BY <1>0, <1>20 DEF BlobDel, SweepEnd, TypeOK, Emptied, Silent, Unreferenced, References, Shape,
     Kept, Spaced, Ages, MaxAge, MaxSwept
<1>21. CASE SweepFail
  BY <1>0, <1>21 DEF SweepFail, TypeOK, Emptied, Silent, Unreferenced, References, Shape, Kept,
     Spaced, Ages, MaxAge, MaxSwept
<1>22. CASE Tick
  BY <1>0, <1>22 DEF Tick, Older, TypeOK, Emptied, Silent, Unreferenced, References, Shape, Kept,
     Spaced, Ages, MaxAge, MaxSwept
<1> QED
  BY <1>1, <1>2, <1>3, <1>4, <1>5, <1>6, <1>7, <1>8, <1>9, <1>10, <1>11, <1>12, <1>13, <1>14,
     <1>15, <1>16, <1>17, <1>18, <1>19, <1>20, <1>21, <1>22
     DEF Next, Step, Reclaim

\* Under the schedule a digest that nothing references is gone from blob/ and
\* from trash/ after three sweeps that end, however many fail between them.
THEOREM ReclaimedCorrect == ASSUME Spaced PROVE Spec => []Reclaimed
<1>1. Init => Silent /\ Emptied
  BY S3Assumption DEF Init, Silent, Emptied, Unreferenced, References, NoCall, MaxSwept
<1>2. Shape /\ Kept /\ Silent /\ Emptied /\ [Next]_vars => (Shape /\ Kept /\ Silent /\ Emptied)'
  BY NextShape, NextKept, NextSilent, NextEmptied
<1>3. Emptied => Reclaimed
  BY DEF Emptied, Reclaimed, MaxSwept
<1> QED BY <1>1, <1>2, <1>3, InitInv, PTL DEF Spec
=============================================================================
