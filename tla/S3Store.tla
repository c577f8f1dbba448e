------------------------------ MODULE S3Store ------------------------------
(***************************************************************************)
(* The S3 backend (s3.go) and its sweep (S3Stores.Reclaim of reclaim.go)   *)
(* for one digest:                                                         *)
(*                                                                         *)
(*   refs/<ns>/<digest>    an empty marker: the namespace holds the blob   *)
(*   blob/<digest>         the bytes                                       *)
(*   trash/<digest>        the bytes, while a sweep has put them aside     *)
(*                                                                         *)
(* There is no lock: every step is one request, atomic at the service, and *)
(* calls and one sweep interleave between requests.  The sweep relies on   *)
(* time instead -- "grace is the longest an Add may take" -- so the model  *)
(* has a clock: objects have ages, and Tick does not pass while a call     *)
(* that may take no longer holds what it found.                            *)
(***************************************************************************)
EXTENDS Naturals

CONSTANTS
    Proc,        \* callers
    Namespace,   \* stores of the bucket
    None,        \* no object
    Ops,         \* the operations callers make
    Grace,       \* Reclaim's grace, in ticks
    SweepGap,    \* ticks the host lets pass between two sweeps
    MayFail      \* requests may fail and answers be lost

ASSUME S3Assumption ==
    /\ Ops \subseteq {"Add", "Link", "Erase", "Label", "Open"}
    /\ Grace \in Nat \ {0}
    /\ SweepGap \in 0 .. Grace + 1
    /\ None \notin Nat /\ None \notin {"Add", "Link", "Erase", "Label", "Open"}
    /\ MayFail \in BOOLEAN

VARIABLES
    ref,        \* ref[n]: the marker of namespace n exists
    blob,       \* the age of blob/<digest>, or None
    trash,      \* the age of trash/<digest>, or None
    call,       \* call[p]: the call p is making
    pc,         \* pc[p]: its next request
    hold,       \* hold[p]: how long p has held what it found
    sweep,      \* the sweep's next request
    todo,       \* the namespaces its listing of refs/ has not reached
    refd,       \* the listing has shown a reference
    oldBlob,    \* blob/ was last modified more than grace before the sweep
    oldTrash,   \* trash/ was
    since,      \* ticks since the last sweep ended
    quiet,      \* nothing has referenced the digest since the sweep began
    swept,      \* complete sweeps since the digest was last referenced
    added       \* the namespaces whose marker an Add has written

objects == <<ref, blob, trash>>
callers == <<call, pc, hold>>
sweeper == <<sweep, todo, refd, oldBlob, oldTrash, since>>
history == <<quiet, swept, added>>
vars == <<objects, callers, sweeper, history>>

MaxAge == Grace + 1        \* bound: an older object is as old
MaxSwept == 3              \* bound: more sweeps are as many
Ages == 0 .. MaxAge
Calls == [op : Ops, ns : Namespace, from : Namespace]
NoCall == [op |-> None, ns |-> None, from |-> None]

Requests ==
    {"headref", "headblob", "headagain", "putblob", "putref", "putnew",
     "delref", "openblob", "opentrash"}

Sweeps ==
    {"idle", "refs", "trash", "backhead", "backcopy", "trashdel", "blobs",
     "aside", "blobdel"}

\* The variables have their types, and a process makes requests only in a call.
TypeOK ==
    /\ ref \in [Namespace -> BOOLEAN]
    /\ blob \in Ages \cup {None}
    /\ trash \in Ages \cup {None}
    /\ call \in [Proc -> Calls \cup {NoCall}]
    /\ pc \in [Proc -> Requests \cup {"idle"}]
    /\ hold \in [Proc -> 0 .. Grace]
    /\ sweep \in Sweeps
    /\ todo \in SUBSET Namespace
    /\ refd \in BOOLEAN /\ oldBlob \in BOOLEAN /\ oldTrash \in BOOLEAN
    /\ quiet \in BOOLEAN
    /\ since \in Ages
    /\ swept \in 0 .. MaxSwept
    /\ added \in SUBSET Namespace
    /\ \A p \in Proc : pc[p] # "idle" => call[p] \in Calls

Init ==
    /\ ref = [n \in Namespace |-> FALSE]
    /\ blob = None
    /\ trash = None
    /\ call = [p \in Proc |-> NoCall]
    /\ pc = [p \in Proc |-> "idle"]
    /\ hold = [p \in Proc |-> 0]
    /\ sweep = "idle"
    /\ todo = {}
    /\ refd = FALSE
    /\ oldBlob = FALSE
    /\ oldTrash = FALSE
    /\ since = MaxAge
    /\ quiet = FALSE
    /\ swept = 0
    /\ added = {}

-----------------------------------------------------------------------------
(* Calls.                                                                  *)

Goto(p, l) == pc' = [pc EXCEPT ![p] = l]

\* The call returns, with the result the comment of the step gives, or with an
\* error: an answer may be lost after its request took effect.
Return(p) ==
    /\ Goto(p, "idle")
    /\ call' = [call EXCEPT ![p] = NoCall]
    /\ hold' = [hold EXCEPT ![p] = 0]

Continue(p, l) == Goto(p, l) /\ UNCHANGED <<call, hold>>

References(o) == o \in {"Add", "Link", "Label"}    \* operations that write a marker

\* A call.
Call(p) ==
    /\ pc[p] = "idle"
    /\ \E c \in Calls :
          /\ c.op # "Link" => c.from = c.ns
          /\ call' = [call EXCEPT ![p] = c]
          /\ Goto(p, IF c.op = "Erase" THEN "delref" ELSE "headref")
          /\ quiet' = (quiet /\ ~References(c.op))
          /\ swept' = IF References(c.op) THEN 0 ELSE swept
    /\ UNCHANGED <<objects, hold, sweeper, added>>

\* The HEAD of a marker every call but Erase begins with: its own, or a
\* Link's source's.  Add returns ErrAlreadyExists when it is there, the others
\* ErrNotExist when it is not.
HeadRef(p) ==
    /\ pc[p] = "headref"
    /\ LET found == ref[call[p].from] IN
       \/ (call[p].op = "Add") = found /\ Return(p)
       \/ call[p].op = "Add" /\ ~found /\ Continue(p, "headblob")
       \/ call[p].op = "Link" /\ found /\ Continue(p, "putnew")
       \/ call[p].op = "Label" /\ found /\ Continue(p, "putref")
       \/ call[p].op = "Open" /\ found /\ Continue(p, "openblob")
    /\ UNCHANGED <<objects, sweeper, history>>

\* Add's HEAD of blob/.  When it is there, the content given is only verified,
\* and may be refused with ErrDigestMismatch.  When not, Add streams it, or
\* spools it, which may refuse it too, and looks again.
HeadBlob(p) ==
    /\ pc[p] \in {"headblob", "headagain"}
    /\ \/ blob # None /\ Continue(p, "putref")
       \/ blob = None /\ Continue(p, "putblob")
       \/ blob = None /\ pc[p] = "headblob" /\ Continue(p, "headagain")
       \/ pc[p] = "headblob" /\ Return(p)
    /\ UNCHANGED <<objects, sweeper, history>>

\* The PUT of blob/.  The service refuses a body that is not the digest's; a
\* body longer than was said is noticed only after its beginning was stored.
PutBlob(p) ==
    /\ pc[p] = "putblob"
    /\ \/ blob' = 0 /\ oldBlob' = FALSE /\ (Continue(p, "putref") \/ Return(p))
       \/ Return(p) /\ UNCHANGED <<blob, oldBlob>>
    /\ UNCHANGED <<ref, trash, sweep, todo, refd, oldTrash, since, history>>

\* putRef, by Add and by Label: over any marker there is.
PutRef(p) ==
    /\ pc[p] = "putref"
    /\ ref' = [ref EXCEPT ![call[p].ns] = TRUE]
    /\ added' = IF call[p].op = "Add" THEN added \cup {call[p].ns} ELSE added
    /\ Return(p)
    /\ UNCHANGED <<blob, trash, sweeper, quiet, swept>>

\* Link's PUT, with If-None-Match: ErrAlreadyExists when there is a marker.
PutNew(p) ==
    /\ pc[p] = "putnew"
    /\ ref' = [ref EXCEPT ![call[p].ns] = TRUE]
    /\ Return(p)
    /\ UNCHANGED <<blob, trash, sweeper, history>>

\* Erase: the DELETE of the marker, and nothing else.
Erase(p) ==
    /\ pc[p] = "delref"
    /\ ref' = [ref EXCEPT ![call[p].ns] = FALSE]
    /\ added' = added \ {call[p].ns}
    /\ Return(p)
    /\ UNCHANGED <<blob, trash, sweeper, quiet, swept>>

\* headBlob, by Open and PresignOpen: blob/, then trash/, then ErrNotExist.
OpenBlob(p) ==
    /\ pc[p] = "openblob"
    /\ IF blob # None THEN Return(p) ELSE Continue(p, "opentrash")
    /\ UNCHANGED <<objects, sweeper, history>>

OpenTrash(p) ==
    /\ pc[p] = "opentrash"
    /\ Return(p)
    /\ UNCHANGED <<objects, sweeper, history>>

\* A request fails, or the caller dies before it.
Fail(p) ==
    /\ MayFail
    /\ pc[p] \in Requests
    /\ Return(p)
    /\ UNCHANGED <<objects, sweeper, history>>

-----------------------------------------------------------------------------
(* Reclaim.                                                                *)

\* LastModified.Before(before).
Aged(age) == age # None /\ age > Grace

\* No marker, and no call that may write one.
Unreferenced ==
    /\ \A n \in Namespace : ~ref[n]
    /\ \A p \in Proc : ~References(call[p].op)

\* A sweep begins; the times it will compare with are fixed here.
SweepStart ==
    /\ sweep = "idle"
    /\ since >= SweepGap
    /\ sweep' = "refs"
    /\ todo' = Namespace
    /\ refd' = FALSE
    /\ oldBlob' = Aged(blob)
    /\ oldTrash' = Aged(trash)
    /\ quiet' = Unreferenced
    /\ UNCHANGED <<objects, callers, since, swept, added>>

\* The listing of refs/ comes to a namespace: it is paged, not a snapshot.
ListRef ==
    /\ sweep = "refs"
    /\ \E n \in todo :
          /\ refd' = (refd \/ ref[n])
          /\ todo' = todo \ {n}
    /\ sweep' = IF todo' = {} THEN "trash" ELSE "refs"
    /\ UNCHANGED <<objects, callers, oldBlob, oldTrash, since, history>>

SweepGoto(l) ==
    /\ sweep' = l
    /\ UNCHANGED <<callers, todo, refd, oldTrash, since, history>>

\* Faulty: what nothing references stays put aside.
ListTrashKeeps ==
    /\ sweep = "trash"
    /\ SweepGoto(IF oldTrash /\ refd THEN "backhead" ELSE "blobs")
    /\ UNCHANGED <<objects, oldBlob>>

\* What an earlier sweep put aside long enough ago goes, or goes back.
ListTrash ==
    /\ sweep = "trash"
    /\ SweepGoto(IF ~oldTrash THEN "blobs" ELSE IF refd THEN "backhead" ELSE "trashdel")
    /\ UNCHANGED <<objects, oldBlob>>

\* It goes back unless an Add has uploaded another.
BackHead ==
    /\ sweep = "backhead"
    /\ SweepGoto(IF blob # None THEN "trashdel" ELSE "backcopy")
    /\ UNCHANGED <<objects, oldBlob>>

\* copyObject of trash/ to blob/.
BackCopy ==
    /\ sweep = "backcopy"
    /\ SweepGoto("trashdel")
    /\ blob' = 0
    /\ oldBlob' = FALSE
    /\ UNCHANGED <<ref, trash>>

TrashDel ==
    /\ sweep = "trashdel"
    /\ SweepGoto("blobs")
    /\ trash' = None
    /\ UNCHANGED <<ref, blob, oldBlob>>

SweepEnd ==
    /\ sweep' = "idle"
    /\ since' = 0
    /\ swept' = IF quiet /\ swept < MaxSwept THEN swept + 1 ELSE swept
    /\ UNCHANGED <<callers, todo, refd, oldBlob, oldTrash, quiet, added>>

\* A blob that nothing references, and that is old enough, is put aside.
ListBlob ==
    /\ sweep = "blobs"
    /\ \/ /\ blob # None /\ oldBlob /\ ~refd
          /\ SweepGoto("aside") /\ UNCHANGED oldBlob
       \/ /\ blob = None \/ ~oldBlob \/ refd
          /\ SweepEnd
    /\ UNCHANGED objects

\* Faulty: the bytes are deleted and not put aside.
AsideSkipped ==
    /\ sweep = "aside"
    /\ SweepGoto("blobdel")
    /\ UNCHANGED <<objects, oldBlob>>

\* copyObject of blob/ to trash/.
Aside ==
    /\ sweep = "aside"
    /\ SweepGoto("blobdel")
    /\ trash' = 0
    /\ UNCHANGED <<ref, blob, oldBlob>>

BlobDel ==
    /\ sweep = "blobdel"
    /\ blob' = None
    /\ SweepEnd
    /\ UNCHANGED <<ref, trash>>

\* A request of the sweep fails and ends it.
SweepFail ==
    /\ MayFail
    /\ sweep # "idle"
    /\ sweep' = "idle"
    /\ since' = 0
    /\ UNCHANGED <<objects, callers, todo, refd, oldBlob, oldTrash, history>>

-----------------------------------------------------------------------------
Holding(p) == pc[p] \in {"putref", "putnew"}

Older(age) == IF age = None THEN None ELSE IF age < MaxAge THEN age + 1 ELSE age

\* Time passes, but no call takes longer than grace from what it found to its
\* marker.
Tick ==
    /\ \A p \in Proc : Holding(p) => hold[p] < Grace
    /\ hold' = [p \in Proc |-> IF Holding(p) THEN hold[p] + 1 ELSE hold[p]]
    /\ blob' = Older(blob)
    /\ trash' = Older(trash)
    /\ since' = Older(since)
    /\ UNCHANGED <<ref, call, pc, sweep, todo, refd, oldBlob, oldTrash, history>>

Step(p) ==
    \/ Call(p) \/ HeadRef(p) \/ HeadBlob(p) \/ PutBlob(p) \/ PutRef(p)
    \/ PutNew(p) \/ Erase(p) \/ OpenBlob(p) \/ OpenTrash(p) \/ Fail(p)

Reclaim ==
    \/ SweepStart \/ ListRef \/ ListTrash \/ BackHead \/ BackCopy \/ TrashDel
    \/ ListBlob \/ Aside \/ BlobDel \/ SweepFail

Next ==
    \/ \E p \in Proc : Step(p)
    \/ Reclaim
    \/ Tick

Spec == Init /\ [][Next]_vars

-----------------------------------------------------------------------------
(* Properties.                                                             *)

\* A marker an Add has written never outlives the bytes: they are in blob/ or,
\* while a sweep has put them aside, in trash/ -- whatever Links, Labels and
\* Erases run beside it, and wherever the listing of refs/ is.
AddsKept == added # {} => blob # None \/ trash # None

\* A blob referenced no more is gone after three complete sweeps.
Reclaimed == swept = MaxSwept => blob = None /\ trash = None

-----------------------------------------------------------------------------
(* What the documentation says and the code does not do.                   *)

\* s3.md: "the linked destination remains readable": no marker, a Link's
\* included, outlives the bytes.
NoLoss == \A n \in Namespace : ref[n] => blob # None \/ trash # None
=============================================================================
