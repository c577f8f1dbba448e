----------------------------- MODULE BlobStore -----------------------------
(***************************************************************************)
(* What a flob backend promises a caller about ONE digest, whichever       *)
(* backend it is: the contract of the Store and Linker interfaces of       *)
(* store.go.  Digests do not interact (every path, key and lock of a       *)
(* backend is derived from the digest), so one is enough.                  *)
(*                                                                         *)
(* A namespace (a Store returned by Stores.Use) either holds the blob or   *)
(* does not.  A call is pending from the moment it is made until it        *)
(* returns; its result is decided by ONE step in between, and that step    *)
(* must agree with the namespaces as they are at that moment.  A call may  *)
(* also end without a result, when the process making it dies.             *)
(*                                                                         *)
(* OsStore and MemStore are shown to implement this module.                *)
(***************************************************************************)
CONSTANTS
    Proc,        \* callers: goroutines, or processes sharing the backend
    Namespace    \* the stores of the pool

VARIABLES
    present,     \* the namespaces that hold the blob
    call         \* call[p]: the call p has pending, or Idle

vars == <<present, call>>

Results == {"ok", "exists", "notexist", "mismatch", "error"}

\* "run": nothing decided.  "pinned": a Link has seen its source, a Label its blob.
Phases == {"run", "pinned"} \cup Results

Idle == [op |-> "none"]

Calls ==
    [op : {"Add", "Link", "Erase", "Label", "Open"},
     ns : Namespace, from : Namespace, phase : Phases]

\* The shape of the state: which namespaces, which calls.
TypeOK ==
    /\ present \in SUBSET Namespace
    /\ call \in [Proc -> Calls \cup {Idle}]

Init ==
    /\ present = {}
    /\ call = [p \in Proc |-> Idle]

-----------------------------------------------------------------------------
Pending(p, ops, phases) ==
    /\ call[p] # Idle
    /\ call[p].op \in ops
    /\ call[p].phase \in phases

Decide(p, phase) == call' = [call EXCEPT ![p].phase = phase]

\* The namespace a call reads: a Link its source, any other call its own.
Reads(p) == IF call[p].op = "Link" THEN call[p].from ELSE call[p].ns

\* A caller makes a call.
Begin(p) ==
    /\ call[p] = Idle
    /\ \E c \in Calls :
          /\ c.phase = "run"
          /\ call' = [call EXCEPT ![p] = c]
    /\ UNCHANGED present

\* Link has found its source holding the blob; Label its own namespace.
Pin(p) ==
    /\ Pending(p, {"Link", "Label"}, {"run"})
    /\ Reads(p) \in present
    /\ Decide(p, "pinned")
    /\ UNCHANGED present

\* The blob appears in a namespace that does not hold it.
Put(p) ==
    /\ \/ Pending(p, {"Add"}, {"run"})
       \/ Pending(p, {"Link"}, {"pinned"})
    /\ call[p].ns \notin present
    /\ present' = present \cup {call[p].ns}
    /\ Decide(p, "ok")

\* Some Erases of a namespace take effect.  Erase is idempotent, so one step
\* may serve several of them, and it may find nothing to remove.  Calls that
\* were reading the entry may have lost it for good, whatever is put there
\* afterwards.
Remove(n) ==
    \E S \in SUBSET {p \in Proc : Pending(p, {"Erase"}, {"run"}) /\ call[p].ns = n},
       T \in SUBSET {p \in Proc : Pending(p, {"Link", "Label", "Open"}, {"run", "pinned"}) /\ Reads(p) = n} :
       /\ S # {}
       /\ present' = present \ {n}
       /\ call' = [p \in Proc |->
                     CASE p \in S -> [call[p] EXCEPT !.phase = "ok"]
                       [] p \in T -> [call[p] EXCEPT !.phase = "notexist"]
                       [] OTHER -> call[p]]

\* ErrAlreadyExists: the namespace holds the blob.  A Link reports it only
\* when its source held the blob too.
Exists(p) ==
    /\ Pending(p, {"Add"}, {"run"}) \/ Pending(p, {"Link"}, {"pinned"})
    /\ call[p].ns \in present
    /\ Decide(p, "exists")
    /\ UNCHANGED present

\* ErrNotExist: the namespace the call reads does not hold the blob.
NotExist(p) ==
    /\ Pending(p, {"Link", "Label", "Open"}, {"run", "pinned"})
    /\ Reads(p) \notin present
    /\ Decide(p, "notexist")
    /\ UNCHANGED present

\* Open finds the blob; Label succeeds on a blob it has seen.
Found(p) ==
    /\ \/ Pending(p, {"Open"}, {"run"}) /\ call[p].ns \in present
       \/ Pending(p, {"Label"}, {"pinned"})
    /\ Decide(p, "ok")
    /\ UNCHANGED present

\* The content given to Add is not the digest's: nothing is added.
Mismatch(p) ==
    /\ Pending(p, {"Add"}, {"run"})
    /\ Decide(p, "mismatch")
    /\ UNCHANGED present

\* Any other failure.  A call that adds reports one only when it added
\* nothing; an Erase may report one after its effect.
Fail(p) ==
    /\ \/ Pending(p, {"Add", "Link", "Label", "Open"}, {"run", "pinned"})
       \/ Pending(p, {"Erase"}, {"run", "ok"})
    /\ Decide(p, "error")
    /\ UNCHANGED present

\* A call ends: it returns what was decided, or its process died.
End(p) ==
    /\ call[p] # Idle
    /\ call' = [call EXCEPT ![p] = Idle]
    /\ UNCHANGED present

Next ==
    \/ \E p \in Proc :
          \/ Begin(p) \/ Pin(p) \/ Put(p) \/ Exists(p) \/ NotExist(p)
          \/ Found(p) \/ Mismatch(p) \/ Fail(p) \/ End(p)
    \/ \E n \in Namespace : Remove(n)

Spec == Init /\ [][Next]_vars
=============================================================================
