--------------------------- MODULE FillCacheProofs ---------------------------
(***************************************************************************)
(* A flight counts its callers exactly, keeps the bytes they read, and     *)
(* leaves no Read asleep: for every number of callers and every size of    *)
(* the blob, with wrong bytes, failures, seeks and cancellations.          *)
(*                                                                         *)
(* The argument goes by who changes what.  A caller's step leaves the      *)
(* other callers and every fill alone (CallerFrames), a step of fly or of  *)
(* the idle timer leaves the other flights alone and only ever wakes       *)
(* callers (FlightFrames).  What a caller has read is compared with the    *)
(* fill it follows, whose bytes only grow (Grows): so it stays right when  *)
(* fly writes on, and what fly decides about the whole blob is decided     *)
(* about every byte handed over.  The counters are compared with the sets  *)
(* of callers they count, which a step changes by one caller (Moves).      *)
(***************************************************************************)
EXTENDS FillCache, FiniteSetTheorems, SequenceTheorems, TLAPS

\* Where fly has published no fill yet, and where the fill it published is open.
BeforeFill == {"none", "start", "open", "fill"}
DuringFill == {"copy", "copied", "commit", "end", "abort"}

\* Where a caller has not joined the users of a flight, and where it has a reader.
EarlyPcs == {"idle", "join", "users"}
ReaderPcs == {"reading", "readat", "waiting", "resume", "stopped", "closing"}

\* The goroutine of flight f and its fill: there is none before its leader has joined,
\* nothing is seen of the fill before it is published, and it ends before fly does.
FlyInv(f) ==
    /\ pc[f] \in EarlyPcs => fpc[f] = "none"
    /\ fpc[f] \in BeforeFill =>
          ~ready[f] /\ ~fill[f] /\ data[f] = <<>> /\ state[f] = "nil" /\ ~ended[f]
    /\ fill[f] /\ ~ended[f] => fpc[f] \in DuringFill

\* What is written is the blob in order but for the wrong chunks, and a fill is at
\* io.EOF only if it is all of it and right.
DataInv(f) ==
    /\ Len(data[f]) <= Size
    /\ \A i \in DOMAIN data[f] : data[f][i] \in {i, Bad}
    /\ state[f] = "EOF" => Len(data[f]) = Size /\ \A i \in DOMAIN data[f] : data[f][i] = i

\* A flight is registered from its leader's join to finish.
LeadInv(f) ==
    (fpc[f] \notin {"none", "unwatch", "done"}) \/ (pc[f] = "users" /\ on[f] = f) => active = f

\* Which flight a caller is on, and whose reader it has.
CallInv(c) ==
    /\ pc[c] \in {"idle", "join"} => on[c] = None
    /\ pc[c] \notin {"idle", "join", "done"} => on[c] \in Caller
    /\ pc[c] \in ReaderPcs => fill[on[c]]
    /\ pc[c] \notin {"reading", "stopped", "closing"} => ~resumed[c]
    /\ ans[c] = "EOF" => pc[c] \in {"stopped", "closing"}

\* Where a caller is in the blob.
PosInv(c) ==
    /\ off[c] = roff[c]
    /\ base[c] + Len(got[c]) = roff[c]
    /\ pc[c] \notin ReaderPcs => got[c] = <<>>

\* What a caller has read is what the fill holds there, or the origin.
ReadInv(c) ==
    /\ \A i \in DOMAIN got[c] : got[c][i] \in {base[c] + i, Bad}
    /\ pc[c] = "readat" => upto[c] <= Len(data[on[c]])
    /\ pc[c] \in ReaderPcs /\ ~resumed[c] =>
          \A i \in DOMAIN got[c] : base[c] + i <= Len(data[on[c]]) /\ got[c][i] = data[on[c]][base[c] + i]
    /\ ans[c] = "EOF" /\ ~resumed[c] => \A i \in DOMAIN got[c] : got[c][i] # Bad
    /\ pc[c] = "waiting" /\ ~woken[c] => roff[c] >= Len(data[on[c]]) /\ state[on[c]] = "nil"

\* The counters of a flight, and its temp file.
CountInv(f) ==
    /\ n[f] = Cardinality(Joined(f))
    /\ readers[f] = Cardinality(Following(f))
    /\ timer[f] => Joined(f) = {}
    /\ released[f] <=> (ended[f] /\ Following(f) = {})

\* The inductive invariant.
FillInv ==
    /\ TypeOK
    /\ \A f \in Caller : FlyInv(f) /\ DataInv(f) /\ LeadInv(f) /\ CountInv(f)
    /\ \A c \in Caller : CallInv(c) /\ PosInv(c) /\ ReadInv(c)

\* The types of the goroutine of a flight, of its users, of its fill, and of a caller:
\* where it is, where in the blob, and what it has read.
FlightTy ==
    /\ fpc \in [Caller -> FlyLabels] /\ ready \in [Caller -> BOOLEAN] /\ fill \in [Caller -> BOOLEAN]
    /\ startErr \in [Caller -> StartErrs \cup {None}]
UserTy ==
    /\ n \in [Caller -> Nat] /\ watch \in [Caller -> BOOLEAN] /\ timer \in [Caller -> BOOLEAN]
    /\ fired \in [Caller -> BOOLEAN] /\ canceled \in [Caller -> BOOLEAN]
FillTy ==
    /\ data \in [Caller -> Seq(0 .. Size)] /\ state \in [Caller -> {"nil", "EOF"} \cup Failures]
    /\ ended \in [Caller -> BOOLEAN] /\ released \in [Caller -> BOOLEAN] /\ readers \in [Caller -> Nat]
CallTy ==
    /\ pc \in [Caller -> Labels] /\ ctx \in [Caller -> BOOLEAN] /\ on \in [Caller -> Caller \cup {None}]
    /\ ans \in [Caller -> StartErrs \cup Failures \cup {None, "primary", "origin", "EOF"}]
PosTy == off \in [Caller -> 0 .. Size] /\ roff \in [Caller -> 0 .. Size] /\ base \in [Caller -> 0 .. Size]
ReadTy ==
    /\ upto \in [Caller -> 0 .. Size] /\ woken \in [Caller -> BOOLEAN] /\ resumed \in [Caller -> BOOLEAN]
    /\ got \in [Caller -> Seq(0 .. Size)]

\* All of them together.
Types == primary \in BOOLEAN /\ active \in Caller \cup {None} /\ FlightTy /\ UserTy /\ FillTy /\ CallTy /\ PosTy /\ ReadTy

\* The type invariant is the conjunction of the groups.
LEMMA TypeGroups == TypeOK <=> Types
  BY DEF TypeOK, Types, FlightTy, UserTy, FillTy, CallTy, PosTy, ReadTy

\* A step of caller d, and one of the goroutine or the timer of flight f.
CallerStep(d) == Opening(d) \/ Reading(d) \/ Seek(d) \/ Close(d) \/ Cancel(d)
FlightStep(f) == Copying(f) \/ Flying(f)

\* A step that leaves what caller c knows and has read alone.
CallerSame(c) ==
    /\ pc'[c] = pc[c] /\ on'[c] = on[c] /\ ans'[c] = ans[c]
    /\ off'[c] = off[c] /\ roff'[c] = roff[c] /\ base'[c] = base[c] /\ got'[c] = got[c]
    /\ upto'[c] = upto[c] /\ (woken'[c] <=> woken[c]) /\ (resumed'[c] <=> resumed[c])

\* What a step of caller d leaves alone: the other callers, and every fill.
CallerFrame(d) ==
    /\ UNCHANGED <<primary, ready, fill, startErr, watch, fired, canceled, data, state, ended>>
    /\ \A c \in Caller \ {d} : CallerSame(c) /\ fpc'[c] = fpc[c]
    /\ fpc' \in [Caller -> FlyLabels]
    /\ fpc'[d] = fpc[d] \/ (fpc'[d] = "start" /\ pc[d] = "users" /\ on[d] = d /\ pc'[d] = "wait")
    /\ pc'[d] \in EarlyPcs => pc[d] \in EarlyPcs /\ fpc'[d] = fpc[d]
    /\ Join(d) \/ (active' = active /\ (pc'[d] = "users" => pc[d] = "users" /\ on'[d] = on[d]))

\* Every step of a caller is of that kind.
LEMMA CallerFrames ==
    ASSUME TypeOK, NEW d \in Caller, CallerStep(d)
    PROVE  CallerFrame(d)
<1> USE DEF flightVars, userVars, fillVars, readVars, callVars, EarlyPcs
<1>0. Types
  BY TypeGroups
<1>1. CASE Open(d)
  <2>1. UNCHANGED <<primary, ready, fill, startErr, watch, fired, canceled, data, state, ended>>
    BY <1>1 DEF Open, Answer, Goto
  <2>2. ASSUME NEW c \in Caller \ {d} PROVE CallerSame(c)
    BY <1>0, <1>1 DEF Open, Answer, Goto, CallerSame, Types, CallTy, PosTy, ReadTy
  <2>3. /\ (\A c \in Caller \ {d} : fpc'[c] = fpc[c]) /\ fpc' \in [Caller -> FlyLabels]
        /\ fpc'[d] = fpc[d] \/ (fpc'[d] = "start" /\ pc[d] = "users" /\ on[d] = d /\ pc'[d] = "wait")
    BY <1>0, <1>1 DEF Open, Answer, Goto, Types, FlightTy
  <2>4. pc'[d] \in EarlyPcs => pc[d] \in EarlyPcs /\ fpc'[d] = fpc[d]
    BY <1>0, <1>1 DEF Open, Answer, Goto, Types, CallTy
  <2>5. Join(d) \/ (active' = active /\ (pc'[d] = "users" => pc[d] = "users" /\ on'[d] = on[d]))
    BY <1>0, <1>1 DEF Open, Answer, Goto, Types, CallTy
  <2> QED BY <2>1, <2>2, <2>3, <2>4, <2>5 DEF CallerFrame
<1>2. CASE Join(d)
  <2>1. UNCHANGED <<primary, ready, fill, startErr, watch, fired, canceled, data, state, ended>>
    BY <1>2 DEF Join, Goto
  <2>2. ASSUME NEW c \in Caller \ {d} PROVE CallerSame(c)
    BY <1>0, <1>2 DEF Join, Goto, CallerSame, Types, CallTy, PosTy, ReadTy
  <2>3. /\ (\A c \in Caller \ {d} : fpc'[c] = fpc[c]) /\ fpc' \in [Caller -> FlyLabels]
        /\ fpc'[d] = fpc[d] \/ (fpc'[d] = "start" /\ pc[d] = "users" /\ on[d] = d /\ pc'[d] = "wait")
    BY <1>0, <1>2 DEF Join, Goto, Types, FlightTy
  <2>4. pc'[d] \in EarlyPcs => pc[d] \in EarlyPcs /\ fpc'[d] = fpc[d]
    BY <1>0, <1>2 DEF Join, Goto, Types, CallTy
  <2>5. Join(d) \/ (active' = active /\ (pc'[d] = "users" => pc[d] = "users" /\ on'[d] = on[d]))
    BY <1>0, <1>2 DEF Join, Goto, Types, CallTy
  <2> QED BY <2>1, <2>2, <2>3, <2>4, <2>5 DEF CallerFrame
<1>3. CASE UsersJoin(d)
  <2>1. UNCHANGED <<primary, ready, fill, startErr, watch, fired, canceled, data, state, ended>>
    BY <1>3 DEF UsersJoin, join, Goto
  <2>2. ASSUME NEW c \in Caller \ {d} PROVE CallerSame(c)
    BY <1>0, <1>3 DEF UsersJoin, join, Goto, CallerSame, Types, CallTy, PosTy, ReadTy
  <2>3. /\ (\A c \in Caller \ {d} : fpc'[c] = fpc[c]) /\ fpc' \in [Caller -> FlyLabels]
        /\ fpc'[d] = fpc[d] \/ (fpc'[d] = "start" /\ pc[d] = "users" /\ on[d] = d /\ pc'[d] = "wait")
    BY <1>0, <1>3 DEF UsersJoin, join, Goto, Types, FlightTy, CallTy, FlyLabels
  <2>4. pc'[d] \in EarlyPcs => pc[d] \in EarlyPcs /\ fpc'[d] = fpc[d]
    BY <1>0, <1>3 DEF UsersJoin, join, Goto, Types, CallTy
  <2>5. Join(d) \/ (active' = active /\ (pc'[d] = "users" => pc[d] = "users" /\ on'[d] = on[d]))
    BY <1>0, <1>3 DEF UsersJoin, join, Goto, Types, CallTy
  <2> QED BY <2>1, <2>2, <2>3, <2>4, <2>5 DEF CallerFrame
<1>4. CASE Waited(d)
  <2>1. UNCHANGED <<primary, ready, fill, startErr, watch, fired, canceled, data, state, ended>>
    BY <1>4 DEF Waited, leave, Answer, Goto
  <2>2. ASSUME NEW c \in Caller \ {d} PROVE CallerSame(c)
    BY <1>0, <1>4 DEF Waited, leave, Answer, Goto, CallerSame, Types, CallTy, PosTy, ReadTy
  <2>3. /\ (\A c \in Caller \ {d} : fpc'[c] = fpc[c]) /\ fpc' \in [Caller -> FlyLabels]
        /\ fpc'[d] = fpc[d] \/ (fpc'[d] = "start" /\ pc[d] = "users" /\ on[d] = d /\ pc'[d] = "wait")
    BY <1>0, <1>4 DEF Waited, leave, Answer, Goto, Types, FlightTy
  <2>4. pc'[d] \in EarlyPcs => pc[d] \in EarlyPcs /\ fpc'[d] = fpc[d]
    BY <1>0, <1>4 DEF Waited, leave, Answer, Goto, Types, CallTy
  <2>5. Join(d) \/ (active' = active /\ (pc'[d] = "users" => pc[d] = "users" /\ on'[d] = on[d]))
    BY <1>0, <1>4 DEF Waited, leave, Answer, Goto, Types, CallTy
  <2> QED BY <2>1, <2>2, <2>3, <2>4, <2>5 DEF CallerFrame
<1>5. CASE LeaveFlight(d)
  <2>1. UNCHANGED <<primary, ready, fill, startErr, watch, fired, canceled, data, state, ended>>
    BY <1>5 DEF LeaveFlight, leave, Answer, Goto
  <2>2. ASSUME NEW c \in Caller \ {d} PROVE CallerSame(c)
    BY <1>0, <1>5 DEF LeaveFlight, leave, Answer, Goto, CallerSame, Types, CallTy, PosTy, ReadTy
  <2>3. /\ (\A c \in Caller \ {d} : fpc'[c] = fpc[c]) /\ fpc' \in [Caller -> FlyLabels]
        /\ fpc'[d] = fpc[d] \/ (fpc'[d] = "start" /\ pc[d] = "users" /\ on[d] = d /\ pc'[d] = "wait")
    BY <1>0, <1>5 DEF LeaveFlight, leave, Answer, Goto, Types, FlightTy
  <2>4. pc'[d] \in EarlyPcs => pc[d] \in EarlyPcs /\ fpc'[d] = fpc[d]
    BY <1>0, <1>5 DEF LeaveFlight, leave, Answer, Goto, Types, CallTy
  <2>5. Join(d) \/ (active' = active /\ (pc'[d] = "users" => pc[d] = "users" /\ on'[d] = on[d]))
    BY <1>0, <1>5 DEF LeaveFlight, leave, Answer, Goto, Types, CallTy
  <2> QED BY <2>1, <2>2, <2>3, <2>4, <2>5 DEF CallerFrame
<1>6. CASE Reopen(d)
  <2>1. UNCHANGED <<primary, ready, fill, startErr, watch, fired, canceled, data, state, ended>>
    BY <1>6 DEF Reopen, Answer, Goto
  <2>2. ASSUME NEW c \in Caller \ {d} PROVE CallerSame(c)
    BY <1>0, <1>6 DEF Reopen, Answer, Goto, CallerSame, Types, CallTy, PosTy, ReadTy
  <2>3. /\ (\A c \in Caller \ {d} : fpc'[c] = fpc[c]) /\ fpc' \in [Caller -> FlyLabels]
        /\ fpc'[d] = fpc[d] \/ (fpc'[d] = "start" /\ pc[d] = "users" /\ on[d] = d /\ pc'[d] = "wait")
    BY <1>0, <1>6 DEF Reopen, Answer, Goto, Types, FlightTy
  <2>4. pc'[d] \in EarlyPcs => pc[d] \in EarlyPcs /\ fpc'[d] = fpc[d]
    BY <1>0, <1>6 DEF Reopen, Answer, Goto, Types, CallTy
  <2>5. Join(d) \/ (active' = active /\ (pc'[d] = "users" => pc[d] = "users" /\ on'[d] = on[d]))
    BY <1>0, <1>6 DEF Reopen, Answer, Goto, Types, CallTy
  <2> QED BY <2>1, <2>2, <2>3, <2>4, <2>5 DEF CallerFrame
<1>7. CASE Leave(d)
  <2>1. UNCHANGED <<primary, ready, fill, startErr, watch, fired, canceled, data, state, ended>>
    BY <1>7 DEF Leave, leave, Answer, Goto
  <2>2. ASSUME NEW c \in Caller \ {d} PROVE CallerSame(c)
    BY <1>0, <1>7 DEF Leave, leave, Answer, Goto, CallerSame, Types, CallTy, PosTy, ReadTy
  <2>3. /\ (\A c \in Caller \ {d} : fpc'[c] = fpc[c]) /\ fpc' \in [Caller -> FlyLabels]
        /\ fpc'[d] = fpc[d] \/ (fpc'[d] = "start" /\ pc[d] = "users" /\ on[d] = d /\ pc'[d] = "wait")
    BY <1>0, <1>7 DEF Leave, leave, Answer, Goto, Types, FlightTy
  <2>4. pc'[d] \in EarlyPcs => pc[d] \in EarlyPcs /\ fpc'[d] = fpc[d]
    BY <1>0, <1>7 DEF Leave, leave, Answer, Goto, Types, CallTy
  <2>5. Join(d) \/ (active' = active /\ (pc'[d] = "users" => pc[d] = "users" /\ on'[d] = on[d]))
    BY <1>0, <1>7 DEF Leave, leave, Answer, Goto, Types, CallTy
  <2> QED BY <2>1, <2>2, <2>3, <2>4, <2>5 DEF CallerFrame
<1>8. CASE Read(d)
  <2>1. UNCHANGED <<primary, ready, fill, startErr, watch, fired, canceled, data, state, ended>>
    BY <1>8 DEF Read, Failed, Answer, Goto
  <2>2. ASSUME NEW c \in Caller \ {d} PROVE CallerSame(c)
    BY <1>0, <1>8 DEF Read, Failed, Answer, Goto, CallerSame, Types, CallTy, PosTy, ReadTy
  <2>3. /\ (\A c \in Caller \ {d} : fpc'[c] = fpc[c]) /\ fpc' \in [Caller -> FlyLabels]
        /\ fpc'[d] = fpc[d] \/ (fpc'[d] = "start" /\ pc[d] = "users" /\ on[d] = d /\ pc'[d] = "wait")
    BY <1>0, <1>8 DEF Read, Failed, Answer, Goto, Types, FlightTy
  <2>4. pc'[d] \in EarlyPcs => pc[d] \in EarlyPcs /\ fpc'[d] = fpc[d]
    BY <1>0, <1>8 DEF Read, Failed, Answer, Goto, Types, CallTy
  <2>5. Join(d) \/ (active' = active /\ (pc'[d] = "users" => pc[d] = "users" /\ on'[d] = on[d]))
    BY <1>0, <1>8 DEF Read, Failed, Answer, Goto, Types, CallTy
  <2> QED BY <2>1, <2>2, <2>3, <2>4, <2>5 DEF CallerFrame
<1>9. CASE ReadAt(d)
  <2>1. UNCHANGED <<primary, ready, fill, startErr, watch, fired, canceled, data, state, ended>>
    BY <1>9 DEF ReadAt, Deliver, Failed, Answer, Goto
  <2>2. ASSUME NEW c \in Caller \ {d} PROVE CallerSame(c)
    BY <1>0, <1>9 DEF ReadAt, Deliver, Failed, Answer, Goto, CallerSame, Types, CallTy, PosTy,
       ReadTy
  <2>3. /\ (\A c \in Caller \ {d} : fpc'[c] = fpc[c]) /\ fpc' \in [Caller -> FlyLabels]
        /\ fpc'[d] = fpc[d] \/ (fpc'[d] = "start" /\ pc[d] = "users" /\ on[d] = d /\ pc'[d] = "wait")
    BY <1>0, <1>9 DEF ReadAt, Deliver, Failed, Answer, Goto, Types, FlightTy
  <2>4. pc'[d] \in EarlyPcs => pc[d] \in EarlyPcs /\ fpc'[d] = fpc[d]
    BY <1>0, <1>9 DEF ReadAt, Deliver, Failed, Answer, Goto, Types, CallTy
  <2>5. Join(d) \/ (active' = active /\ (pc'[d] = "users" => pc[d] = "users" /\ on'[d] = on[d]))
    BY <1>0, <1>9 DEF ReadAt, Deliver, Failed, Answer, Goto, Types, CallTy
  <2> QED BY <2>1, <2>2, <2>3, <2>4, <2>5 DEF CallerFrame
<1>10. CASE Wake(d)
  <2>1. UNCHANGED <<primary, ready, fill, startErr, watch, fired, canceled, data, state, ended>>
    BY <1>10 DEF Wake, Answer, Goto
  <2>2. ASSUME NEW c \in Caller \ {d} PROVE CallerSame(c)
    BY <1>0, <1>10 DEF Wake, Answer, Goto, CallerSame, Types, CallTy, PosTy, ReadTy
  <2>3. /\ (\A c \in Caller \ {d} : fpc'[c] = fpc[c]) /\ fpc' \in [Caller -> FlyLabels]
        /\ fpc'[d] = fpc[d] \/ (fpc'[d] = "start" /\ pc[d] = "users" /\ on[d] = d /\ pc'[d] = "wait")
    BY <1>0, <1>10 DEF Wake, Answer, Goto, Types, FlightTy
  <2>4. pc'[d] \in EarlyPcs => pc[d] \in EarlyPcs /\ fpc'[d] = fpc[d]
    BY <1>0, <1>10 DEF Wake, Answer, Goto, Types, CallTy
  <2>5. Join(d) \/ (active' = active /\ (pc'[d] = "users" => pc[d] = "users" /\ on'[d] = on[d]))
    BY <1>0, <1>10 DEF Wake, Answer, Goto, Types, CallTy
  <2> QED BY <2>1, <2>2, <2>3, <2>4, <2>5 DEF CallerFrame
<1>11. CASE Resume(d)
  <2>1. UNCHANGED <<primary, ready, fill, startErr, watch, fired, canceled, data, state, ended>>
    BY <1>11 DEF Resume, closeReader, Answer, Goto
  <2>2. ASSUME NEW c \in Caller \ {d} PROVE CallerSame(c)
    BY <1>0, <1>11 DEF Resume, closeReader, Answer, Goto, CallerSame, Types, CallTy, PosTy, ReadTy
  <2>3. /\ (\A c \in Caller \ {d} : fpc'[c] = fpc[c]) /\ fpc' \in [Caller -> FlyLabels]
        /\ fpc'[d] = fpc[d] \/ (fpc'[d] = "start" /\ pc[d] = "users" /\ on[d] = d /\ pc'[d] = "wait")
    BY <1>0, <1>11 DEF Resume, closeReader, Answer, Goto, Types, FlightTy
  <2>4. pc'[d] \in EarlyPcs => pc[d] \in EarlyPcs /\ fpc'[d] = fpc[d]
    BY <1>0, <1>11 DEF Resume, closeReader, Answer, Goto, Types, CallTy
  <2>5. Join(d) \/ (active' = active /\ (pc'[d] = "users" => pc[d] = "users" /\ on'[d] = on[d]))
    BY <1>0, <1>11 DEF Resume, closeReader, Answer, Goto, Types, CallTy
  <2> QED BY <2>1, <2>2, <2>3, <2>4, <2>5 DEF CallerFrame
<1>12. CASE ReadOrigin(d)
  <2>1. UNCHANGED <<primary, ready, fill, startErr, watch, fired, canceled, data, state, ended>>
    BY <1>12 DEF ReadOrigin, Deliver, Failed, Answer, Goto
  <2>2. ASSUME NEW c \in Caller \ {d} PROVE CallerSame(c)
    BY <1>0, <1>12 DEF ReadOrigin, Deliver, Failed, Answer, Goto, CallerSame, Types, CallTy,
       PosTy, ReadTy
  <2>3. /\ (\A c \in Caller \ {d} : fpc'[c] = fpc[c]) /\ fpc' \in [Caller -> FlyLabels]
        /\ fpc'[d] = fpc[d] \/ (fpc'[d] = "start" /\ pc[d] = "users" /\ on[d] = d /\ pc'[d] = "wait")
    BY <1>0, <1>12 DEF ReadOrigin, Deliver, Failed, Answer, Goto, Types, FlightTy
  <2>4. pc'[d] \in EarlyPcs => pc[d] \in EarlyPcs /\ fpc'[d] = fpc[d]
    BY <1>0, <1>12 DEF ReadOrigin, Deliver, Failed, Answer, Goto, Types, CallTy
  <2>5. Join(d) \/ (active' = active /\ (pc'[d] = "users" => pc[d] = "users" /\ on'[d] = on[d]))
    BY <1>0, <1>12 DEF ReadOrigin, Deliver, Failed, Answer, Goto, Types, CallTy
  <2> QED BY <2>1, <2>2, <2>3, <2>4, <2>5 DEF CallerFrame
<1>13. CASE Seek(d)
  <2>1. UNCHANGED <<primary, ready, fill, startErr, watch, fired, canceled, data, state, ended>>
    BY <1>13 DEF Seek, Answer, Goto
  <2>2. ASSUME NEW c \in Caller \ {d} PROVE CallerSame(c)
    BY <1>0, <1>13 DEF Seek, Answer, Goto, CallerSame, Types, CallTy, PosTy, ReadTy
  <2>3. /\ (\A c \in Caller \ {d} : fpc'[c] = fpc[c]) /\ fpc' \in [Caller -> FlyLabels]
        /\ fpc'[d] = fpc[d] \/ (fpc'[d] = "start" /\ pc[d] = "users" /\ on[d] = d /\ pc'[d] = "wait")
    BY <1>0, <1>13 DEF Seek, Answer, Goto, Types, FlightTy
  <2>4. pc'[d] \in EarlyPcs => pc[d] \in EarlyPcs /\ fpc'[d] = fpc[d]
    BY <1>0, <1>13 DEF Seek, Answer, Goto, Types, CallTy
  <2>5. Join(d) \/ (active' = active /\ (pc'[d] = "users" => pc[d] = "users" /\ on'[d] = on[d]))
    BY <1>0, <1>13 DEF Seek, Answer, Goto, Types, CallTy
  <2> QED BY <2>1, <2>2, <2>3, <2>4, <2>5 DEF CallerFrame
<1>14. CASE Close(d)
  <2>1. UNCHANGED <<primary, ready, fill, startErr, watch, fired, canceled, data, state, ended>>
    BY <1>14 DEF Close, closeReader, Goto
  <2>2. ASSUME NEW c \in Caller \ {d} PROVE CallerSame(c)
    BY <1>0, <1>14 DEF Close, closeReader, Goto, CallerSame, Types, CallTy, PosTy, ReadTy
  <2>3. /\ (\A c \in Caller \ {d} : fpc'[c] = fpc[c]) /\ fpc' \in [Caller -> FlyLabels]
        /\ fpc'[d] = fpc[d] \/ (fpc'[d] = "start" /\ pc[d] = "users" /\ on[d] = d /\ pc'[d] = "wait")
    BY <1>0, <1>14 DEF Close, closeReader, Goto, Types, FlightTy
  <2>4. pc'[d] \in EarlyPcs => pc[d] \in EarlyPcs /\ fpc'[d] = fpc[d]
    BY <1>0, <1>14 DEF Close, closeReader, Goto, Types, CallTy
  <2>5. Join(d) \/ (active' = active /\ (pc'[d] = "users" => pc[d] = "users" /\ on'[d] = on[d]))
    BY <1>0, <1>14 DEF Close, closeReader, Goto, Types, CallTy
  <2> QED BY <2>1, <2>2, <2>3, <2>4, <2>5 DEF CallerFrame
<1>15. CASE Cancel(d)
  <2>1. UNCHANGED <<primary, ready, fill, startErr, watch, fired, canceled, data, state, ended>>
    BY <1>15 DEF Cancel
  <2>2. ASSUME NEW c \in Caller \ {d} PROVE CallerSame(c)
    BY <1>0, <1>15 DEF Cancel, CallerSame, Types, CallTy, PosTy, ReadTy
  <2>3. /\ (\A c \in Caller \ {d} : fpc'[c] = fpc[c]) /\ fpc' \in [Caller -> FlyLabels]
        /\ fpc'[d] = fpc[d] \/ (fpc'[d] = "start" /\ pc[d] = "users" /\ on[d] = d /\ pc'[d] = "wait")
    BY <1>0, <1>15 DEF Cancel, Types, FlightTy
  <2>4. pc'[d] \in EarlyPcs => pc[d] \in EarlyPcs /\ fpc'[d] = fpc[d]
    BY <1>0, <1>15 DEF Cancel, Types, CallTy
  <2>5. Join(d) \/ (active' = active /\ (pc'[d] = "users" => pc[d] = "users" /\ on'[d] = on[d]))
    BY <1>0, <1>15 DEF Cancel, Types, CallTy
  <2> QED BY <2>1, <2>2, <2>3, <2>4, <2>5 DEF CallerFrame
<1> QED BY <1>1, <1>2, <1>3, <1>4, <1>5, <1>6, <1>7, <1>8, <1>9, <1>10, <1>11, <1>12, <1>13,
           <1>14, <1>15 DEF CallerStep, Opening, Reading

\* What a step of flight f leaves alone: the callers, but that they are woken, and
\* the other flights.
FlightFrame(f) ==
    /\ UNCHANGED <<callVars, off, roff, upto, resumed, base, got, readers, n>>
    /\ \A g \in Caller \ {f} :
          /\ fpc'[g] = fpc[g] /\ (ready'[g] <=> ready[g]) /\ (fill'[g] <=> fill[g]) /\ data'[g] = data[g]
          /\ state'[g] = state[g] /\ (ended'[g] <=> ended[g]) /\ (released'[g] <=> released[g]) /\ (timer'[g] <=> timer[g])
    /\ \A c \in Caller : woken[c] => woken'[c]
    /\ fill[f] => fill'[f]

\* Every step of a flight is of that kind.
LEMMA FlightFrames ==
    ASSUME TypeOK, NEW f \in Caller, FlightStep(f)
    PROVE  FlightFrame(f)
<1> USE DEF flightVars, userVars, fillVars, readVars, callVars
<1>0. Types
  BY TypeGroups
<1>1. CASE FlyOpen(f)
  <2>1. UNCHANGED <<callVars, off, roff, upto, resumed, base, got, readers, n>>
    BY <1>1 DEF FlyOpen, FlyGoto
  <2>2. ASSUME NEW g \in Caller \ {f}
        PROVE  /\ fpc'[g] = fpc[g] /\ (ready'[g] <=> ready[g]) /\ (fill'[g] <=> fill[g]) /\ data'[g] = data[g]
               /\ state'[g] = state[g] /\ (ended'[g] <=> ended[g]) /\ (released'[g] <=> released[g]) /\ (timer'[g] <=> timer[g])
    BY <1>0, <1>1 DEF FlyOpen, FlyGoto, Types, FlightTy, FillTy, UserTy
  <2>3. \A c \in Caller : woken[c] => woken'[c]
    BY <1>0, <1>1 DEF FlyOpen, FlyGoto, Types, ReadTy
  <2>4. fill[f] => fill'[f]
    BY <1>0, <1>1 DEF FlyOpen, FlyGoto, Types, FlightTy
  <2> QED BY <2>1, <2>2, <2>3, <2>4 DEF FlightFrame
<1>2. CASE FlyCopy(f)
  <2>1. UNCHANGED <<callVars, off, roff, upto, resumed, base, got, readers, n>>
    BY <1>2 DEF FlyCopy, write, notify, FlyGoto
  <2>2. ASSUME NEW g \in Caller \ {f}
        PROVE  /\ fpc'[g] = fpc[g] /\ (ready'[g] <=> ready[g]) /\ (fill'[g] <=> fill[g]) /\ data'[g] = data[g]
               /\ state'[g] = state[g] /\ (ended'[g] <=> ended[g]) /\ (released'[g] <=> released[g]) /\ (timer'[g] <=> timer[g])
    BY <1>0, <1>2 DEF FlyCopy, write, notify, FlyGoto, Types, FlightTy, FillTy, UserTy
  <2>3. \A c \in Caller : woken[c] => woken'[c]
    BY <1>0, <1>2 DEF FlyCopy, write, notify, FlyGoto, Types, ReadTy
  <2>4. fill[f] => fill'[f]
    BY <1>0, <1>2 DEF FlyCopy, write, notify, FlyGoto, Types, FlightTy
  <2> QED BY <2>1, <2>2, <2>3, <2>4 DEF FlightFrame
<1>3. CASE FlyStart(f)
  <2>1. UNCHANGED <<callVars, off, roff, upto, resumed, base, got, readers, n>>
    BY <1>3 DEF FlyStart, FlyGoto
  <2>2. ASSUME NEW g \in Caller \ {f}
        PROVE  /\ fpc'[g] = fpc[g] /\ (ready'[g] <=> ready[g]) /\ (fill'[g] <=> fill[g]) /\ data'[g] = data[g]
               /\ state'[g] = state[g] /\ (ended'[g] <=> ended[g]) /\ (released'[g] <=> released[g]) /\ (timer'[g] <=> timer[g])
    BY <1>0, <1>3 DEF FlyStart, FlyGoto, Types, FlightTy, FillTy, UserTy
  <2>3. \A c \in Caller : woken[c] => woken'[c]
    BY <1>0, <1>3 DEF FlyStart, FlyGoto, Types, ReadTy
  <2>4. fill[f] => fill'[f]
    BY <1>0, <1>3 DEF FlyStart, FlyGoto, Types, FlightTy
  <2> QED BY <2>1, <2>2, <2>3, <2>4 DEF FlightFrame
<1>4. CASE FlyFill(f)
  <2>1. UNCHANGED <<callVars, off, roff, upto, resumed, base, got, readers, n>>
    BY <1>4 DEF FlyFill, FlyGoto
  <2>2. ASSUME NEW g \in Caller \ {f}
        PROVE  /\ fpc'[g] = fpc[g] /\ (ready'[g] <=> ready[g]) /\ (fill'[g] <=> fill[g]) /\ data'[g] = data[g]
               /\ state'[g] = state[g] /\ (ended'[g] <=> ended[g]) /\ (released'[g] <=> released[g]) /\ (timer'[g] <=> timer[g])
    BY <1>0, <1>4 DEF FlyFill, FlyGoto, Types, FlightTy, FillTy, UserTy
  <2>3. \A c \in Caller : woken[c] => woken'[c]
    BY <1>0, <1>4 DEF FlyFill, FlyGoto, Types, ReadTy
  <2>4. fill[f] => fill'[f]
    BY <1>0, <1>4 DEF FlyFill, FlyGoto, Types, FlightTy
  <2> QED BY <2>1, <2>2, <2>3, <2>4 DEF FlightFrame
<1>5. CASE FlyCopied(f)
  <2>1. UNCHANGED <<callVars, off, roff, upto, resumed, base, got, readers, n>>
    BY <1>5 DEF FlyCopied, FlyGoto
  <2>2. ASSUME NEW g \in Caller \ {f}
        PROVE  /\ fpc'[g] = fpc[g] /\ (ready'[g] <=> ready[g]) /\ (fill'[g] <=> fill[g]) /\ data'[g] = data[g]
               /\ state'[g] = state[g] /\ (ended'[g] <=> ended[g]) /\ (released'[g] <=> released[g]) /\ (timer'[g] <=> timer[g])
    BY <1>0, <1>5 DEF FlyCopied, FlyGoto, Types, FlightTy, FillTy, UserTy
  <2>3. \A c \in Caller : woken[c] => woken'[c]
    BY <1>0, <1>5 DEF FlyCopied, FlyGoto, Types, ReadTy
  <2>4. fill[f] => fill'[f]
    BY <1>0, <1>5 DEF FlyCopied, FlyGoto, Types, FlightTy
  <2> QED BY <2>1, <2>2, <2>3, <2>4 DEF FlightFrame
<1>6. CASE FlyCommit(f)
  <2>1. UNCHANGED <<callVars, off, roff, upto, resumed, base, got, readers, n>>
    BY <1>6 DEF FlyCommit, FlyGoto
  <2>2. ASSUME NEW g \in Caller \ {f}
        PROVE  /\ fpc'[g] = fpc[g] /\ (ready'[g] <=> ready[g]) /\ (fill'[g] <=> fill[g]) /\ data'[g] = data[g]
               /\ state'[g] = state[g] /\ (ended'[g] <=> ended[g]) /\ (released'[g] <=> released[g]) /\ (timer'[g] <=> timer[g])
    BY <1>0, <1>6 DEF FlyCommit, FlyGoto, Types, FlightTy, FillTy, UserTy
  <2>3. \A c \in Caller : woken[c] => woken'[c]
    BY <1>0, <1>6 DEF FlyCommit, FlyGoto, Types, ReadTy
  <2>4. fill[f] => fill'[f]
    BY <1>0, <1>6 DEF FlyCommit, FlyGoto, Types, FlightTy
  <2> QED BY <2>1, <2>2, <2>3, <2>4 DEF FlightFrame
<1>7. CASE FlyEnd(f)
  <2>1. UNCHANGED <<callVars, off, roff, upto, resumed, base, got, readers, n>>
    BY <1>7 DEF FlyEnd, end, maybeRelease, FlyGoto
  <2>2. ASSUME NEW g \in Caller \ {f}
        PROVE  /\ fpc'[g] = fpc[g] /\ (ready'[g] <=> ready[g]) /\ (fill'[g] <=> fill[g]) /\ data'[g] = data[g]
               /\ state'[g] = state[g] /\ (ended'[g] <=> ended[g]) /\ (released'[g] <=> released[g]) /\ (timer'[g] <=> timer[g])
    BY <1>0, <1>7 DEF FlyEnd, end, maybeRelease, FlyGoto, Types, FlightTy, FillTy, UserTy
  <2>3. \A c \in Caller : woken[c] => woken'[c]
    BY <1>0, <1>7 DEF FlyEnd, end, maybeRelease, FlyGoto, Types, ReadTy
  <2>4. fill[f] => fill'[f]
    BY <1>0, <1>7 DEF FlyEnd, end, maybeRelease, FlyGoto, Types, FlightTy
  <2> QED BY <2>1, <2>2, <2>3, <2>4 DEF FlightFrame
<1>8. CASE FlyAbort(f)
  <2>1. UNCHANGED <<callVars, off, roff, upto, resumed, base, got, readers, n>>
    BY <1>8 DEF FlyAbort, abort, notify, maybeRelease, FlyGoto
  <2>2. ASSUME NEW g \in Caller \ {f}
        PROVE  /\ fpc'[g] = fpc[g] /\ (ready'[g] <=> ready[g]) /\ (fill'[g] <=> fill[g]) /\ data'[g] = data[g]
               /\ state'[g] = state[g] /\ (ended'[g] <=> ended[g]) /\ (released'[g] <=> released[g]) /\ (timer'[g] <=> timer[g])
    BY <1>0, <1>8 DEF FlyAbort, abort, notify, maybeRelease, FlyGoto, Types, FlightTy, FillTy,
       UserTy
  <2>3. \A c \in Caller : woken[c] => woken'[c]
    BY <1>0, <1>8 DEF FlyAbort, abort, notify, maybeRelease, FlyGoto, Types, ReadTy
  <2>4. fill[f] => fill'[f]
    BY <1>0, <1>8 DEF FlyAbort, abort, notify, maybeRelease, FlyGoto, Types, FlightTy
  <2> QED BY <2>1, <2>2, <2>3, <2>4 DEF FlightFrame
<1>9. CASE FlyReady(f)
  <2>1. UNCHANGED <<callVars, off, roff, upto, resumed, base, got, readers, n>>
    BY <1>9 DEF FlyReady, FlyGoto
  <2>2. ASSUME NEW g \in Caller \ {f}
        PROVE  /\ fpc'[g] = fpc[g] /\ (ready'[g] <=> ready[g]) /\ (fill'[g] <=> fill[g]) /\ data'[g] = data[g]
               /\ state'[g] = state[g] /\ (ended'[g] <=> ended[g]) /\ (released'[g] <=> released[g]) /\ (timer'[g] <=> timer[g])
    BY <1>0, <1>9 DEF FlyReady, FlyGoto, Types, FlightTy, FillTy, UserTy
  <2>3. \A c \in Caller : woken[c] => woken'[c]
    BY <1>0, <1>9 DEF FlyReady, FlyGoto, Types, ReadTy
  <2>4. fill[f] => fill'[f]
    BY <1>0, <1>9 DEF FlyReady, FlyGoto, Types, FlightTy
  <2> QED BY <2>1, <2>2, <2>3, <2>4 DEF FlightFrame
<1>10. CASE FlyFinish(f)
  <2>1. UNCHANGED <<callVars, off, roff, upto, resumed, base, got, readers, n>>
    BY <1>10 DEF FlyFinish, FlyGoto
  <2>2. ASSUME NEW g \in Caller \ {f}
        PROVE  /\ fpc'[g] = fpc[g] /\ (ready'[g] <=> ready[g]) /\ (fill'[g] <=> fill[g]) /\ data'[g] = data[g]
               /\ state'[g] = state[g] /\ (ended'[g] <=> ended[g]) /\ (released'[g] <=> released[g]) /\ (timer'[g] <=> timer[g])
    BY <1>0, <1>10 DEF FlyFinish, FlyGoto, Types, FlightTy, FillTy, UserTy
  <2>3. \A c \in Caller : woken[c] => woken'[c]
    BY <1>0, <1>10 DEF FlyFinish, FlyGoto, Types, ReadTy
  <2>4. fill[f] => fill'[f]
    BY <1>0, <1>10 DEF FlyFinish, FlyGoto, Types, FlightTy
  <2> QED BY <2>1, <2>2, <2>3, <2>4 DEF FlightFrame
<1>11. CASE FlyUnwatch(f)
  <2>1. UNCHANGED <<callVars, off, roff, upto, resumed, base, got, readers, n>>
    BY <1>11 DEF FlyUnwatch, FlyGoto
  <2>2. ASSUME NEW g \in Caller \ {f}
        PROVE  /\ fpc'[g] = fpc[g] /\ (ready'[g] <=> ready[g]) /\ (fill'[g] <=> fill[g]) /\ data'[g] = data[g]
               /\ state'[g] = state[g] /\ (ended'[g] <=> ended[g]) /\ (released'[g] <=> released[g]) /\ (timer'[g] <=> timer[g])
    BY <1>0, <1>11 DEF FlyUnwatch, FlyGoto, Types, FlightTy, FillTy, UserTy
  <2>3. \A c \in Caller : woken[c] => woken'[c]
    BY <1>0, <1>11 DEF FlyUnwatch, FlyGoto, Types, ReadTy
  <2>4. fill[f] => fill'[f]
    BY <1>0, <1>11 DEF FlyUnwatch, FlyGoto, Types, FlightTy
  <2> QED BY <2>1, <2>2, <2>3, <2>4 DEF FlightFrame
<1>12. CASE TimerFires(f)
  <2>1. UNCHANGED <<callVars, off, roff, upto, resumed, base, got, readers, n>>
    BY <1>12 DEF TimerFires
  <2>2. ASSUME NEW g \in Caller \ {f}
        PROVE  /\ fpc'[g] = fpc[g] /\ (ready'[g] <=> ready[g]) /\ (fill'[g] <=> fill[g]) /\ data'[g] = data[g]
               /\ state'[g] = state[g] /\ (ended'[g] <=> ended[g]) /\ (released'[g] <=> released[g]) /\ (timer'[g] <=> timer[g])
    BY <1>0, <1>12 DEF TimerFires, Types, FlightTy, FillTy, UserTy
  <2>3. \A c \in Caller : woken[c] => woken'[c]
    BY <1>0, <1>12 DEF TimerFires, Types, ReadTy
  <2>4. fill[f] => fill'[f]
    BY <1>0, <1>12 DEF TimerFires, Types, FlightTy
  <2> QED BY <2>1, <2>2, <2>3, <2>4 DEF FlightFrame
<1>13. CASE CancelFill(f)
  <2>1. UNCHANGED <<callVars, off, roff, upto, resumed, base, got, readers, n>>
    BY <1>13 DEF CancelFill
  <2>2. ASSUME NEW g \in Caller \ {f}
        PROVE  /\ fpc'[g] = fpc[g] /\ (ready'[g] <=> ready[g]) /\ (fill'[g] <=> fill[g]) /\ data'[g] = data[g]
               /\ state'[g] = state[g] /\ (ended'[g] <=> ended[g]) /\ (released'[g] <=> released[g]) /\ (timer'[g] <=> timer[g])
    BY <1>0, <1>13 DEF CancelFill, Types, FlightTy, FillTy, UserTy
  <2>3. \A c \in Caller : woken[c] => woken'[c]
    BY <1>0, <1>13 DEF CancelFill, Types, ReadTy
  <2>4. fill[f] => fill'[f]
    BY <1>0, <1>13 DEF CancelFill, Types, FlightTy
  <2> QED BY <2>1, <2>2, <2>3, <2>4 DEF FlightFrame
<1> QED BY <1>1, <1>2, <1>3, <1>4, <1>5, <1>6, <1>7, <1>8, <1>9, <1>10, <1>11, <1>12, <1>13 DEF
           FlightStep, Copying, Flying

\* The callers of a flight are finitely many.
LEMMA Finite ==
    ASSUME NEW f
    PROVE  /\ IsFiniteSet(Joined(f)) /\ Cardinality(Joined(f)) \in Nat /\ (Cardinality(Joined(f)) = 0 <=> Joined(f) = {})
           /\ IsFiniteSet(Following(f)) /\ Cardinality(Following(f)) \in Nat
           /\ (Cardinality(Following(f)) = 0 <=> Following(f) = {})
<1>1. Joined(f) \in SUBSET Caller /\ Following(f) \in SUBSET Caller
  BY DEF Joined, Following
<1>2. IsFiniteSet(Joined(f)) /\ IsFiniteSet(Following(f))
  BY <1>1, FillAssumption, FS_Subset
<1> QED BY <1>2, FS_CardinalityType, FS_EmptySet

\* A caller that waits or reads is counted by its flight, and one that follows a fill
\* by the fill, whose bytes are kept.
LEMMA Members ==
    ASSUME FillInv, NEW c \in Caller
    PROVE  /\ pc[c] \notin {"idle", "join", "done"} => on[c] \in Caller
           /\ pc[c] \in ReaderPcs \cup {"wait", "leave"} => n[on[c]] \in Nat \ {0} /\ c \in Joined(on[c])
           /\ pc[c] \in ReaderPcs \ {"closing"} /\ ~resumed[c] =>
                 readers[on[c]] \in Nat \ {0} /\ c \in Following(on[c]) /\ ~released[on[c]]
<1>1. pc[c] \notin {"idle", "join", "done"} => on[c] \in Caller
  BY DEF FillInv, CallInv
<1>2. ASSUME on[c] \in Caller PROVE CountInv(on[c])
  BY <1>2 DEF FillInv
<1>3. ASSUME pc[c] \in ReaderPcs \cup {"wait", "leave"} PROVE n[on[c]] \in Nat \ {0} /\ c \in Joined(on[c])
  <2>1. on[c] \in Caller /\ c \in Joined(on[c])
    BY <1>1, <1>3 DEF ReaderPcs, Joined
  <2> QED BY <1>2, <2>1, Finite DEF CountInv
<1>4. ASSUME pc[c] \in ReaderPcs \ {"closing"}, ~resumed[c]
      PROVE  readers[on[c]] \in Nat \ {0} /\ c \in Following(on[c]) /\ ~released[on[c]]
  <2>1. on[c] \in Caller /\ c \in Following(on[c])
    BY <1>1, <1>4 DEF ReaderPcs, Following
  <2> QED BY <1>2, <2>1, Finite DEF CountInv
<1> QED BY <1>1, <1>3, <1>4

\* A Read hands over k chunks from the offset of its reader.
LEMMA Delivered ==
    ASSUME TypeOK, NEW c \in Caller, NEW src \in Seq(0 .. Size), NEW k \in Nat, Len(src) <= Size,
           off[c] = roff[c], roff[c] + k <= Len(src), Deliver(c, src, k)
    PROVE  /\ off' \in [Caller -> 0 .. Size] /\ roff' \in [Caller -> 0 .. Size] /\ got' \in [Caller -> Seq(0 .. Size)]
           /\ off'[c] = roff[c] + k /\ roff'[c] = roff[c] + k
           /\ Len(got'[c]) = Len(got[c]) + k
           /\ \A i \in 1 .. Len(got[c]) : got'[c][i] = got[c][i]
           /\ \A i \in 1 .. k : got'[c][Len(got[c]) + i] = src[roff[c] + i]
<1>1. roff[c] \in 0 .. Size /\ got[c] \in Seq(0 .. Size) /\ Size \in Nat /\ Len(src) \in Nat
  BY FillAssumption DEF TypeOK
<1>2. roff[c] + k \in 0 .. Size
  BY <1>1
<1> DEFINE t == SubSeq(src, roff[c] + 1, roff[c] + k)
<1>3. t \in Seq(0 .. Size) /\ Len(t) = k /\ (\A i \in 1 .. k : t[i] = src[roff[c] + i])
  <2>1. \A i \in roff[c] + 1 .. roff[c] + k : src[i] \in 0 .. Size
    BY <1>1, SMTT(30)
  <2>2. roff[c] + 1 \in Int /\ roff[c] + k \in Int
    BY <1>1
  <2>3. /\ t \in Seq(0 .. Size)
        /\ Len(t) = IF roff[c] + 1 <= roff[c] + k THEN (roff[c] + k) - (roff[c] + 1) + 1 ELSE 0
        /\ \A i \in 1 .. (roff[c] + k) - (roff[c] + 1) + 1 : t[i] = src[(roff[c] + 1) + i - 1]
    BY <2>1, <2>2, SubSeqProperties
  <2>4. /\ (IF roff[c] + 1 <= roff[c] + k THEN (roff[c] + k) - (roff[c] + 1) + 1 ELSE 0) = k
        /\ (roff[c] + k) - (roff[c] + 1) + 1 = k
    BY <1>1
  <2>5. \A i \in 1 .. k : (roff[c] + 1) + i - 1 = roff[c] + i
    BY <1>1
  <2> HIDE DEF t
  <2> QED BY <2>3, <2>4, <2>5
<1>4. got' = [got EXCEPT ![c] = got[c] \o t] /\ roff' = [roff EXCEPT ![c] = roff[c] + k] /\ off' = [off EXCEPT ![c] = roff[c] + k]
  BY DEF Deliver
<1> HIDE DEF t
<1>5. /\ got[c] \o t \in Seq(0 .. Size) /\ Len(got[c] \o t) = Len(got[c]) + k
      /\ \A i \in 1 .. Len(got[c]) + k : (got[c] \o t)[i] = IF i <= Len(got[c]) THEN got[c][i] ELSE t[i - Len(got[c])]
  <2>1. /\ got[c] \o t \in Seq(0 .. Size) /\ Len(got[c] \o t) = Len(got[c]) + Len(t)
        /\ \A i \in 1 .. Len(got[c]) + Len(t) :
              (got[c] \o t)[i] = IF i <= Len(got[c]) THEN got[c][i] ELSE t[i - Len(got[c])]
    BY <1>1, <1>3, ConcatProperties, ZenonT(60)
  <2> QED BY <1>3, <2>1
<1>6. Len(got[c]) \in Nat
  BY <1>1
<1>7. got'[c] = got[c] \o t
  BY <1>4 DEF TypeOK
<1>8. \A i \in 1 .. Len(got[c]) : got'[c][i] = got[c][i]
  BY <1>5, <1>6, <1>7
<1>9. \A i \in 1 .. k : got'[c][Len(got[c]) + i] = src[roff[c] + i]
  <2> SUFFICES ASSUME NEW i \in 1 .. k PROVE got'[c][Len(got[c]) + i] = src[roff[c] + i]
    OBVIOUS
  <2>1. Len(got[c]) + i \in 1 .. Len(got[c]) + k /\ ~(Len(got[c]) + i <= Len(got[c])) /\ (Len(got[c]) + i) - Len(got[c]) = i
    BY <1>6
  <2>2. (got[c] \o t)[Len(got[c]) + i] = t[(Len(got[c]) + i) - Len(got[c])]
    BY <1>5, <2>1
  <2> QED BY <1>3, <1>7, <2>1, <2>2
<1> QED BY <1>2, <1>4, <1>5, <1>7, <1>8, <1>9 DEF TypeOK

\* fillReader.Close keeps the counter of readers a natural number.
LEMMA ClosesReader ==
    ASSUME Types, NEW f \in Caller, readers[f] \in Nat \ {0}, closeReader(f)
    PROVE  FillTy'
<1>1. readers' = [readers EXCEPT ![f] = readers[f] - 1] /\ readers[f] - 1 \in Nat
  BY DEF closeReader
<1>2. readers' \in [Caller -> Nat]
  BY <1>1 DEF Types, FillTy
<1>3. released' \in [Caller -> BOOLEAN]
  BY DEF closeReader, maybeRelease, Types, FillTy
<1>4. data' = data /\ state' = state /\ ended' = ended
  BY DEF closeReader
<1> QED BY <1>2, <1>3, <1>4 DEF Types, FillTy

\* A caller's step keeps the types: a position stays within the blob and a counter
\* a natural number.
LEMMA CallerTypes ==
    ASSUME FillInv, NEW d \in Caller, CallerStep(d)
    PROVE  TypeOK'
<1> USE FillAssumption DEF flightVars, userVars, fillVars, readVars, callVars
<1>0. TypeOK /\ Types /\ CallInv(d) /\ PosInv(d) /\ ReadInv(d)
  BY TypeGroups DEF FillInv
<1>f. CallerFrame(d)
  BY <1>0, CallerFrames
<1>m. /\ pc[d] \notin {"idle", "join", "done"} => on[d] \in Caller
      /\ pc[d] \in ReaderPcs \cup {"wait", "leave"} => n[on[d]] \in Nat \ {0}
      /\ pc[d] \in ReaderPcs \ {"closing"} /\ ~resumed[d] => readers[on[d]] \in Nat \ {0}
  BY Members
<1>n. \A i \in Nat \ {0} : i - 1 \in Nat
  OBVIOUS
<1>p. ASSUME active' \in Caller \cup {None}, UserTy', FillTy', CallTy', PosTy', ReadTy' PROVE TypeOK'
  <2>1. FlightTy' /\ primary' \in BOOLEAN
    BY <1>0, <1>f DEF CallerFrame, Types, FlightTy
  <2>2. Types'
    BY <1>p, <2>1 DEF Types
  <2> QED BY <2>2, TypeGroups DEF Types, TypeOK, FlightTy, UserTy, FillTy, CallTy, PosTy, ReadTy
<1>1. CASE Open(d)
  <2>1. active' \in Caller \cup {None}
    BY <1>0, <1>1 DEF Open, Types
  <2>2. UserTy'
    BY <1>0, <1>m, <1>n, <1>1 DEF Open, Types, UserTy
  <2>3. FillTy'
    BY <1>0, <1>m, <1>n, <1>1 DEF Open, Types, FillTy
  <2>4. CallTy'
    BY <1>0, <1>m, <1>1, <2>1 DEF Open, Answer, Goto, Types, CallTy, Labels, StartErrs, Failures
  <2>5. PosTy' /\ ReadTy'
    BY <1>0, <1>1 DEF Open, Types, PosTy, ReadTy
  <2> QED BY <1>p, <2>1, <2>2, <2>3, <2>4, <2>5
<1>2. CASE Join(d)
  <2>1. active' \in Caller \cup {None}
    BY <1>0, <1>2 DEF Join, Types
  <2>2. UserTy'
    BY <1>0, <1>m, <1>n, <1>2 DEF Join, Types, UserTy
  <2>3. FillTy'
    BY <1>0, <1>m, <1>n, <1>2 DEF Join, Types, FillTy
  <2>4. CallTy'
    BY <1>0, <1>m, <1>2, <2>1 DEF Join, Goto, Types, CallTy, Labels, StartErrs, Failures
  <2>5. PosTy' /\ ReadTy'
    BY <1>0, <1>2 DEF Join, Types, PosTy, ReadTy
  <2> QED BY <1>p, <2>1, <2>2, <2>3, <2>4, <2>5
<1>3. CASE UsersJoin(d)
  <2>1. active' \in Caller \cup {None}
    BY <1>0, <1>3 DEF UsersJoin, Types
  <2>2. UserTy'
    BY <1>0, <1>m, <1>n, <1>3 DEF UsersJoin, join, Goto, Types, UserTy, ReaderPcs
  <2>3. FillTy'
    BY <1>0, <1>m, <1>n, <1>3 DEF UsersJoin, Types, FillTy
  <2>4. CallTy'
    BY <1>0, <1>m, <1>3, <2>1 DEF UsersJoin, join, Goto, Types, CallTy, Labels, StartErrs, Failures
  <2>5. PosTy' /\ ReadTy'
    BY <1>0, <1>3 DEF UsersJoin, Types, PosTy, ReadTy
  <2> QED BY <1>p, <2>1, <2>2, <2>3, <2>4, <2>5
<1>4. CASE Waited(d)
  <2>1. active' \in Caller \cup {None}
    BY <1>0, <1>4 DEF Waited, Types
  <2>2. UserTy'
    BY <1>0, <1>m, <1>n, <1>4 DEF Waited, leave, Answer, Goto, Types, UserTy, ReaderPcs
  <2>3. FillTy'
    <3>1. on[d] \in Caller
      BY <1>m, <1>4 DEF Waited
    <3>2. readers' = readers \/ readers' = [readers EXCEPT ![on[d]] = readers[on[d]] + 1]
      BY <1>4 DEF Waited
    <3>3. readers[on[d]] + 1 \in Nat
      BY <1>0, <3>1 DEF Types, FillTy
    <3>4. readers' \in [Caller -> Nat]
      BY <1>0, <3>1, <3>2, <3>3 DEF Types, FillTy
    <3> QED BY <1>0, <1>4, <3>4 DEF Waited, Types, FillTy
  <2>4. CallTy'
    BY <1>0, <1>m, <1>4, <2>1 DEF Waited, leave, Answer, Goto, Types, CallTy, Labels, StartErrs,
       Failures
  <2>5. PosTy' /\ ReadTy'
    BY <1>0, <1>4 DEF Waited, Types, PosTy, ReadTy
  <2> QED BY <1>p, <2>1, <2>2, <2>3, <2>4, <2>5
<1>5. CASE LeaveFlight(d)
  <2>1. active' \in Caller \cup {None}
    BY <1>0, <1>5 DEF LeaveFlight, Types
  <2>2. UserTy'
    BY <1>0, <1>m, <1>n, <1>5 DEF LeaveFlight, leave, Answer, Goto, Types, UserTy, ReaderPcs
  <2>3. FillTy'
    BY <1>0, <1>m, <1>n, <1>5 DEF LeaveFlight, Types, FillTy
  <2>4. CallTy'
    BY <1>0, <1>m, <1>5, <2>1 DEF LeaveFlight, leave, Answer, Goto, Types, CallTy, Labels,
       StartErrs, Failures
  <2>5. PosTy' /\ ReadTy'
    BY <1>0, <1>5 DEF LeaveFlight, Types, PosTy, ReadTy
  <2> QED BY <1>p, <2>1, <2>2, <2>3, <2>4, <2>5
<1>6. CASE Reopen(d)
  <2>1. active' \in Caller \cup {None}
    BY <1>0, <1>6 DEF Reopen, Types
  <2>2. UserTy'
    BY <1>0, <1>m, <1>n, <1>6 DEF Reopen, Types, UserTy
  <2>3. FillTy'
    BY <1>0, <1>m, <1>n, <1>6 DEF Reopen, Types, FillTy
  <2>4. CallTy'
    BY <1>0, <1>m, <1>6, <2>1 DEF Reopen, Answer, Goto, Types, CallTy, Labels, StartErrs, Failures
  <2>5. PosTy' /\ ReadTy'
    BY <1>0, <1>6 DEF Reopen, Types, PosTy, ReadTy
  <2> QED BY <1>p, <2>1, <2>2, <2>3, <2>4, <2>5
<1>7. CASE Leave(d)
  <2>1. active' \in Caller \cup {None}
    BY <1>0, <1>7 DEF Leave, Types
  <2>2. UserTy'
    BY <1>0, <1>m, <1>n, <1>7 DEF Leave, leave, Answer, Goto, Types, UserTy, ReaderPcs
  <2>3. FillTy'
    BY <1>0, <1>m, <1>n, <1>7 DEF Leave, Types, FillTy
  <2>4. CallTy'
    BY <1>0, <1>m, <1>7, <2>1 DEF Leave, leave, Answer, Goto, Types, CallTy, Labels, StartErrs,
       Failures
  <2>5. PosTy' /\ ReadTy'
    BY <1>0, <1>7 DEF Leave, Types, PosTy, ReadTy
  <2> QED BY <1>p, <2>1, <2>2, <2>3, <2>4, <2>5
<1>8. CASE Read(d)
  <2>1. active' \in Caller \cup {None}
    BY <1>0, <1>8 DEF Read, Types
  <2>2. UserTy'
    BY <1>0, <1>m, <1>n, <1>8 DEF Read, Types, UserTy
  <2>3. FillTy'
    BY <1>0, <1>m, <1>n, <1>8 DEF Read, Types, FillTy
  <2>4. CallTy'
    BY <1>0, <1>m, <1>8, <2>1 DEF Read, Failed, Answer, Goto, Types, CallTy, Labels, StartErrs,
       Failures
  <2>5. PosTy' /\ ReadTy'
    <3>1. on[d] \in Caller /\ data[on[d]] \in Seq(0 .. Size) /\ DataInv(on[d])
      BY <1>0, <1>m, <1>8 DEF Read, Types, FillTy, FillInv
    <3>2. Len(data[on[d]]) \in 0 .. Size
      BY <3>1 DEF DataInv
    <3>3. upto' = upto \/ upto' = [upto EXCEPT ![d] = Len(data[on[d]])]
      BY <1>8 DEF Read
    <3>4. woken' = woken \/ woken' = [woken EXCEPT ![d] = FALSE]
      BY <1>8 DEF Read
    <3>5. UNCHANGED <<off, roff, resumed, base, got>>
      BY <1>8 DEF Read
    <3>6. upto' \in [Caller -> 0 .. Size]
      BY <1>0, <3>2, <3>3 DEF Types, ReadTy
    <3>7. woken' \in [Caller -> BOOLEAN]
      BY <1>0, <3>4 DEF Types, ReadTy
    <3> QED BY <1>0, <3>5, <3>6, <3>7 DEF Types, PosTy, ReadTy
  <2> QED BY <1>p, <2>1, <2>2, <2>3, <2>4, <2>5
<1>9. CASE ReadAt(d)
  <2>a. PICK k \in 0 .. upto[d] - roff[d] : Deliver(d, data[on[d]], k)
    BY <1>9 DEF ReadAt
  <2>b. on[d] \in Caller /\ data[on[d]] \in Seq(0 .. Size) /\ DataInv(on[d])
    BY <1>0, <1>m, <1>9 DEF ReadAt, Types, FillTy, FillInv
  <2>c. k \in Nat /\ off[d] = roff[d] /\ roff[d] + k <= Len(data[on[d]]) /\ Len(data[on[d]]) <= Size
    <3>1. upto[d] \in 0 .. Size /\ roff[d] \in 0 .. Size /\ Len(data[on[d]]) \in Nat /\ upto[d] <= Len(data[on[d]])
      BY <1>0, <1>9, <2>b DEF ReadAt, Types, ReadTy, PosTy, ReadInv
    <3> QED BY <1>0, <2>b, <3>1 DEF PosInv, DataInv
  <2>d. off' \in [Caller -> 0 .. Size] /\ roff' \in [Caller -> 0 .. Size] /\ got' \in [Caller -> Seq(0 .. Size)]
    BY <1>0, <2>a, <2>b, <2>c, Delivered
  <2>1. active' \in Caller \cup {None}
    BY <1>0, <1>9 DEF ReadAt, Types
  <2>2. UserTy'
    BY <1>0, <1>m, <1>n, <1>9 DEF ReadAt, Types, UserTy
  <2>3. FillTy'
    BY <1>0, <1>m, <1>n, <1>9 DEF ReadAt, Types, FillTy
  <2>4. CallTy'
    BY <1>0, <1>m, <1>9, <2>1 DEF ReadAt, Deliver, Failed, Answer, Goto, Types, CallTy, Labels,
       StartErrs, Failures
  <2>5. PosTy' /\ ReadTy'
    <3>1. upto' = [upto EXCEPT ![d] = 0] /\ UNCHANGED <<woken, resumed, base>>
      BY <1>9 DEF ReadAt
    <3>2. upto' \in [Caller -> 0 .. Size]
      BY <1>0, <3>1 DEF Types, ReadTy
    <3> QED BY <1>0, <2>d, <3>1, <3>2 DEF Types, PosTy, ReadTy
  <2> QED BY <1>p, <2>1, <2>2, <2>3, <2>4, <2>5
<1>10. CASE Wake(d)
  <2>1. active' \in Caller \cup {None}
    BY <1>0, <1>10 DEF Wake, Types
  <2>2. UserTy'
    BY <1>0, <1>m, <1>n, <1>10 DEF Wake, Types, UserTy
  <2>3. FillTy'
    BY <1>0, <1>m, <1>n, <1>10 DEF Wake, Types, FillTy
  <2>4. CallTy'
    BY <1>0, <1>m, <1>10, <2>1 DEF Wake, Answer, Goto, Types, CallTy, Labels, StartErrs, Failures
  <2>5. PosTy' /\ ReadTy'
    BY <1>0, <1>10 DEF Wake, Types, PosTy, ReadTy
  <2> QED BY <1>p, <2>1, <2>2, <2>3, <2>4, <2>5
<1>11. CASE Resume(d)
  <2>1. active' \in Caller \cup {None}
    BY <1>0, <1>11 DEF Resume, Types
  <2>2. UserTy'
    BY <1>0, <1>m, <1>n, <1>11 DEF Resume, Types, UserTy
  <2>3. FillTy'
    <3>1. on[d] \in Caller /\ readers[on[d]] \in Nat \ {0}
      BY <1>0, <1>m, <1>11 DEF Resume, ReaderPcs, CallInv
    <3>2. CASE closeReader(on[d])
      BY <1>0, <3>1, <3>2, ClosesReader
    <3>3. CASE UNCHANGED fillVars
      BY <1>0, <3>3 DEF Types, FillTy
    <3> QED BY <1>11, <3>2, <3>3 DEF Resume
  <2>4. CallTy'
    BY <1>0, <1>m, <1>11, <2>1 DEF Resume, closeReader, Answer, Goto, Types, CallTy, Labels,
       StartErrs, Failures
  <2>5. PosTy' /\ ReadTy'
    BY <1>0, <1>11 DEF Resume, Types, PosTy, ReadTy
  <2> QED BY <1>p, <2>1, <2>2, <2>3, <2>4, <2>5
<1>12. CASE ReadOrigin(d)
  <2>d. off' \in [Caller -> 0 .. Size] /\ roff' \in [Caller -> 0 .. Size] /\ got' \in [Caller -> Seq(0 .. Size)]
    <3>1. CASE \E k \in 1 .. Size - roff[d] : Deliver(d, [i \in 1 .. Size |-> i], k)
      <4>1. PICK k \in 1 .. Size - roff[d] : Deliver(d, [i \in 1 .. Size |-> i], k)
        BY <3>1
      <4>2. [i \in 1 .. Size |-> i] \in Seq(0 .. Size) /\ Len([i \in 1 .. Size |-> i]) = Size
        OBVIOUS
      <4>3. k \in Nat /\ off[d] = roff[d] /\ roff[d] + k <= Size
        BY <1>0, <4>1 DEF PosInv, Types, PosTy
      <4> QED BY <1>0, <4>1, <4>2, <4>3, Delivered
    <3>2. CASE UNCHANGED <<got, roff, off>>
      BY <1>0, <3>2 DEF Types, PosTy, ReadTy
    <3> QED BY <1>12, <3>1, <3>2 DEF ReadOrigin
  <2>1. active' \in Caller \cup {None}
    BY <1>0, <1>12 DEF ReadOrigin, Types
  <2>2. UserTy'
    BY <1>0, <1>m, <1>n, <1>12 DEF ReadOrigin, Types, UserTy
  <2>3. FillTy'
    BY <1>0, <1>m, <1>n, <1>12 DEF ReadOrigin, Types, FillTy
  <2>4. CallTy'
    BY <1>0, <1>m, <1>12, <2>1 DEF ReadOrigin, Deliver, Failed, Answer, Goto, Types, CallTy,
       Labels, StartErrs, Failures
  <2>5. PosTy' /\ ReadTy'
    BY <1>0, <1>12, <2>d DEF ReadOrigin, Types, PosTy, ReadTy
  <2> QED BY <1>p, <2>1, <2>2, <2>3, <2>4, <2>5
<1>13. CASE Seek(d)
  <2>1. active' \in Caller \cup {None}
    BY <1>0, <1>13 DEF Seek, Types
  <2>2. UserTy'
    BY <1>0, <1>m, <1>n, <1>13 DEF Seek, Types, UserTy
  <2>3. FillTy'
    BY <1>0, <1>m, <1>n, <1>13 DEF Seek, Types, FillTy
  <2>4. CallTy'
    BY <1>0, <1>m, <1>13, <2>1 DEF Seek, Answer, Goto, Types, CallTy, Labels, StartErrs, Failures
  <2>5. PosTy' /\ ReadTy'
    BY <1>0, <1>13 DEF Seek, Types, PosTy, ReadTy
  <2> QED BY <1>p, <2>1, <2>2, <2>3, <2>4, <2>5
<1>14. CASE Close(d)
  <2>1. active' \in Caller \cup {None}
    BY <1>0, <1>14 DEF Close, Types
  <2>2. UserTy'
    BY <1>0, <1>m, <1>n, <1>14 DEF Close, Types, UserTy
  <2>3. FillTy'
    <3>1. CASE ~resumed[d]
      <4>1. on[d] \in Caller /\ readers[on[d]] \in Nat \ {0} /\ closeReader(on[d])
        BY <1>0, <1>m, <1>14, <3>1 DEF Close, ReaderPcs
      <4> QED BY <1>0, <4>1, ClosesReader
    <3>2. CASE resumed[d]
      BY <1>0, <1>14, <3>2 DEF Close, Types, FillTy
    <3> QED BY <3>1, <3>2
  <2>4. CallTy'
    BY <1>0, <1>m, <1>14, <2>1 DEF Close, closeReader, Goto, Types, CallTy, Labels, StartErrs,
       Failures
  <2>5. PosTy' /\ ReadTy'
    BY <1>0, <1>14 DEF Close, Types, PosTy, ReadTy
  <2> QED BY <1>p, <2>1, <2>2, <2>3, <2>4, <2>5
<1>15. CASE Cancel(d)
  <2>1. active' \in Caller \cup {None}
    BY <1>0, <1>15 DEF Cancel, Types
  <2>2. UserTy'
    BY <1>0, <1>m, <1>n, <1>15 DEF Cancel, Types, UserTy
  <2>3. FillTy'
    BY <1>0, <1>m, <1>n, <1>15 DEF Cancel, Types, FillTy
  <2>4. CallTy'
    BY <1>0, <1>m, <1>15, <2>1 DEF Cancel, Types, CallTy, Labels, StartErrs, Failures
  <2>5. PosTy' /\ ReadTy'
    BY <1>0, <1>15 DEF Cancel, Types, PosTy, ReadTy
  <2> QED BY <1>p, <2>1, <2>2, <2>3, <2>4, <2>5
<1> QED BY <1>1, <1>2, <1>3, <1>4, <1>5, <1>6, <1>7, <1>8, <1>9, <1>10, <1>11, <1>12, <1>13,
           <1>14, <1>15 DEF CallerStep, Opening, Reading

\* So does a step of fly or of the timer.
LEMMA FlightTypes ==
    ASSUME FillInv, NEW f \in Caller, FlightStep(f)
    PROVE  TypeOK'
<1> USE FillAssumption DEF flightVars, userVars, fillVars, readVars, callVars
<1>0. TypeOK /\ Types
  BY TypeGroups DEF FillInv
<1>f. FlightFrame(f)
  BY <1>0, FlightFrames
<1>p. ASSUME primary' \in BOOLEAN, active' \in Caller \cup {None}, FlightTy', UserTy', FillTy', woken' \in [Caller -> BOOLEAN]
      PROVE TypeOK'
  <2>1. CallTy' /\ PosTy' /\ ReadTy'
    BY <1>0, <1>f, <1>p DEF FlightFrame, Types, CallTy, PosTy, ReadTy
  <2>2. Types'
    BY <1>p, <2>1 DEF Types
  <2> QED BY <2>2, TypeGroups DEF Types, TypeOK, FlightTy, UserTy, FillTy, CallTy, PosTy, ReadTy
<1>1. CASE FlyOpen(f)
  <2>1. primary' \in BOOLEAN /\ active' \in Caller \cup {None}
    BY <1>0, <1>1 DEF FlyOpen, Types
  <2>2. FlightTy'
    BY <1>0, <1>1 DEF FlyOpen, FlyGoto, Types, FlightTy, FlyLabels, StartErrs, FromFill
  <2>3. UserTy'
    BY <1>0, <1>1 DEF FlyOpen, Types, UserTy
  <2>4. FillTy'
    BY <1>0, <1>1 DEF FlyOpen, FlyGoto, Types, FillTy
  <2>5. woken' \in [Caller -> BOOLEAN]
    BY <1>0, <1>1 DEF FlyOpen, FlyGoto, Types, ReadTy
  <2> QED BY <1>p, <2>1, <2>2, <2>3, <2>4, <2>5
<1>2. CASE FlyCopy(f)
  <2>1. primary' \in BOOLEAN /\ active' \in Caller \cup {None}
    BY <1>0, <1>2 DEF FlyCopy, Types
  <2>2. FlightTy'
    BY <1>0, <1>2 DEF FlyCopy, FlyGoto, Types, FlightTy, FlyLabels, StartErrs, FromFill
  <2>3. UserTy'
    BY <1>0, <1>2 DEF FlyCopy, Types, UserTy
  <2>a. CASE UNCHANGED <<fillVars, woken>>
    <3>1. FillTy' /\ woken' \in [Caller -> BOOLEAN]
      BY <1>0, <2>a DEF Types, FillTy, ReadTy
    <3> QED BY <1>p, <2>1, <2>2, <2>3, <3>1
  <2>b. CASE Len(data[f]) < Size /\ \E v \in {Len(data[f]) + 1} \cup {b \in {Bad} : MayCorrupt} : write(f, v)
    <3>1. PICK v \in {Len(data[f]) + 1} \cup {b \in {Bad} : MayCorrupt} : write(f, v)
      BY <2>b
    <3>2. data[f] \in Seq(0 .. Size) /\ Len(data[f]) \in Nat
      BY <1>0 DEF Types, FillTy
    <3>3. v \in 0 .. Size
      BY <2>b, <3>1, <3>2 DEF Bad
    <3>4. Append(data[f], v) \in Seq(0 .. Size)
      BY <3>2, <3>3, AppendProperties
    <3>5. \A e : verify(e) \in {"nil", "EOF"} \cup Failures
      BY DEF verify, Failures
    <3>6. FillTy'
      BY <1>0, <3>1, <3>4, <3>5 DEF write, Types, FillTy
    <3>7. woken' \in [Caller -> BOOLEAN]
      BY <1>0, <3>1 DEF write, notify, Types, ReadTy
    <3> QED BY <1>p, <2>1, <2>2, <2>3, <3>6, <3>7
  <2> QED BY <1>2, <2>a, <2>b DEF FlyCopy
<1>3. CASE FlyStart(f)
  <2>1. primary' \in BOOLEAN /\ active' \in Caller \cup {None}
    BY <1>0, <1>3 DEF FlyStart, Types
  <2>2. FlightTy'
    BY <1>0, <1>3 DEF FlyStart, FlyGoto, Types, FlightTy, FlyLabels, StartErrs, FromFill
  <2>3. UserTy'
    BY <1>0, <1>3 DEF FlyStart, Types, UserTy
  <2>4. FillTy'
    BY <1>0, <1>3 DEF FlyStart, FlyGoto, Types, FillTy
  <2>5. woken' \in [Caller -> BOOLEAN]
    BY <1>0, <1>3 DEF FlyStart, FlyGoto, Types, ReadTy
  <2> QED BY <1>p, <2>1, <2>2, <2>3, <2>4, <2>5
<1>4. CASE FlyFill(f)
  <2>1. primary' \in BOOLEAN /\ active' \in Caller \cup {None}
    BY <1>0, <1>4 DEF FlyFill, Types
  <2>2. FlightTy'
    BY <1>0, <1>4 DEF FlyFill, FlyGoto, Types, FlightTy, FlyLabels, StartErrs, FromFill
  <2>3. UserTy'
    BY <1>0, <1>4 DEF FlyFill, Types, UserTy
  <2>4. FillTy'
    BY <1>0, <1>4 DEF FlyFill, FlyGoto, verify, Failures, Types, FillTy
  <2>5. woken' \in [Caller -> BOOLEAN]
    BY <1>0, <1>4 DEF FlyFill, FlyGoto, Types, ReadTy
  <2> QED BY <1>p, <2>1, <2>2, <2>3, <2>4, <2>5
<1>5. CASE FlyCopied(f)
  <2>1. primary' \in BOOLEAN /\ active' \in Caller \cup {None}
    BY <1>0, <1>5 DEF FlyCopied, Types
  <2>2. FlightTy'
    BY <1>0, <1>5 DEF FlyCopied, FlyGoto, Types, FlightTy, FlyLabels, StartErrs, FromFill
  <2>3. UserTy'
    BY <1>0, <1>5 DEF FlyCopied, Types, UserTy
  <2>4. FillTy'
    BY <1>0, <1>5 DEF FlyCopied, FlyGoto, Types, FillTy
  <2>5. woken' \in [Caller -> BOOLEAN]
    BY <1>0, <1>5 DEF FlyCopied, FlyGoto, Types, ReadTy
  <2> QED BY <1>p, <2>1, <2>2, <2>3, <2>4, <2>5
<1>6. CASE FlyCommit(f)
  <2>1. primary' \in BOOLEAN /\ active' \in Caller \cup {None}
    BY <1>0, <1>6 DEF FlyCommit, Types
  <2>2. FlightTy'
    BY <1>0, <1>6 DEF FlyCommit, FlyGoto, Types, FlightTy, FlyLabels, StartErrs, FromFill
  <2>3. UserTy'
    BY <1>0, <1>6 DEF FlyCommit, Types, UserTy
  <2>4. FillTy'
    BY <1>0, <1>6 DEF FlyCommit, FlyGoto, Types, FillTy
  <2>5. woken' \in [Caller -> BOOLEAN]
    BY <1>0, <1>6 DEF FlyCommit, FlyGoto, Types, ReadTy
  <2> QED BY <1>p, <2>1, <2>2, <2>3, <2>4, <2>5
<1>7. CASE FlyEnd(f)
  <2>1. primary' \in BOOLEAN /\ active' \in Caller \cup {None}
    BY <1>0, <1>7 DEF FlyEnd, Types
  <2>2. FlightTy'
    BY <1>0, <1>7 DEF FlyEnd, FlyGoto, Types, FlightTy, FlyLabels, StartErrs, FromFill
  <2>3. UserTy'
    BY <1>0, <1>7 DEF FlyEnd, Types, UserTy
  <2>4. FillTy'
    BY <1>0, <1>7 DEF FlyEnd, end, maybeRelease, FlyGoto, Types, FillTy
  <2>5. woken' \in [Caller -> BOOLEAN]
    BY <1>0, <1>7 DEF FlyEnd, end, maybeRelease, FlyGoto, Types, ReadTy
  <2> QED BY <1>p, <2>1, <2>2, <2>3, <2>4, <2>5
<1>8. CASE FlyAbort(f)
  <2>1. primary' \in BOOLEAN /\ active' \in Caller \cup {None}
    BY <1>0, <1>8 DEF FlyAbort, Types
  <2>2. FlightTy'
    BY <1>0, <1>8 DEF FlyAbort, FlyGoto, Types, FlightTy, FlyLabels, StartErrs, FromFill
  <2>3. UserTy'
    BY <1>0, <1>8 DEF FlyAbort, Types, UserTy
  <2>4. FillTy'
    BY <1>0, <1>8 DEF FlyAbort, abort, maybeRelease, FlyGoto, Failures, Types, FillTy
  <2>5. woken' \in [Caller -> BOOLEAN]
    BY <1>0, <1>8 DEF FlyAbort, abort, notify, maybeRelease, FlyGoto, Types, ReadTy
  <2> QED BY <1>p, <2>1, <2>2, <2>3, <2>4, <2>5
<1>9. CASE FlyReady(f)
  <2>1. primary' \in BOOLEAN /\ active' \in Caller \cup {None}
    BY <1>0, <1>9 DEF FlyReady, Types
  <2>2. FlightTy'
    BY <1>0, <1>9 DEF FlyReady, FlyGoto, Types, FlightTy, FlyLabels, StartErrs, FromFill
  <2>3. UserTy'
    BY <1>0, <1>9 DEF FlyReady, Types, UserTy
  <2>4. FillTy'
    BY <1>0, <1>9 DEF FlyReady, FlyGoto, Types, FillTy
  <2>5. woken' \in [Caller -> BOOLEAN]
    BY <1>0, <1>9 DEF FlyReady, FlyGoto, Types, ReadTy
  <2> QED BY <1>p, <2>1, <2>2, <2>3, <2>4, <2>5
<1>10. CASE FlyFinish(f)
  <2>1. primary' \in BOOLEAN /\ active' \in Caller \cup {None}
    BY <1>0, <1>10 DEF FlyFinish, Types
  <2>2. FlightTy'
    BY <1>0, <1>10 DEF FlyFinish, FlyGoto, Types, FlightTy, FlyLabels, StartErrs, FromFill
  <2>3. UserTy'
    BY <1>0, <1>10 DEF FlyFinish, Types, UserTy
  <2>4. FillTy'
    BY <1>0, <1>10 DEF FlyFinish, FlyGoto, Types, FillTy
  <2>5. woken' \in [Caller -> BOOLEAN]
    BY <1>0, <1>10 DEF FlyFinish, FlyGoto, Types, ReadTy
  <2> QED BY <1>p, <2>1, <2>2, <2>3, <2>4, <2>5
<1>11. CASE FlyUnwatch(f)
  <2>1. primary' \in BOOLEAN /\ active' \in Caller \cup {None}
    BY <1>0, <1>11 DEF FlyUnwatch, Types
  <2>2. FlightTy'
    BY <1>0, <1>11 DEF FlyUnwatch, FlyGoto, Types, FlightTy, FlyLabels, StartErrs, FromFill
  <2>3. UserTy'
    BY <1>0, <1>11 DEF FlyUnwatch, Types, UserTy
  <2>4. FillTy'
    BY <1>0, <1>11 DEF FlyUnwatch, FlyGoto, Types, FillTy
  <2>5. woken' \in [Caller -> BOOLEAN]
    BY <1>0, <1>11 DEF FlyUnwatch, FlyGoto, Types, ReadTy
  <2> QED BY <1>p, <2>1, <2>2, <2>3, <2>4, <2>5
<1>12. CASE TimerFires(f)
  <2>1. primary' \in BOOLEAN /\ active' \in Caller \cup {None}
    BY <1>0, <1>12 DEF TimerFires, Types
  <2>2. FlightTy'
    BY <1>0, <1>12 DEF TimerFires, FlyGoto, Types, FlightTy, FlyLabels, StartErrs, FromFill
  <2>3. UserTy'
    BY <1>0, <1>12 DEF TimerFires, Types, UserTy
  <2>4. FillTy'
    BY <1>0, <1>12 DEF TimerFires, Types, FillTy
  <2>5. woken' \in [Caller -> BOOLEAN]
    BY <1>0, <1>12 DEF TimerFires, Types, ReadTy
  <2> QED BY <1>p, <2>1, <2>2, <2>3, <2>4, <2>5
<1>13. CASE CancelFill(f)
  <2>1. primary' \in BOOLEAN /\ active' \in Caller \cup {None}
    BY <1>0, <1>13 DEF CancelFill, Types
  <2>2. FlightTy'
    BY <1>0, <1>13 DEF CancelFill, FlyGoto, Types, FlightTy, FlyLabels, StartErrs, FromFill
  <2>3. UserTy'
    BY <1>0, <1>13 DEF CancelFill, Types, UserTy
  <2>4. FillTy'
    BY <1>0, <1>13 DEF CancelFill, Types, FillTy
  <2>5. woken' \in [Caller -> BOOLEAN]
    BY <1>0, <1>13 DEF CancelFill, Types, ReadTy
  <2> QED BY <1>p, <2>1, <2>2, <2>3, <2>4, <2>5
<1> QED BY <1>1, <1>2, <1>3, <1>4, <1>5, <1>6, <1>7, <1>8, <1>9, <1>10, <1>11, <1>12, <1>13 DEF
           FlightStep, Copying, Flying

\* No caller's step changes what a fill holds, and only the leader's starts fly.
LEMMA CallerFly ==
    ASSUME FillInv, NEW d \in Caller, CallerStep(d), NEW f \in Caller
    PROVE  FlyInv(f)' /\ DataInv(f)'
<1>0. TypeOK /\ FlyInv(f) /\ DataInv(f)
  BY DEF FillInv
<1>1. CallerFrame(d)
  BY <1>0, CallerFrames
<1>2. DataInv(f)'
  BY <1>0, <1>1 DEF CallerFrame, DataInv
<1>3. FlyInv(f)'
  <2>1. CASE f # d
    BY <1>0, <1>1, <2>1 DEF CallerFrame, CallerSame, FlyInv
  <2>2. CASE f = d
    BY <1>0, <1>1, <2>2 DEF CallerFrame, FlyInv, BeforeFill, DuringFill, EarlyPcs
  <2> QED BY <2>1, <2>2
<1> QED BY <1>2, <1>3

\* A caller registers a flight only where there is none.
LEMMA CallerLead ==
    ASSUME FillInv, NEW d \in Caller, CallerStep(d), NEW f \in Caller
    PROVE  LeadInv(f)'
<1> USE FillAssumption DEF flightVars, userVars, fillVars, readVars, callVars
<1>0. TypeOK /\ LeadInv(f) /\ FlyInv(f) /\ active \in Caller \cup {None}
  BY DEF FillInv, TypeOK
<1>1. CallerFrame(d)
  BY <1>0, CallerFrames
<1>2. CASE Join(d)
  <2>1. /\ pc[d] = "join" /\ pc'[d] = "users" /\ on'[d] = active' /\ fpc' = fpc
        /\ active' = IF active = None THEN d ELSE active
    BY <1>0, <1>2 DEF Join, Goto, TypeOK
  <2>2. CASE f = d
    BY <1>0, <2>1, <2>2 DEF LeadInv, FlyInv, EarlyPcs
  <2>3. CASE f # d
    <3>1. pc'[f] = pc[f] /\ on'[f] = on[f]
      BY <1>1, <2>3 DEF CallerFrame, CallerSame
    <3> QED BY <1>0, <2>1, <2>3, <3>1 DEF LeadInv
  <2> QED BY <2>2, <2>3
<1>3. CASE ~Join(d)
  <2>1. active' = active /\ (pc'[d] = "users" => pc[d] = "users" /\ on'[d] = on[d])
    BY <1>1, <1>3 DEF CallerFrame
  <2>2. CASE f = d
    BY <1>0, <1>1, <2>1, <2>2 DEF CallerFrame, LeadInv
  <2>3. CASE f # d
    BY <1>0, <1>1, <2>1, <2>3 DEF CallerFrame, CallerSame, LeadInv
  <2> QED BY <2>2, <2>3
<1> QED BY <1>2, <1>3

\* fly writes the blob in order, gives its verdict on all of it, and leaves the
\* registry last.
LEMMA FlightFly ==
    ASSUME FillInv, NEW f \in Caller, FlightStep(f), NEW g \in Caller
    PROVE  FlyInv(g)' /\ LeadInv(g)'
<1> USE FillAssumption DEF flightVars, userVars, fillVars, readVars, callVars, BeforeFill, DuringFill
<1>0. TypeOK /\ FlyInv(g) /\ LeadInv(g) /\ FlyInv(f) /\ LeadInv(f)
  BY DEF FillInv
<1>f. FlightFrame(f)
  BY <1>0, FlightFrames
<1>s. CASE g # f
  <2>1. FlyInv(g)'
    BY <1>0, <1>f, <1>s DEF FlightFrame, FlyInv
  <2>2. active' = active \/ (active = f /\ active' = None /\ fpc[f] = "finish")
    BY DEF FlightStep, Copying, Flying, FlyOpen, FlyCopy, FlyStart, FlyFill, FlyCopied, FlyCommit,
       FlyEnd,
       FlyAbort, FlyReady, FlyFinish, FlyUnwatch, TimerFires, CancelFill
  <2>3. LeadInv(g)'
    BY <1>0, <1>f, <1>s, <2>2 DEF FlightFrame, LeadInv
  <2> QED BY <2>1, <2>3
<1>q. CASE g = f
  <2> SUFFICES FlyInv(f)' /\ LeadInv(f)'
    BY <1>q
  <2>1. CASE FlyOpen(f)
    <3>1. FlyInv(f)'
      BY <1>0, <1>f, <2>1 DEF FlyOpen, FlyGoto, FlightFrame, TypeOK, FlyInv, EarlyPcs
    <3>2. LeadInv(f)'
      BY <1>0, <1>f, <2>1 DEF FlyOpen, FlyGoto, FlightFrame, TypeOK, LeadInv
    <3> QED BY <3>1, <3>2
  <2>2. CASE FlyCopy(f)
    <3>1. FlyInv(f)'
      BY <1>0, <1>f, <2>2, ZenonT(60) DEF FlyCopy, write, FlyGoto, FlightFrame, TypeOK, FlyInv,
         EarlyPcs
    <3>2. LeadInv(f)'
      BY <1>0, <1>f, <2>2 DEF FlyCopy, FlyGoto, FlightFrame, TypeOK, LeadInv
    <3> QED BY <3>1, <3>2
  <2>3. CASE FlyStart(f)
    <3>1. FlyInv(f)'
      BY <1>0, <1>f, <2>3 DEF FlyStart, FlyGoto, FlightFrame, TypeOK, FlyInv, EarlyPcs
    <3>2. LeadInv(f)'
      BY <1>0, <1>f, <2>3 DEF FlyStart, FlyGoto, FlightFrame, TypeOK, LeadInv
    <3> QED BY <3>1, <3>2
  <2>4. CASE FlyFill(f)
    <3>1. FlyInv(f)'
      BY <1>0, <1>f, <2>4 DEF FlyFill, FlyGoto, FlightFrame, TypeOK, FlyInv, EarlyPcs
    <3>2. LeadInv(f)'
      BY <1>0, <1>f, <2>4 DEF FlyFill, FlyGoto, FlightFrame, TypeOK, LeadInv
    <3> QED BY <3>1, <3>2
  <2>5. CASE FlyCopied(f)
    <3>1. FlyInv(f)'
      BY <1>0, <1>f, <2>5 DEF FlyCopied, FlyGoto, FlightFrame, TypeOK, FlyInv, EarlyPcs
    <3>2. LeadInv(f)'
      BY <1>0, <1>f, <2>5 DEF FlyCopied, FlyGoto, FlightFrame, TypeOK, LeadInv
    <3> QED BY <3>1, <3>2
  <2>6. CASE FlyCommit(f)
    <3>1. FlyInv(f)'
      BY <1>0, <1>f, <2>6 DEF FlyCommit, FlyGoto, FlightFrame, TypeOK, FlyInv, EarlyPcs
    <3>2. LeadInv(f)'
      BY <1>0, <1>f, <2>6 DEF FlyCommit, FlyGoto, FlightFrame, TypeOK, LeadInv
    <3> QED BY <3>1, <3>2
  <2>7. CASE FlyEnd(f)
    <3>1. FlyInv(f)'
      BY <1>0, <1>f, <2>7 DEF FlyEnd, end, maybeRelease, FlyGoto, FlightFrame, TypeOK, FlyInv,
         EarlyPcs
    <3>2. LeadInv(f)'
      BY <1>0, <1>f, <2>7 DEF FlyEnd, FlyGoto, FlightFrame, TypeOK, LeadInv
    <3> QED BY <3>1, <3>2
  <2>8. CASE FlyAbort(f)
    <3>1. FlyInv(f)'
      BY <1>0, <1>f, <2>8 DEF FlyAbort, abort, maybeRelease, FlyGoto, FlightFrame, TypeOK, FlyInv,
         EarlyPcs
    <3>2. LeadInv(f)'
      BY <1>0, <1>f, <2>8 DEF FlyAbort, FlyGoto, FlightFrame, TypeOK, LeadInv
    <3> QED BY <3>1, <3>2
  <2>9. CASE FlyReady(f)
    <3>1. FlyInv(f)'
      BY <1>0, <1>f, <2>9 DEF FlyReady, FlyGoto, FlightFrame, TypeOK, FlyInv, EarlyPcs
    <3>2. LeadInv(f)'
      BY <1>0, <1>f, <2>9 DEF FlyReady, FlyGoto, FlightFrame, TypeOK, LeadInv
    <3> QED BY <3>1, <3>2
  <2>10. CASE FlyFinish(f)
    <3>1. FlyInv(f)'
      BY <1>0, <1>f, <2>10 DEF FlyFinish, FlyGoto, FlightFrame, TypeOK, FlyInv, EarlyPcs
    <3>2. LeadInv(f)'
      BY <1>0, <1>f, <2>10 DEF FlyFinish, FlyGoto, FlightFrame, TypeOK, LeadInv, FlyInv, EarlyPcs
    <3> QED BY <3>1, <3>2
  <2>11. CASE FlyUnwatch(f)
    <3>1. FlyInv(f)'
      BY <1>0, <1>f, <2>11 DEF FlyUnwatch, FlyGoto, FlightFrame, TypeOK, FlyInv, EarlyPcs
    <3>2. LeadInv(f)'
      BY <1>0, <1>f, <2>11 DEF FlyUnwatch, FlyGoto, FlightFrame, TypeOK, LeadInv
    <3> QED BY <3>1, <3>2
  <2>12. CASE TimerFires(f)
    <3>1. FlyInv(f)'
      BY <1>0, <1>f, <2>12 DEF TimerFires, FlightFrame, TypeOK, FlyInv, EarlyPcs
    <3>2. LeadInv(f)'
      BY <1>0, <1>f, <2>12 DEF TimerFires, FlyGoto, FlightFrame, TypeOK, LeadInv
    <3> QED BY <3>1, <3>2
  <2>13. CASE CancelFill(f)
    <3>1. FlyInv(f)'
      BY <1>0, <1>f, <2>13 DEF CancelFill, FlightFrame, TypeOK, FlyInv, EarlyPcs
    <3>2. LeadInv(f)'
      BY <1>0, <1>f, <2>13 DEF CancelFill, FlyGoto, FlightFrame, TypeOK, LeadInv
    <3> QED BY <3>1, <3>2
  <2> QED BY <2>1, <2>2, <2>3, <2>4, <2>5, <2>6, <2>7, <2>8, <2>9, <2>10, <2>11, <2>12, <2>13 DEF
             FlightStep, Copying, Flying
<1> QED BY <1>s, <1>q

\* A chunk is appended to what is written: the blob so far or a wrong chunk, and the
\* verdict when it was the last.
LEMMA Written ==
    ASSUME TypeOK, NEW f \in Caller, DataInv(f), Len(data[f]) < Size,
           NEW v \in {Len(data[f]) + 1} \cup {b \in {Bad} : MayCorrupt}, write(f, v)
    PROVE  /\ DataInv(f)'
           /\ Len(data'[f]) = Len(data[f]) + 1
           /\ \A i \in 1 .. Len(data[f]) : data'[f][i] = data[f][i]
<1> USE FillAssumption
<1>1. data[f] \in Seq(0 .. Size) /\ Len(data[f]) \in Nat /\ DOMAIN data[f] = 1 .. Len(data[f])
  BY DEF TypeOK
<1> DEFINE e == Append(data[f], v)
           m == Len(data[f])
<1>2. v \in 0 .. Size /\ v \in {m + 1, Bad}
  BY <1>1 DEF Bad
<1>3. /\ e \in Seq(0 .. Size) /\ Len(e) = m + 1 /\ DOMAIN e = 1 .. m + 1
      /\ (\A i \in 1 .. m : e[i] = data[f][i]) /\ e[m + 1] = v
  BY <1>1, <1>2, AppendProperties
<1>4. data'[f] = e /\ state'[f] = IF Len(e) = Size THEN verify(e) ELSE state[f]
  BY DEF write, TypeOK
<1>5. m < Size /\ m \in Nat /\ \A i \in 1 .. m : data[f][i] \in {i, Bad}
  BY <1>1 DEF DataInv
<1>6. state[f] # "EOF"
  BY <1>5 DEF DataInv
<1> HIDE DEF e, m
<1>7. \A i \in 1 .. m + 1 : e[i] \in {i, Bad}
  <2> SUFFICES ASSUME NEW i \in 1 .. m + 1 PROVE e[i] \in {i, Bad}
    OBVIOUS
  <2>1. CASE i \in 1 .. m
    BY <1>3, <1>5, <2>1
  <2>2. CASE i = m + 1
    BY <1>2, <1>3, <2>2
  <2> QED BY <1>5, <2>1, <2>2
<1>8. state'[f] = "EOF" => Len(e) = Size /\ \A i \in DOMAIN e : e[i] = i
  BY <1>4, <1>6 DEF verify
<1>9. Len(e) <= Size
  BY <1>3, <1>5
<1>10. DataInv(f)'
  BY <1>3, <1>4, <1>7, <1>8, <1>9 DEF DataInv
<1> QED BY <1>3, <1>4, <1>10 DEF m

\* What a step of flight f does to its bytes: nothing, or it appends a chunk.
Grows(f) ==
    \/ data'[f] = data[f] /\ state'[f] = state[f]
    \/ data'[f] = data[f] /\ ~fill[f]
    \/ /\ data'[f] = data[f]
       /\ \A c \in Caller : pc[c] = "waiting" /\ on[c] = f => woken'[c]
    \/ /\ Len(data'[f]) = Len(data[f]) + 1 /\ \A i \in 1 .. Len(data[f]) : data'[f][i] = data[f][i]
       /\ \A c \in Caller : pc[c] = "waiting" /\ on[c] = f => woken'[c]

\* A fill is only appended to, with the blob in order, and whoever waits for it is
\* woken then.
LEMMA FlightData ==
    ASSUME FillInv, NEW f \in Caller, FlightStep(f)
    PROVE  Grows(f) /\ DataInv(f)'
<1> USE FillAssumption DEF flightVars, userVars, fillVars, readVars, callVars
<1>0. TypeOK /\ FlyInv(f) /\ DataInv(f)
  BY DEF FillInv
<1>1. CASE FlyFill(f)
  <2>1. data' = data /\ data[f] = <<>> /\ ~fill[f]
    BY <1>0, <1>1 DEF FlyFill, FlyInv, BeforeFill
  <2>2. state'[f] \in {state[f], IF Size = 0 THEN verify(<<>>) ELSE "nil"}
    BY <1>0, <1>1 DEF FlyFill, TypeOK
  <2>3. state'[f] = "EOF" /\ state[f] # "EOF" => Size = 0
    BY <2>2
  <2>4. Len(<<>>) = 0 /\ DOMAIN <<>> = {}
    OBVIOUS
  <2>5. state[f] = "nil"
    BY <1>0, <1>1 DEF FlyFill, FlyInv, BeforeFill
  <2>6. DataInv(f)'
    BY <1>0, <2>1, <2>3, <2>4, <2>5 DEF DataInv
  <2> QED BY <2>1, <2>6 DEF Grows
<1>2. CASE FlyCopy(f)
  <2>1. CASE UNCHANGED fillVars
    BY <1>0, <2>1 DEF Grows, DataInv
  <2>2. CASE Len(data[f]) < Size /\ \E v \in {Len(data[f]) + 1} \cup {b \in {Bad} : MayCorrupt} : write(f, v)
    <3>1. PICK v \in {Len(data[f]) + 1} \cup {b \in {Bad} : MayCorrupt} : write(f, v)
      BY <2>2
    <3>2. /\ DataInv(f)' /\ Len(data'[f]) = Len(data[f]) + 1
          /\ \A i \in 1 .. Len(data[f]) : data'[f][i] = data[f][i]
      BY <1>0, <2>2, <3>1, Written
    <3>3. \A c \in Caller : pc[c] = "waiting" /\ on[c] = f => woken'[c]
      BY <3>1 DEF write, notify
    <3> QED BY <3>2, <3>3 DEF Grows
  <2> QED BY <1>2, <2>1, <2>2 DEF FlyCopy
<1>3. CASE FlyAbort(f)
  <2>1. data' = data /\ (\A c \in Caller : pc[c] = "waiting" /\ on[c] = f => woken'[c])
    BY <1>3 DEF FlyAbort, abort, notify
  <2>2. state'[f] = "EOF" => state[f] = "EOF"
    BY <1>0, <1>3 DEF FlyAbort, abort, TypeOK
  <2> QED BY <1>0, <2>1, <2>2 DEF Grows, DataInv
<1>4. CASE data' = data /\ state' = state
  BY <1>0, <1>4 DEF Grows, DataInv
<1> QED BY <1>1, <1>2, <1>3, <1>4 DEF FlightStep, Copying, Flying, FlyOpen, FlyStart, FlyCopied,
           FlyCommit, FlyEnd,
       end, FlyReady, FlyFinish, FlyUnwatch, TimerFires, CancelFill

\* What a caller has read stays what the fill holds: the bytes of a fill do not change
\* while anyone may read them, and who waits for more is woken.
LEMMA FlightCall ==
    ASSUME FillInv, NEW f \in Caller, FlightStep(f), NEW c \in Caller
    PROVE  CallInv(c)' /\ PosInv(c)' /\ ReadInv(c)'
<1> USE DEF flightVars, userVars, fillVars, readVars, callVars
<1>0. TypeOK /\ CallInv(c) /\ PosInv(c) /\ ReadInv(c)
  BY DEF FillInv
<1>1. FlightFrame(f)
  BY <1>0, FlightFrames
<1>2. CallInv(c)'
  BY <1>0, <1>1 DEF FlightFrame, CallInv, ReaderPcs
<1>3. PosInv(c)'
  BY <1>0, <1>1 DEF FlightFrame, PosInv
<1>4. CASE on[c] \in Caller \ {f}
  BY <1>0, <1>1, <1>2, <1>3, <1>4 DEF FlightFrame, ReadInv
<1>5. CASE on[c] \notin Caller
  <2>1. pc[c] \notin ReaderPcs
    BY <1>0, <1>5 DEF CallInv, ReaderPcs
  <2> QED BY <1>0, <1>1, <1>2, <1>3, <2>1 DEF FlightFrame, ReadInv, ReaderPcs
<1>6. CASE on[c] = f
  <2>1. /\ pc'[c] = pc[c] /\ on'[c] = f /\ ans'[c] = ans[c] /\ roff'[c] = roff[c] /\ base'[c] = base[c]
        /\ got'[c] = got[c] /\ upto'[c] = upto[c] /\ (resumed'[c] <=> resumed[c]) /\ (woken[c] => woken'[c])
    BY <1>1, <1>6 DEF FlightFrame
  <2>2. Grows(f)
    BY FlightData
  <2>3. pc[c] \in ReaderPcs => fill[f]
    BY <1>0, <1>6 DEF CallInv
  <2>4. CASE data'[f] = data[f] /\ state'[f] = state[f]
    <3>1. ReadInv(c)'
      BY <1>0, <1>6, <2>1, <2>4 DEF ReadInv
    <3> QED BY <1>2, <1>3, <3>1
  <2>5. CASE data'[f] = data[f] /\ ~fill[f]
    <3>1. ReadInv(c)'
      BY <1>0, <1>6, <2>1, <2>3, <2>5 DEF ReadInv, ReaderPcs
    <3> QED BY <1>2, <1>3, <3>1
  <2>6. CASE data'[f] = data[f] /\ (pc[c] = "waiting" => woken'[c])
    <3>1. ReadInv(c)'
      BY <1>0, <1>6, <2>1, <2>6 DEF ReadInv
    <3> QED BY <1>2, <1>3, <3>1
  <2>7. CASE /\ Len(data'[f]) = Len(data[f]) + 1 /\ \A i \in 1 .. Len(data[f]) : data'[f][i] = data[f][i]
             /\ pc[c] = "waiting" => woken'[c]
    <3>1. Len(data[f]) \in Nat /\ upto[c] \in Int /\ got[c] \in Seq(0 .. Size) /\ base[c] \in Nat
      BY <1>0, FillAssumption DEF TypeOK
    <3>2. pc[c] = "readat" => upto[c] <= Len(data'[f])
      BY <1>0, <1>6, <2>7, <3>1 DEF ReadInv
    <3>3. ASSUME pc[c] \in ReaderPcs, ~resumed[c], NEW i \in DOMAIN got[c]
          PROVE  base[c] + i <= Len(data'[f]) /\ got[c][i] = data'[f][base[c] + i]
      <4>1. base[c] + i <= Len(data[f]) /\ got[c][i] = data[f][base[c] + i]
        BY <1>0, <1>6, <3>3 DEF ReadInv
      <4>2. i \in Nat \ {0}
        BY <3>1, <3>3
      <4>3. base[c] + i \in 1 .. Len(data[f])
        BY <3>1, <4>1, <4>2
      <4> QED BY <2>7, <3>1, <4>1, <4>3
    <3>4. ReadInv(c)'
      BY <1>0, <1>6, <2>1, <2>7, <3>2, <3>3 DEF ReadInv
    <3> QED BY <1>2, <1>3, <3>4
  <2> QED BY <1>6, <2>2, <2>4, <2>5, <2>6, <2>7 DEF Grows
<1> QED BY <1>4, <1>5, <1>6

\* A caller's step leaves where the others are and what they have read alone.
LEMMA CallerOthers ==
    ASSUME FillInv, NEW d \in Caller, CallerStep(d), NEW c \in Caller \ {d}
    PROVE  CallInv(c)' /\ PosInv(c)' /\ ReadInv(c)'
<1>0. TypeOK /\ CallInv(c) /\ PosInv(c) /\ ReadInv(c)
  BY DEF FillInv
<1>1. CallerFrame(d)
  BY <1>0, CallerFrames
<1>2. CallInv(c)'
  BY <1>0, <1>1 DEF CallerFrame, CallerSame, CallInv
<1>3. PosInv(c)'
  BY <1>0, <1>1 DEF CallerFrame, CallerSame, PosInv
<1>4. ReadInv(c)'
  BY <1>0, <1>1 DEF CallerFrame, CallerSame, ReadInv
<1> QED BY <1>2, <1>3, <1>4

\* Chunks delivered from a source that is right, or wrong only where it is Bad, follow
\* the ones delivered before.
LEMMA DeliveredRight ==
    ASSUME FillInv, NEW d \in Caller, NEW src \in Seq(0 .. Size), NEW k \in Nat, Len(src) <= Size,
           roff[d] + k <= Len(src), Deliver(d, src, k), \A i \in DOMAIN src : src[i] \in {i, Bad}
    PROVE  /\ off'[d] = roff'[d] /\ base[d] + Len(got'[d]) = roff'[d]
           /\ \A i \in DOMAIN got'[d] : got'[d][i] \in {base[d] + i, Bad}
           /\ (\A i \in DOMAIN got[d] : base[d] + i <= Len(src) /\ got[d][i] = src[base[d] + i]) =>
                 \A i \in DOMAIN got'[d] : base[d] + i <= Len(src) /\ got'[d][i] = src[base[d] + i]
<1>0. TypeOK /\ PosInv(d) /\ ReadInv(d)
  BY DEF FillInv
<1>1. /\ got[d] \in Seq(0 .. Size) /\ Len(got[d]) \in Nat /\ DOMAIN got[d] = 1 .. Len(got[d]) /\ base[d] \in Nat
      /\ roff[d] \in Nat /\ Len(src) \in Nat /\ DOMAIN src = 1 .. Len(src)
  <2>1. PosTy /\ ReadTy
    BY <1>0, TypeGroups DEF Types
  <2>2. got[d] \in Seq(0 .. Size)
    BY <2>1 DEF ReadTy
  <2>3. base[d] \in Nat /\ roff[d] \in Nat
    BY <2>1, FillAssumption DEF PosTy
  <2>4. Len(got[d]) \in Nat /\ DOMAIN got[d] = 1 .. Len(got[d])
    BY <2>2
  <2>5. Len(src) \in Nat /\ DOMAIN src = 1 .. Len(src)
    OBVIOUS
  <2> QED BY <2>2, <2>3, <2>4, <2>5
<1>2. off[d] = roff[d] /\ base[d] + Len(got[d]) = roff[d]
  BY <1>0 DEF PosInv
<1>3. /\ got' \in [Caller -> Seq(0 .. Size)]
      /\ off'[d] = roff[d] + k /\ roff'[d] = roff[d] + k
      /\ Len(got'[d]) = Len(got[d]) + k
      /\ \A i \in 1 .. Len(got[d]) : got'[d][i] = got[d][i]
      /\ \A i \in 1 .. k : got'[d][Len(got[d]) + i] = src[roff[d] + i]
  BY <1>0, <1>2, Delivered
<1> DEFINE m == Len(got[d])
<1>4. DOMAIN got'[d] = 1 .. m + k
  BY <1>3
<1>5. m \in Nat /\ base[d] + m = roff[d]
  BY <1>1, <1>2
<1> HIDE DEF m
<1>6. \A i \in 1 .. m + k : i \in 1 .. m \/ \E j \in 1 .. k : i = m + j
  <2> SUFFICES ASSUME NEW i \in 1 .. m + k, i \notin 1 .. m PROVE i - m \in 1 .. k /\ i = m + (i - m)
    OBVIOUS
  <2> QED BY <1>5
<1>7. ASSUME NEW j \in 1 .. k
      PROVE  /\ got'[d][m + j] = src[base[d] + (m + j)] /\ base[d] + (m + j) \in 1 .. Len(src)
  <2>1. base[d] + (m + j) = roff[d] + j /\ roff[d] + j \in 1 .. Len(src)
    <3>1. \A b, p, r, l \in Nat : b + p = r /\ r + k <= l => b + (p + j) = r + j /\ r + j \in 1 .. l
      OBVIOUS
    <3>2. PICK b \in Nat : b = base[d]
      BY <1>1
    <3>3. PICK r \in Nat : r = roff[d]
      BY <1>1
    <3>4. PICK l \in Nat : l = Len(src)
      BY <1>1
    <3>5. b + m = r /\ r + k <= l
      BY <1>5, <3>2, <3>3, <3>4
    <3>6. b + (m + j) = r + j /\ r + j \in 1 .. l
      BY <1>5, <3>1, <3>5
    <3> QED BY <3>2, <3>3, <3>4, <3>6
  <2> QED BY <1>3, <2>1 DEF m
<1>8. \A i \in 1 .. m + k : got'[d][i] \in {base[d] + i, Bad}
  <2> SUFFICES ASSUME NEW i \in 1 .. m + k PROVE got'[d][i] \in {base[d] + i, Bad}
    OBVIOUS
  <2>1. CASE i \in 1 .. m
    BY <1>0, <1>1, <1>3, <2>1 DEF ReadInv, m
  <2>2. CASE \E j \in 1 .. k : i = m + j
    <3>1. PICK j \in 1 .. k : i = m + j
      BY <2>2
    <3>2. got'[d][i] = src[base[d] + i] /\ base[d] + i \in DOMAIN src
      BY <1>1, <1>7, <3>1
    <3> QED BY <3>2
  <2> QED BY <1>6, <2>1, <2>2
<1>9. ASSUME \A i \in DOMAIN got[d] : base[d] + i <= Len(src) /\ got[d][i] = src[base[d] + i],
             NEW i \in 1 .. m + k
      PROVE  base[d] + i <= Len(src) /\ got'[d][i] = src[base[d] + i]
  <2>1. CASE i \in 1 .. m
    BY <1>1, <1>3, <1>9, <2>1 DEF m
  <2>2. CASE \E j \in 1 .. k : i = m + j
    <3>1. PICK j \in 1 .. k : i = m + j
      BY <2>2
    <3>2. got'[d][i] = src[base[d] + i] /\ base[d] + i \in 1 .. Len(src)
      BY <1>7, <3>1
    <3> QED BY <1>1, <3>2
  <2> QED BY <1>6, <2>1, <2>2
<1>10. base[d] + Len(got'[d]) = roff'[d]
  <2>1. base[d] + (m + k) = roff[d] + k
    BY <1>1, <1>5
  <2> QED BY <1>3, <2>1 DEF m
<1> QED BY <1>3, <1>4, <1>8, <1>9, <1>10

\* A caller's own steps: where it is, and that what it reads is the blob.
LEMMA CallerOwn ==
    ASSUME FillInv, NEW d \in Caller, CallerStep(d)
    PROVE  CallInv(d)' /\ PosInv(d)' /\ ReadInv(d)'
<1> USE FillAssumption DEF flightVars, userVars, fillVars, readVars, callVars, ReaderPcs
<1>0. TypeOK /\ CallInv(d) /\ PosInv(d) /\ ReadInv(d)
  BY DEF FillInv
<1>f. UNCHANGED <<data, state, fill>>
  BY <1>0, CallerFrames DEF CallerFrame
<1>o. on[d] \in Caller => FlyInv(on[d]) /\ DataInv(on[d])
  BY DEF FillInv
<1>1. CASE Open(d)
  <2>1. CallInv(d)'
    BY <1>0, <1>f, <1>o, <1>1, SMTT(30) DEF Open, Answer, Goto, TypeOK, CallInv
  <2>2. PosInv(d)'
    BY <1>0, <1>f, <1>o, <1>1 DEF Open, Answer, Goto, TypeOK, PosInv, CallInv
  <2>3. ReadInv(d)'
    BY <1>0, <1>f, <1>o, <1>1, ZenonT(60) DEF Open, Answer, Goto, TypeOK, ReadInv, CallInv
  <2> QED BY <2>1, <2>2, <2>3
<1>2. CASE Join(d)
  <2>1. CallInv(d)'
    BY <1>0, <1>f, <1>o, <1>2 DEF Join, Goto, TypeOK, CallInv
  <2>2. PosInv(d)'
    BY <1>0, <1>f, <1>o, <1>2 DEF Join, Goto, TypeOK, PosInv, CallInv
  <2>3. ReadInv(d)'
    BY <1>0, <1>f, <1>o, <1>2 DEF Join, Goto, TypeOK, ReadInv, CallInv
  <2> QED BY <2>1, <2>2, <2>3
<1>3. CASE UsersJoin(d)
  <2>1. CallInv(d)'
    BY <1>0, <1>f, <1>o, <1>3 DEF UsersJoin, Goto, TypeOK, CallInv
  <2>2. PosInv(d)'
    BY <1>0, <1>f, <1>o, <1>3 DEF UsersJoin, Goto, TypeOK, PosInv, CallInv
  <2>3. ReadInv(d)'
    BY <1>0, <1>f, <1>o, <1>3 DEF UsersJoin, Goto, TypeOK, ReadInv, CallInv
  <2> QED BY <2>1, <2>2, <2>3
<1>4. CASE Waited(d)
  <2>a. /\ pc[d] = "wait" /\ UNCHANGED <<on, resumed>>
        /\ \/ pc' = [pc EXCEPT ![d] = "done"] /\ ans' = [ans EXCEPT ![d] = "canceled"]
           \/ pc' = [pc EXCEPT ![d] = "reading"] /\ fill[on[d]] /\ ans' = ans
           \/ pc' = [pc EXCEPT ![d] = "leave"] /\ ans' = ans
    BY <1>4 DEF Waited, Answer, Goto
  <2>b. /\ pc'[d] \in {"done", "reading", "leave"} /\ (ans'[d] = "EOF" => ans[d] = "EOF")
        /\ pc'[d] = "reading" => fill[on[d]]
    BY <1>0, <2>a DEF TypeOK
  <2>1. CallInv(d)'
    BY <1>0, <1>f, <2>a, <2>b DEF CallInv
  <2>2. PosInv(d)'
    BY <1>0, <1>f, <1>o, <1>4 DEF Waited, Answer, Goto, TypeOK, PosInv, CallInv
  <2>3. ReadInv(d)'
    <3>1. got'[d] = <<>> /\ pc'[d] \in {"done", "reading", "leave"}
      BY <1>0, <1>4 DEF Waited, Answer, Goto, TypeOK, PosInv
    <3>2. DOMAIN <<>> = {}
      OBVIOUS
    <3> QED BY <3>1, <3>2 DEF ReadInv
  <2> QED BY <2>1, <2>2, <2>3
<1>5. CASE LeaveFlight(d)
  <2>1. CallInv(d)'
    <3>1. pc'[d] \in {"done", "reopen"} /\ on'[d] = on[d] /\ resumed'[d] = resumed[d] /\ ans'[d] \in {ans[d], "origin", "canceled"}
      BY <1>0, <1>5 DEF LeaveFlight, Answer, Goto, TypeOK, StartErrs, FromFill
    <3> QED BY <1>0, <1>5, <3>1 DEF LeaveFlight, CallInv
  <2>2. PosInv(d)'
    BY <1>0, <1>f, <1>o, <1>5 DEF LeaveFlight, Answer, Goto, TypeOK, PosInv, CallInv
  <2>3. ReadInv(d)'
    <3>1. got'[d] = <<>> /\ pc'[d] \in {"done", "reopen"}
      BY <1>0, <1>5 DEF LeaveFlight, Answer, Goto, TypeOK, PosInv
    <3>2. DOMAIN <<>> = {}
      OBVIOUS
    <3> QED BY <3>1, <3>2 DEF ReadInv
  <2> QED BY <2>1, <2>2, <2>3
<1>6. CASE Reopen(d)
  <2>1. CallInv(d)'
    BY <1>0, <1>f, <1>o, <1>6, ZenonT(60) DEF Reopen, Answer, Goto, TypeOK, CallInv
  <2>2. PosInv(d)'
    BY <1>0, <1>f, <1>o, <1>6 DEF Reopen, Answer, Goto, TypeOK, PosInv, CallInv
  <2>3. ReadInv(d)'
    BY <1>0, <1>f, <1>o, <1>6, ZenonT(60) DEF Reopen, Answer, Goto, TypeOK, ReadInv, CallInv
  <2> QED BY <2>1, <2>2, <2>3
<1>7. CASE Leave(d)
  <2>1. CallInv(d)'
    BY <1>0, <1>f, <1>o, <1>7 DEF Leave, Answer, Goto, TypeOK, CallInv
  <2>2. PosInv(d)'
    BY <1>0, <1>f, <1>o, <1>7 DEF Leave, Answer, Goto, TypeOK, PosInv, CallInv
  <2>3. ReadInv(d)'
    BY <1>0, <1>f, <1>o, <1>7 DEF Leave, Answer, Goto, TypeOK, ReadInv, CallInv
  <2> QED BY <2>1, <2>2, <2>3
<1>8. CASE Read(d)
  <2>1. CallInv(d)'
    <3>1. on[d] \in Caller /\ state[on[d]] \in {"nil", "EOF", "mismatch", "error"} /\ ~resumed[d] /\ fill[on[d]] /\ pc[d] = "reading"
      BY <1>0, <1>8 DEF Read, CallInv, TypeOK, Failures
    <3>2. on'[d] = on[d] /\ resumed'[d] = resumed[d]
      BY <1>8 DEF Read
    <3>3. \/ pc'[d] = "stopped"
          \/ pc'[d] \in {"resume", "readat", "waiting"} /\ ans'[d] = ans[d]
      BY <1>0, <1>8 DEF Read, Failed, Answer, Goto, TypeOK
    <3> QED BY <1>0, <1>f, <3>1, <3>2, <3>3 DEF CallInv
  <2>2. PosInv(d)'
    BY <1>0, <1>f, <1>o, <1>8, SMTT(30) DEF Read, Failed, Answer, Goto, TypeOK, PosInv, CallInv
  <2>3. ReadInv(d)'
    <3>1. on[d] \in Caller /\ ~resumed[d] /\ pc[d] = "reading"
      BY <1>0, <1>8 DEF Read, CallInv
    <3>2. /\ on'[d] = on[d] /\ resumed'[d] = resumed[d] /\ base'[d] = base[d] /\ got'[d] = got[d] /\ roff'[d] = roff[d]
      BY <1>8 DEF Read
    <3>3. DataInv(on[d]) /\ state[on[d]] \in {"nil", "EOF"} \cup Failures
      BY <1>0, <1>o, <3>1 DEF TypeOK
    <3>4. roff[d] \in Nat /\ Len(data[on[d]]) \in Nat /\ base[d] \in Nat /\ got[d] \in Seq(0 .. Size)
      BY <1>0, <3>1 DEF TypeOK
    <3>5. ans'[d] = "EOF" => \A i \in DOMAIN got[d] : got[d][i] # Bad
      <4>1. ans'[d] = "EOF" => state[on[d]] = "EOF"
        BY <1>0, <1>8, <3>1, <3>3 DEF Read, Failed, Failures, Answer, Goto, TypeOK, CallInv
      <4>2. ASSUME state[on[d]] = "EOF", NEW i \in DOMAIN got[d] PROVE got[d][i] # Bad
        <5>1. base[d] + i <= Len(data[on[d]]) /\ got[d][i] = data[on[d]][base[d] + i] /\ i \in Nat \ {0}
          BY <1>0, <3>1, <3>4, <4>2, SMTT(30) DEF ReadInv
        <5>2. base[d] + i \in DOMAIN data[on[d]] /\ base[d] + i # 0
          <6>1. DOMAIN data[on[d]] = 1 .. Len(data[on[d]])
            BY <1>0, <3>1 DEF TypeOK
          <6>2. base[d] + i \in 1 .. Len(data[on[d]]) /\ base[d] + i # 0
            BY <3>4, <5>1
          <6> QED BY <6>1, <6>2
        <5>3. data[on[d]][base[d] + i] = base[d] + i
          BY <3>3, <4>2, <5>2 DEF DataInv
        <5> QED BY <5>1, <5>2, <5>3 DEF Bad
      <4> QED BY <4>1, <4>2
    <3>6. pc'[d] = "readat" => upto'[d] <= Len(data[on[d]])
      <4>1. pc'[d] = "readat" => upto'[d] = Len(data[on[d]])
        BY <1>0, <1>8 DEF Read, Failed, Answer, Goto, TypeOK
      <4> QED BY <3>4, <4>1
    <3>7. pc'[d] = "waiting" => roff[d] >= Len(data[on[d]]) /\ state[on[d]] = "nil"
      <4>1. pc'[d] = "waiting" => state[on[d]] \notin Failures /\ roff[d] >= Len(data[on[d]]) /\ ~(roff[d] >= Size /\ state[on[d]] = "EOF")
        BY <1>0, <1>8 DEF Read, Failed, Answer, Goto, TypeOK
      <4>2. state[on[d]] = "EOF" => Len(data[on[d]]) = Size
        BY <3>3 DEF DataInv
      <4> QED BY <3>3, <4>1, <4>2
    <3> QED BY <1>0, <1>f, <3>1, <3>2, <3>5, <3>6, <3>7 DEF ReadInv
  <2> QED BY <2>1, <2>2, <2>3
<1>9. CASE ReadAt(d)
  <2>a. PICK k \in 0 .. upto[d] - roff[d] : Deliver(d, data[on[d]], k)
    BY <1>9 DEF ReadAt
  <2>b. on[d] \in Caller /\ data[on[d]] \in Seq(0 .. Size) /\ DataInv(on[d]) /\ ~resumed[d] /\ pc[d] = "readat" /\ ans[d] # "EOF" /\ fill[on[d]]
    BY <1>0, <1>o, <1>9 DEF ReadAt, TypeOK, CallInv
  <2>c. k \in Nat /\ roff[d] + k <= Len(data[on[d]]) /\ Len(data[on[d]]) <= Size
    <3>1. upto[d] \in 0 .. Size /\ roff[d] \in 0 .. Size /\ Len(data[on[d]]) \in Nat /\ upto[d] <= Len(data[on[d]])
      BY <1>0, <2>b DEF TypeOK, ReadInv
    <3> QED BY <2>b, <3>1 DEF DataInv
  <2>d. /\ off'[d] = roff'[d] /\ base[d] + Len(got'[d]) = roff'[d]
        /\ \A i \in DOMAIN got'[d] : got'[d][i] \in {base[d] + i, Bad}
        /\ (\A i \in DOMAIN got[d] : base[d] + i <= Len(data[on[d]]) /\ got[d][i] = data[on[d]][base[d] + i]) =>
              \A i \in DOMAIN got'[d] : base[d] + i <= Len(data[on[d]]) /\ got'[d][i] = data[on[d]][base[d] + i]
    BY <2>a, <2>b, <2>c, DeliveredRight DEF DataInv
  <2>e. /\ on'[d] = on[d] /\ resumed'[d] = resumed[d] /\ base'[d] = base[d]
        /\ pc'[d] \in {"reading", "stopped", "resume"} /\ ans'[d] \in {ans[d], "error"}
    BY <1>0, <1>9 DEF ReadAt, Failed, Answer, Goto, TypeOK
  <2>1. CallInv(d)'
    BY <1>0, <1>f, <2>b, <2>e DEF CallInv
  <2>2. PosInv(d)'
    BY <2>d, <2>e DEF PosInv
  <2>3. ReadInv(d)'
    <3>1. \A i \in DOMAIN got'[d] : base[d] + i <= Len(data[on[d]]) /\ got'[d][i] = data[on[d]][base[d] + i]
      BY <1>0, <2>b, <2>d DEF ReadInv
    <3> QED BY <1>0, <1>f, <2>b, <2>d, <2>e, <3>1 DEF ReadInv
  <2> QED BY <2>1, <2>2, <2>3
<1>10. CASE Wake(d)
  <2>1. CallInv(d)'
    BY <1>0, <1>f, <1>o, <1>10 DEF Wake, Answer, Goto, TypeOK, CallInv
  <2>2. PosInv(d)'
    BY <1>0, <1>f, <1>o, <1>10 DEF Wake, Answer, Goto, TypeOK, PosInv, CallInv
  <2>3. ReadInv(d)'
    <3>1. \/ pc' = [pc EXCEPT ![d] = "reading"] /\ ans' = ans
          \/ pc' = [pc EXCEPT ![d] = "stopped"] /\ ans' = [ans EXCEPT ![d] = "canceled"]
      BY <1>10 DEF Wake, Answer, Goto
    <3>2. pc'[d] \in {"reading", "stopped"} /\ (ans'[d] = "EOF" => ans[d] = "EOF")
      BY <1>0, <3>1 DEF TypeOK
    <3>3. pc[d] = "waiting" /\ UNCHANGED <<on, upto, resumed, base, got>>
      BY <1>10 DEF Wake
    <3> QED BY <1>0, <1>f, <3>2, <3>3 DEF ReadInv
  <2> QED BY <2>1, <2>2, <2>3
<1>11. CASE Resume(d)
  <2>1. CallInv(d)'
    BY <1>0, <1>f, <1>o, <1>11 DEF Resume, Answer, Goto, TypeOK, CallInv
  <2>2. PosInv(d)'
    BY <1>0, <1>f, <1>o, <1>11, SMTT(30) DEF Resume, Answer, Goto, TypeOK, PosInv, CallInv
  <2>3. ReadInv(d)'
    <3>1. \/ pc' = [pc EXCEPT ![d] = "reading"] /\ ans' = ans /\ resumed' = [resumed EXCEPT ![d] = TRUE]
          \/ pc' = [pc EXCEPT ![d] = "stopped"] /\ ans' = [ans EXCEPT ![d] = "error"] /\ resumed' = resumed
      BY <1>11 DEF Resume, Answer, Goto
    <3>2. /\ pc'[d] \in {"reading", "stopped"} /\ (ans'[d] = "EOF" => ans[d] = "EOF")
          /\ ~resumed'[d] => ~resumed[d]
      BY <1>0, <3>1 DEF TypeOK
    <3>3. pc[d] = "resume" /\ UNCHANGED <<on, upto, base, got>>
      BY <1>11 DEF Resume
    <3> QED BY <1>0, <1>f, <3>2, <3>3 DEF ReadInv
  <2> QED BY <2>1, <2>2, <2>3
<1>12. CASE ReadOrigin(d)
  <2>b. on[d] \in Caller /\ resumed[d] /\ pc[d] = "reading" /\ fill[on[d]]
    BY <1>0, <1>12 DEF ReadOrigin, CallInv
  <2>d. /\ off'[d] = roff'[d] /\ base[d] + Len(got'[d]) = roff'[d]
        /\ \A i \in DOMAIN got'[d] : got'[d][i] \in {base[d] + i, Bad}
    <3>1. CASE \E k \in 1 .. Size - roff[d] : Deliver(d, [i \in 1 .. Size |-> i], k)
      <4>1. PICK k \in 1 .. Size - roff[d] : Deliver(d, [i \in 1 .. Size |-> i], k)
        BY <3>1
      <4> DEFINE src == [i \in 1 .. Size |-> i]
      <4>2. src \in Seq(0 .. Size) /\ Len(src) = Size /\ \A i \in DOMAIN src : src[i] \in {i, Bad}
        OBVIOUS
      <4>3. k \in Nat /\ roff[d] + k <= Size
        BY <1>0, <4>1 DEF TypeOK
      <4>4. Deliver(d, src, k)
        BY <4>1
      <4> HIDE DEF src
      <4> QED BY <4>2, <4>3, <4>4, DeliveredRight
    <3>2. CASE UNCHANGED <<got, roff, off>>
      BY <1>0, <3>2 DEF PosInv, ReadInv
    <3> QED BY <1>12, <3>1, <3>2 DEF ReadOrigin
  <2>e. /\ on'[d] = on[d] /\ resumed'[d] = resumed[d] /\ base'[d] = base[d]
        /\ pc'[d] \in {"reading", "stopped"} /\ (pc'[d] = "reading" => ans'[d] = ans[d])
    <3>1. UNCHANGED <<on, resumed, base>>
      BY <1>12 DEF ReadOrigin
    <3>2. UNCHANGED <<pc, ans>> \/ pc' = [pc EXCEPT ![d] = "stopped"]
      BY <1>12, <2>b DEF ReadOrigin, Failed, Answer, Goto
    <3> QED BY <1>0, <2>b, <3>1, <3>2 DEF TypeOK
  <2>1. CallInv(d)'
    BY <1>0, <1>f, <2>b, <2>e DEF CallInv
  <2>2. PosInv(d)'
    BY <2>d, <2>e DEF PosInv
  <2>3. ReadInv(d)'
    BY <1>0, <1>f, <2>b, <2>d, <2>e DEF ReadInv
  <2> QED BY <2>1, <2>2, <2>3
<1>13. CASE Seek(d)
  <2>1. CallInv(d)'
    BY <1>0, <1>f, <1>o, <1>13 DEF Seek, Answer, Goto, TypeOK, CallInv
  <2>2. PosInv(d)'
    BY <1>0, <1>f, <1>o, <1>13 DEF Seek, Answer, Goto, TypeOK, PosInv, CallInv
  <2>3. ReadInv(d)'
    BY <1>0, <1>f, <1>o, <1>13 DEF Seek, Answer, Goto, TypeOK, ReadInv, CallInv
  <2> QED BY <2>1, <2>2, <2>3
<1>14. CASE Close(d)
  <2>1. CallInv(d)'
    BY <1>0, <1>f, <1>o, <1>14 DEF Close, Goto, TypeOK, CallInv
  <2>2. PosInv(d)'
    BY <1>0, <1>f, <1>o, <1>14 DEF Close, Goto, TypeOK, PosInv, CallInv
  <2>3. ReadInv(d)'
    BY <1>0, <1>f, <1>o, <1>14 DEF Close, Goto, TypeOK, ReadInv, CallInv
  <2> QED BY <2>1, <2>2, <2>3
<1>15. CASE Cancel(d)
  <2>1. CallInv(d)'
    BY <1>0, <1>f, <1>o, <1>15 DEF Cancel, TypeOK, CallInv
  <2>2. PosInv(d)'
    BY <1>0, <1>f, <1>o, <1>15 DEF Cancel, TypeOK, PosInv, CallInv
  <2>3. ReadInv(d)'
    BY <1>0, <1>f, <1>o, <1>15 DEF Cancel, TypeOK, ReadInv, CallInv
  <2> QED BY <2>1, <2>2, <2>3
<1> QED BY <1>1, <1>2, <1>3, <1>4, <1>5, <1>6, <1>7, <1>8, <1>9, <1>10, <1>11, <1>12, <1>13,
           <1>14, <1>15 DEF CallerStep, Opening, Reading

\* How caller d moves among the users of flight f, and what the flight makes of it.
UsersMove(d, f) ==
    \/ (d \in Joined(f)' <=> d \in Joined(f)) /\ n'[f] = n[f] /\ (timer'[f] <=> timer[f])
    \/ d \notin Joined(f) /\ d \in Joined(f)' /\ n'[f] = n[f] + 1 /\ ~timer'[f]
    \/ /\ d \in Joined(f) /\ d \notin Joined(f)' /\ n'[f] = n[f] - 1
       /\ timer'[f] => timer[f] \/ n[f] = 1

\* How it moves among the readers of its fill.
FollowMove(d, f) ==
    \/ (d \in Following(f)' <=> d \in Following(f)) /\ readers'[f] = readers[f] /\ (released'[f] <=> released[f])
    \/ d \notin Following(f) /\ d \in Following(f)' /\ readers'[f] = readers[f] + 1 /\ ~released[f] /\ ~released'[f]
    \/ /\ d \in Following(f) /\ d \notin Following(f)' /\ readers'[f] = readers[f] - 1
       /\ released'[f] <=> released[f] \/ (ended[f] /\ readers'[f] = 0)

\* The cardinality of a set that d enters, leaves or does neither.
LEMMA OneMoves ==
    ASSUME NEW A, NEW B, NEW d, IsFiniteSet(A), B \ {d} = A \ {d}
    PROVE  /\ (d \in A <=> d \in B) => B = A
           /\ d \notin A /\ d \in B => Cardinality(B) = Cardinality(A) + 1 /\ B # {}
           /\ d \in A /\ d \notin B => Cardinality(B) = Cardinality(A) - 1 /\ (Cardinality(A) = 1 <=> B = {}) /\ A # {}
<1>1. (d \in A <=> d \in B) => B = A
  OBVIOUS
<1>2. ASSUME d \notin A, d \in B PROVE Cardinality(B) = Cardinality(A) + 1 /\ B # {}
  <2>1. B = A \cup {d}
    BY <1>2
  <2> QED BY <1>2, <2>1, FS_AddElement
<1>3. ASSUME d \in A, d \notin B
      PROVE  Cardinality(B) = Cardinality(A) - 1 /\ (Cardinality(A) = 1 <=> B = {}) /\ A # {}
  <2>1. B = A \ {d}
    BY <1>3
  <2>2. IsFiniteSet(B) /\ Cardinality(B) = Cardinality(A) - 1
    BY <1>3, <2>1, FS_RemoveElement
  <2>3. Cardinality(B) = 0 <=> B = {}
    BY <2>2, FS_EmptySet
  <2>4. Cardinality(A) \in Nat
    BY FS_CardinalityType
  <2> QED BY <1>3, <2>2, <2>3, <2>4
<1> QED BY <1>1, <1>2, <1>3

\* A flight that follows the moves of its callers has counted them.
LEMMA Counted ==
    ASSUME FillInv, NEW d \in Caller, CallerFrame(d), NEW f \in Caller, UsersMove(d, f), FollowMove(d, f)
    PROVE  CountInv(f)'
<1>0. CountInv(f) /\ TypeOK
  BY DEF FillInv
<1>1. Joined(f)' \ {d} = Joined(f) \ {d} /\ Following(f)' \ {d} = Following(f) \ {d}
  BY DEF CallerFrame, CallerSame, Joined, Following
<1>2. /\ IsFiniteSet(Joined(f)) /\ Cardinality(Joined(f)) \in Nat /\ (Cardinality(Joined(f)) = 0 <=> Joined(f) = {})
      /\ IsFiniteSet(Following(f)) /\ Cardinality(Following(f)) \in Nat
      /\ (Cardinality(Following(f)) = 0 <=> Following(f) = {})
  BY Finite
<1>3. ended' = ended
  BY DEF CallerFrame
<1> DEFINE A == Joined(f)
           B == Joined(f)'
           F == Following(f)
           G == Following(f)'
<1>4. /\ (d \in A <=> d \in B) => B = A
      /\ d \notin A /\ d \in B => Cardinality(B) = Cardinality(A) + 1 /\ B # {}
      /\ d \in A /\ d \notin B => Cardinality(B) = Cardinality(A) - 1 /\ (Cardinality(A) = 1 <=> B = {}) /\ A # {}
  BY <1>1, <1>2, OneMoves
<1>5. /\ (d \in F <=> d \in G) => G = F
      /\ d \notin F /\ d \in G => Cardinality(G) = Cardinality(F) + 1 /\ G # {}
      /\ d \in F /\ d \notin G => Cardinality(G) = Cardinality(F) - 1 /\ (Cardinality(F) = 1 <=> G = {}) /\ F # {}
  BY <1>1, <1>2, OneMoves
<1>6. n[f] = Cardinality(A) /\ readers[f] = Cardinality(F) /\ (timer[f] => A = {}) /\ (released[f] <=> (ended[f] /\ F = {}))
  BY <1>0 DEF CountInv
<1>7. n'[f] = Cardinality(B) /\ (timer'[f] => B = {})
  <2>1. UsersMove(d, f) <=>
           \/ (d \in B <=> d \in A) /\ n'[f] = n[f] /\ (timer'[f] <=> timer[f])
           \/ d \notin A /\ d \in B /\ n'[f] = n[f] + 1 /\ ~timer'[f]
           \/ d \in A /\ d \notin B /\ n'[f] = n[f] - 1 /\ (timer'[f] => timer[f] \/ n[f] = 1)
    BY DEF UsersMove
  <2> HIDE DEF A, B, F, G
  <2> QED BY <1>4, <1>6, <2>1
<1>8. readers'[f] = Cardinality(G) /\ (released'[f] <=> (ended[f] /\ G = {}))
  <2>1. FollowMove(d, f) <=>
           \/ (d \in G <=> d \in F) /\ readers'[f] = readers[f] /\ (released'[f] <=> released[f])
           \/ d \notin F /\ d \in G /\ readers'[f] = readers[f] + 1 /\ ~released[f] /\ ~released'[f]
           \/ /\ d \in F /\ d \notin G /\ readers'[f] = readers[f] - 1
              /\ released'[f] <=> released[f] \/ (ended[f] /\ readers'[f] = 0)
    BY DEF FollowMove
  <2>2. Cardinality(F) \in Nat
    BY <1>2
  <2> HIDE DEF A, B, F, G
  <2>3. CASE (d \in G <=> d \in F) /\ readers'[f] = readers[f] /\ (released'[f] <=> released[f])
    BY <1>5, <1>6, <2>3
  <2>4. CASE d \notin F /\ d \in G /\ readers'[f] = readers[f] + 1 /\ ~released[f] /\ ~released'[f]
    BY <1>5, <1>6, <2>4
  <2>5. CASE /\ d \in F /\ d \notin G /\ readers'[f] = readers[f] - 1
             /\ released'[f] <=> released[f] \/ (ended[f] /\ readers'[f] = 0)
    <3>1. readers'[f] = 0 <=> Cardinality(F) = 1
      BY <1>6, <2>2, <2>5
    <3> QED BY <1>5, <1>6, <2>5, <3>1
  <2> QED BY <2>1, <2>3, <2>4, <2>5
<1> QED BY <1>3, <1>7, <1>8 DEF CountInv

\* No path of openFill, Read or Close joins or follows without being counted, leaves
\* twice, or goes without leaving.
LEMMA Moves ==
    ASSUME FillInv, NEW d \in Caller, CallerStep(d), NEW f \in Caller
    PROVE  UsersMove(d, f) /\ FollowMove(d, f)
<1> USE FillAssumption DEF flightVars, userVars, fillVars, readVars, callVars
<1>0. TypeOK /\ CallInv(d) /\ PosInv(d)
  BY DEF FillInv
<1>m. /\ pc[d] \notin {"idle", "join", "done"} => on[d] \in Caller
      /\ pc[d] \in ReaderPcs \ {"closing"} /\ ~resumed[d] => readers[on[d]] \in Nat \ {0} /\ ~released[on[d]]
  BY Members
<1>e. ended' = ended /\ watch' = watch
  BY <1>0, CallerFrames DEF CallerFrame
<1>j. d \in Joined(f) <=> on[d] = f /\ pc[d] \notin {"users", "done", "reopen"}
  BY DEF Joined
<1>k. d \in Joined(f)' <=> on'[d] = f /\ pc'[d] \notin {"users", "done", "reopen"}
  BY DEF Joined
<1>g. d \in Following(f) <=> on[d] = f /\ pc[d] \in {"reading", "readat", "waiting", "resume", "stopped"} /\ ~resumed[d]
  BY DEF Following
<1>h. d \in Following(f)' <=> on'[d] = f /\ pc'[d] \in {"reading", "readat", "waiting", "resume", "stopped"} /\ ~resumed'[d]
  BY DEF Following
<1>l. ASSUME NEW g \in Caller, leave(g)
      PROVE  /\ f # g => n'[f] = n[f] /\ (timer'[f] <=> timer[f])
             /\ f = g => n'[f] = n[f] - 1 /\ (timer'[f] => timer[f] \/ n[f] = 1)
  BY <1>0, <1>l DEF leave, TypeOK
<1>c. ASSUME NEW g \in Caller, closeReader(g)
      PROVE  /\ f # g => readers'[f] = readers[f] /\ (released'[f] <=> released[f])
             /\ f = g => readers'[f] = readers[f] - 1 /\ (released'[f] <=> released[f] \/ (ended[f] /\ readers'[f] = 0))
  <2>1. readers' = [readers EXCEPT ![g] = @ - 1] /\ released' = [released EXCEPT ![g] = @ \/ (ended'[g] /\ readers'[g] = 0)]
    BY <1>c DEF closeReader, maybeRelease
  <2> QED BY <1>0, <1>e, <2>1 DEF TypeOK
<1>1. CASE Open(d)
  <2>1. UsersMove(d, f)
    BY <1>0, <1>m, <1>j, <1>k, <1>1 DEF Open, Answer, Goto, TypeOK, CallInv, UsersMove
  <2>2. FollowMove(d, f)
    BY <1>0, <1>m, <1>e, <1>g, <1>h, <1>1 DEF Open, Answer, Goto, TypeOK, CallInv, FollowMove,
       ReaderPcs
  <2> QED BY <2>1, <2>2
<1>2. CASE Join(d)
  <2>1. UsersMove(d, f)
    BY <1>0, <1>m, <1>j, <1>k, <1>2 DEF Join, Goto, TypeOK, CallInv, UsersMove
  <2>2. FollowMove(d, f)
    BY <1>0, <1>m, <1>e, <1>g, <1>h, <1>2 DEF Join, Goto, TypeOK, CallInv, FollowMove, ReaderPcs
  <2> QED BY <2>1, <2>2
<1>3. CASE UsersJoin(d)
  <2>1. UsersMove(d, f)
    BY <1>0, <1>m, <1>j, <1>k, <1>3 DEF UsersJoin, join, Goto, TypeOK, CallInv, UsersMove
  <2>2. FollowMove(d, f)
    BY <1>0, <1>m, <1>e, <1>g, <1>h, <1>3 DEF UsersJoin, join, Goto, TypeOK, CallInv, FollowMove,
       ReaderPcs
  <2> QED BY <2>1, <2>2
<1>4. CASE Waited(d)
  <2>a. on[d] \in Caller /\ pc[d] = "wait" /\ ~resumed[d] /\ UNCHANGED <<on, resumed, released>>
    BY <1>0, <1>m, <1>4 DEF Waited, CallInv
  <2>b. \/ pc' = [pc EXCEPT ![d] = "done"] /\ leave(on[d]) /\ readers' = readers
        \/ /\ pc' = [pc EXCEPT ![d] = "reading"] /\ UNCHANGED <<n, timer>>
           /\ ~released[on[d]] /\ readers' = [readers EXCEPT ![on[d]] = @ + 1]
        \/ pc' = [pc EXCEPT ![d] = "leave"] /\ UNCHANGED <<n, timer, readers>>
    BY <1>4 DEF Waited, Answer, Goto
  <2>c. /\ pc'[d] \in {"done", "reading", "leave"}
        /\ pc'[d] = "done" => leave(on[d]) /\ readers' = readers
        /\ pc'[d] = "reading" => /\ UNCHANGED <<n, timer>> /\ ~released[on[d]]
                                 /\ readers' = [readers EXCEPT ![on[d]] = @ + 1]
        /\ pc'[d] = "leave" => UNCHANGED <<n, timer, readers>>
    BY <1>0, <2>b DEF TypeOK
  <2>1. UsersMove(d, f)
    BY <1>j, <1>k, <1>l, <2>a, <2>c DEF UsersMove
  <2>2. FollowMove(d, f)
    <3>1. CASE pc'[d] = "reading" /\ on[d] = f
      <4>1. readers'[f] = readers[f] + 1 /\ ~released[f] /\ ~released'[f]
        BY <1>0, <2>a, <2>c, <3>1 DEF TypeOK
      <4> QED BY <1>g, <1>h, <2>a, <3>1, <4>1 DEF FollowMove
    <3>2. CASE pc'[d] = "reading" /\ on[d] # f
      <4>1. readers'[f] = readers[f] /\ (released'[f] <=> released[f])
        BY <1>0, <2>a, <2>c, <3>2 DEF TypeOK
      <4> QED BY <1>g, <1>h, <2>a, <3>2, <4>1 DEF FollowMove
    <3>3. CASE pc'[d] # "reading"
      BY <1>g, <1>h, <2>a, <2>c, <3>3 DEF FollowMove
    <3> QED BY <3>1, <3>2, <3>3
  <2> QED BY <2>1, <2>2
<1>5. CASE LeaveFlight(d)
  <2>a. on[d] \in Caller /\ pc[d] = "leave" /\ leave(on[d]) /\ UNCHANGED <<on, resumed, released, readers>>
    BY <1>m, <1>5 DEF LeaveFlight
  <2>b. pc'[d] \in {"done", "reopen"}
    BY <1>0, <1>5 DEF LeaveFlight, Answer, Goto, TypeOK
  <2>1. UsersMove(d, f)
    BY <1>j, <1>k, <1>l, <2>a, <2>b DEF UsersMove
  <2>2. FollowMove(d, f)
    BY <1>g, <1>h, <2>a, <2>b DEF FollowMove
  <2> QED BY <2>1, <2>2
<1>6. CASE Reopen(d)
  <2>1. UsersMove(d, f)
    BY <1>0, <1>m, <1>j, <1>k, <1>6 DEF Reopen, Answer, Goto, TypeOK, CallInv, UsersMove
  <2>2. FollowMove(d, f)
    BY <1>0, <1>m, <1>e, <1>g, <1>h, <1>6, SMTT(30) DEF Reopen, Answer, Goto, TypeOK, CallInv,
       FollowMove,
       ReaderPcs
  <2> QED BY <2>1, <2>2
<1>7. CASE Leave(d)
  <2>1. UsersMove(d, f)
    BY <1>0, <1>m, <1>j, <1>k, <1>7 DEF Leave, leave, Answer, Goto, TypeOK, CallInv, UsersMove
  <2>2. FollowMove(d, f)
    BY <1>0, <1>m, <1>e, <1>g, <1>h, <1>7 DEF Leave, leave, Answer, Goto, TypeOK, CallInv,
       FollowMove, ReaderPcs
  <2> QED BY <2>1, <2>2
<1>8. CASE Read(d)
  <2>1. UsersMove(d, f)
    <3>1. \E l \in {"reading", "readat", "waiting", "stopped", "resume"} : pc' = [pc EXCEPT ![d] = l]
      BY <1>8 DEF Read, Failed, Answer, Goto
    <3>2. pc'[d] \in {"reading", "readat", "waiting", "stopped", "resume"}
      BY <1>0, <3>1 DEF TypeOK
    <3>3. pc[d] = "reading" /\ UNCHANGED <<on, n, timer>>
      BY <1>8 DEF Read
    <3> QED BY <1>j, <1>k, <3>2, <3>3 DEF UsersMove
  <2>2. FollowMove(d, f)
    BY <1>0, <1>m, <1>e, <1>g, <1>h, <1>8 DEF Read, Failed, Answer, Goto, TypeOK, CallInv,
       FollowMove, ReaderPcs
  <2> QED BY <2>1, <2>2
<1>9. CASE ReadAt(d)
  <2>a. /\ pc[d] \in {"readat", "reading"} /\ UNCHANGED <<on, resumed, n, timer, readers, released>>
    BY <1>9 DEF ReadAt
  <2>b. pc'[d] \in {"reading", "stopped", "resume"}
    <3>1. \E l \in {"reading", "stopped", "resume"} : pc' = [pc EXCEPT ![d] = l]
      BY <1>9 DEF ReadAt, Failed, Answer, Goto
    <3>2. pc \in [Caller -> Labels]
      BY <1>0 DEF TypeOK
    <3> QED BY <3>1, <3>2
  <2>1. UsersMove(d, f)
    BY <1>j, <1>k, <2>a, <2>b DEF UsersMove
  <2>2. FollowMove(d, f)
    BY <1>g, <1>h, <2>a, <2>b DEF FollowMove
  <2> QED BY <2>1, <2>2
<1>10. CASE Wake(d)
  <2>1. UsersMove(d, f)
    BY <1>0, <1>m, <1>j, <1>k, <1>10 DEF Wake, Answer, Goto, TypeOK, CallInv, UsersMove
  <2>2. FollowMove(d, f)
    BY <1>0, <1>m, <1>e, <1>g, <1>h, <1>10 DEF Wake, Answer, Goto, TypeOK, CallInv, FollowMove,
       ReaderPcs
  <2> QED BY <2>1, <2>2
<1>11. CASE Resume(d)
  <2>a. pc[d] = "resume" /\ on[d] \in Caller /\ ~resumed[d] /\ UNCHANGED <<on, n, timer>>
    BY <1>0, <1>m, <1>11 DEF Resume, CallInv
  <2>b. \/ pc'[d] = "reading" /\ closeReader(on[d]) /\ resumed'[d]
        \/ pc'[d] = "stopped" /\ UNCHANGED <<resumed, readers, released>>
    BY <1>0, <1>11, SMTT(30) DEF Resume, Answer, Goto, TypeOK
  <2>1. UsersMove(d, f)
    BY <1>j, <1>k, <2>a, <2>b DEF UsersMove
  <2>2. FollowMove(d, f)
    BY <1>c, <1>g, <1>h, <2>a, <2>b DEF FollowMove
  <2> QED BY <2>1, <2>2
<1>12. CASE ReadOrigin(d)
  <2>a. /\ pc[d] \in {"readat", "reading"} /\ UNCHANGED <<on, resumed, n, timer, readers, released>>
    BY <1>12 DEF ReadOrigin
  <2>b. pc'[d] \in {"reading", "stopped", "resume"}
    BY <1>0, <1>12, ZenonT(60) DEF ReadOrigin, Failed, Answer, Goto, TypeOK
  <2>1. UsersMove(d, f)
    BY <1>j, <1>k, <2>a, <2>b DEF UsersMove
  <2>2. FollowMove(d, f)
    BY <1>g, <1>h, <2>a, <2>b DEF FollowMove
  <2> QED BY <2>1, <2>2
<1>13. CASE Seek(d)
  <2>1. UsersMove(d, f)
    BY <1>0, <1>m, <1>j, <1>k, <1>13 DEF Seek, Answer, Goto, TypeOK, CallInv, UsersMove
  <2>2. FollowMove(d, f)
    BY <1>0, <1>m, <1>e, <1>g, <1>h, <1>13 DEF Seek, Answer, Goto, TypeOK, CallInv, FollowMove,
       ReaderPcs
  <2> QED BY <2>1, <2>2
<1>14. CASE Close(d)
  <2>a. pc[d] \in {"reading", "stopped"} /\ on[d] \in Caller /\ UNCHANGED <<on, n, timer, resumed>>
    BY <1>0, <1>m, <1>14 DEF Close
  <2>b. pc'[d] = "closing" /\ IF resumed[d] THEN UNCHANGED <<readers, released>> ELSE closeReader(on[d])
    BY <1>0, <1>14 DEF Close, Goto, TypeOK
  <2>1. UsersMove(d, f)
    BY <1>j, <1>k, <2>a, <2>b DEF UsersMove
  <2>2. FollowMove(d, f)
    BY <1>c, <1>g, <1>h, <2>a, <2>b DEF FollowMove
  <2> QED BY <2>1, <2>2
<1>15. CASE Cancel(d)
  <2>1. UsersMove(d, f)
    BY <1>0, <1>m, <1>j, <1>k, <1>15 DEF Cancel, TypeOK, CallInv, UsersMove
  <2>2. FollowMove(d, f)
    BY <1>0, <1>m, <1>e, <1>g, <1>h, <1>15 DEF Cancel, TypeOK, CallInv, FollowMove, ReaderPcs
  <2> QED BY <2>1, <2>2
<1> QED BY <1>1, <1>2, <1>3, <1>4, <1>5, <1>6, <1>7, <1>8, <1>9, <1>10, <1>11, <1>12, <1>13,
           <1>14, <1>15 DEF CallerStep, Opening, Reading

\* The goroutine and the timer of a flight leave its callers alone, and release its
\* temp file when nobody follows it.
LEMMA FlightCount ==
    ASSUME FillInv, NEW f \in Caller, FlightStep(f), NEW g \in Caller
    PROVE  CountInv(g)'
<1> USE DEF flightVars, userVars, fillVars, readVars, callVars
<1>0. TypeOK /\ CountInv(g) /\ CountInv(f)
  BY DEF FillInv
<1>1. FlightFrame(f)
  BY <1>0, FlightFrames
<1>2. \A h : Joined(h)' = Joined(h) /\ Following(h)' = Following(h)
  BY <1>1 DEF FlightFrame, Joined, Following
<1>3. CASE g # f
  BY <1>0, <1>1, <1>2, <1>3 DEF FlightFrame, CountInv
<1>4. CASE g = f
  <2>1. n'[f] = n[f] /\ readers'[f] = readers[f] /\ readers' = readers
    BY <1>1 DEF FlightFrame
  <2>2. timer'[f] => timer[f] \/ n[f] = 0
    BY <1>0 DEF FlightStep, Copying, Flying, FlyOpen, FlyCopy, FlyStart, FlyFill, FlyCopied,
       FlyCommit, FlyEnd,
       FlyAbort, FlyReady, FlyFinish, FlyUnwatch, TimerFires, CancelFill, TypeOK
  <2>3. \/ (ended'[f] <=> ended[f]) /\ (released'[f] <=> released[f])
        \/ ended'[f] /\ (released'[f] <=> released[f] \/ readers[f] = 0)
    <3>1. CASE FlyEnd(f)
      BY <1>0, <2>1, <3>1 DEF FlyEnd, end, maybeRelease, TypeOK
    <3>2. CASE FlyAbort(f)
      BY <1>0, <2>1, <3>2 DEF FlyAbort, abort, maybeRelease, TypeOK
    <3>3. CASE UNCHANGED <<ended, released>>
      BY <3>3
    <3> QED BY <3>1, <3>2, <3>3 DEF FlightStep, Copying, Flying, FlyOpen, FlyCopy, write,
               FlyStart, FlyFill,
               FlyCopied, FlyCommit, FlyReady, FlyFinish, FlyUnwatch, TimerFires, CancelFill
  <2>4. (Cardinality(Joined(f)) = 0 <=> Joined(f) = {}) /\ (Cardinality(Following(f)) = 0 <=> Following(f) = {})
    BY Finite
  <2> QED BY <1>0, <1>2, <1>4, <2>1, <2>2, <2>3, <2>4 DEF CountInv
<1> QED BY <1>3, <1>4

\* Nobody has called.
LEMMA InitFill == Init => FillInv
<1> SUFFICES ASSUME Init PROVE FillInv
  OBVIOUS
<1> USE FillAssumption
<1>1. <<>> \in Seq(0 .. Size) /\ Len(<<>>) = 0 /\ DOMAIN <<>> = {} /\ 0 \in 0 .. Size
  OBVIOUS
<1>2. TypeOK
  <2>1. Types
    BY <1>1 DEF Init, Types, FlightTy, UserTy, FillTy, CallTy, PosTy, ReadTy, FlyLabels, Labels
  <2> QED BY <2>1, TypeGroups
<1>3. ASSUME NEW f \in Caller PROVE FlyInv(f) /\ DataInv(f) /\ LeadInv(f) /\ CountInv(f)
  <2>1. FlyInv(f)
    BY <1>1 DEF Init, FlyInv, DuringFill
  <2>2. DataInv(f)
    BY <1>1 DEF Init, DataInv
  <2>3. LeadInv(f)
    BY DEF Init, LeadInv
  <2>4. Joined(f) = {} /\ Following(f) = {}
    BY DEF Init, Joined, Following
  <2>5. CountInv(f)
    BY <2>4, FS_EmptySet DEF Init, CountInv
  <2> QED BY <2>1, <2>2, <2>3, <2>5
<1>4. ASSUME NEW c \in Caller PROVE CallInv(c) /\ PosInv(c) /\ ReadInv(c)
  <2>1. CallInv(c)
    BY DEF Init, CallInv, ReaderPcs
  <2>2. PosInv(c)
    BY <1>1 DEF Init, PosInv
  <2>3. ReadInv(c)
    BY <1>1 DEF Init, ReadInv, ReaderPcs
  <2> QED BY <2>1, <2>2, <2>3
<1> QED BY <1>2, <1>3, <1>4 DEF FillInv

\* A step that changes no flight and no caller keeps their invariants.
LEMMA StutterFill ==
    ASSUME FillInv, primary' \in BOOLEAN, UNCHANGED <<active, flightVars, userVars, fillVars, callVars, readVars>>
    PROVE  FillInv'
<1> USE DEF flightVars, userVars, fillVars, readVars, callVars
<1>1. TypeOK'
  BY DEF FillInv, TypeOK
<1>2. \A h : Joined(h)' = Joined(h) /\ Following(h)' = Following(h)
  BY DEF Joined, Following
<1>3. \A f \in Caller : FlyInv(f)' /\ DataInv(f)' /\ LeadInv(f)' /\ CountInv(f)'
  BY <1>2 DEF FillInv, FlyInv, DataInv, LeadInv, CountInv
<1>4. \A c \in Caller : CallInv(c)' /\ PosInv(c)' /\ ReadInv(c)'
  BY DEF FillInv, CallInv, PosInv, ReadInv
<1> QED BY <1>1, <1>3, <1>4 DEF FillInv

\* Every step keeps the invariant.
LEMMA NextFill == FillInv /\ [Next]_vars => FillInv'
<1> SUFFICES ASSUME FillInv, [Next]_vars PROVE FillInv'
  OBVIOUS
<1>0. TypeOK
  BY DEF FillInv
<1>1. CASE UNCHANGED vars \/ Finished \/ Add \/ Erase
  <2>1. primary' \in BOOLEAN /\ UNCHANGED <<active, flightVars, userVars, fillVars, callVars, readVars>>
    BY <1>0, <1>1 DEF Finished, Add, Erase, vars, TypeOK
  <2> QED BY <2>1, StutterFill
<1>2. ASSUME NEW d \in Caller, CallerStep(d) PROVE FillInv'
  <2>0. CallerFrame(d)
    BY <1>0, <1>2, CallerFrames
  <2>1. TypeOK'
    BY <1>2, CallerTypes
  <2>2. ASSUME NEW f \in Caller PROVE FlyInv(f)' /\ DataInv(f)' /\ LeadInv(f)' /\ CountInv(f)'
    <3>1. UsersMove(d, f) /\ FollowMove(d, f)
      BY <1>2, Moves
    <3>2. CountInv(f)'
      BY <2>0, <3>1, Counted
    <3> QED BY <1>2, <3>2, CallerFly, CallerLead
  <2>3. ASSUME NEW c \in Caller PROVE CallInv(c)' /\ PosInv(c)' /\ ReadInv(c)'
    <3>1. CASE c = d
      BY <1>2, <3>1, CallerOwn
    <3>2. CASE c # d
      BY <1>2, <3>2, CallerOthers
    <3> QED BY <3>1, <3>2
  <2> QED BY <2>1, <2>2, <2>3 DEF FillInv
<1>3. ASSUME NEW f \in Caller, FlightStep(f) PROVE FillInv'
  <2>1. TypeOK'
    BY <1>3, FlightTypes
  <2>2. ASSUME NEW g \in Caller PROVE FlyInv(g)' /\ DataInv(g)' /\ LeadInv(g)' /\ CountInv(g)'
    <3>1. DataInv(g)'
      <4>1. CASE g = f
        BY <1>3, <4>1, FlightData
      <4>2. CASE g # f
        BY <1>0, <1>3, <4>2, FlightFrames DEF FlightFrame, FillInv, DataInv
      <4> QED BY <4>1, <4>2
    <3> QED BY <1>3, <3>1, FlightFly, FlightCount
  <2>3. ASSUME NEW c \in Caller PROVE CallInv(c)' /\ PosInv(c)' /\ ReadInv(c)'
    BY <1>3, FlightCall
  <2> QED BY <2>1, <2>2, <2>3 DEF FillInv
<1> QED BY <1>1, <1>2, <1>3 DEF Next, CallerStep, FlightStep

\* The invariant holds of every reachable state, for every instance.
THEOREM FillInvariant == Spec => []FillInv
  BY InitFill, NextFill, PTL DEF Spec

\* The variables keep their types: no counter of a flight goes below zero and no
\* position or fill passes the size of the blob.
THEOREM TypeCorrect == Spec => []TypeOK
<1>1. FillInv => TypeOK
  BY DEF FillInv
<1> QED BY <1>1, FillInvariant, PTL

\* For any number of callers a flight counts exactly those that read or wait, its fill
\* those that follow it, and the idle timer runs only without any.
THEOREM CountsExactCorrect == Spec => []CountsExact
<1>1. FillInv => CountsExact
  BY DEF FillInv, CountInv, CountsExact
<1> QED BY <1>1, FillInvariant, PTL

\* The temp file of a fill is kept as long as it is written or followed, and no longer.
THEOREM KeptForReadersCorrect == Spec => []KeptForReaders
<1>1. FillInv => KeptForReaders
  BY DEF FillInv, CountInv, KeptForReaders
<1> QED BY <1>1, FillInvariant, PTL

\* No Read of a fill waits for a wakeup that has happened: what it would return has
\* closed the channel it waits on.
THEOREM NoLostWakeupCorrect == Spec => []NoLostWakeup
<1>1. FillInv => NoLostWakeup
  BY DEF FillInv, ReadInv, NoLostWakeup
<1> QED BY <1>1, FillInvariant, PTL

\* For every size of the blob: what a caller reads is the blob in order from where it
\* set its position, also across a fill that failed, and io.EOF of a fill stands for
\* bytes that are right.
THEOREM ReadsRightCorrect == Spec => []ReadsRight
<1>1. FillInv => ReadsRight
  BY DEF FillInv, ReadInv, ReadsRight, InOrder, EOFVerified
<1> QED BY <1>1, FillInvariant, PTL

\* At most one flight fills the primary at a time, whoever joins and leaves.
THEOREM OneFillCorrect == Spec => []OneFill
<1>1. FillInv => OneFill
  BY DEF FillInv, FlyInv, LeadInv, OneFill, DuringFill
<1> QED BY <1>1, FillInvariant, PTL
=============================================================================
