----------------------------- MODULE FillCache -----------------------------
(***************************************************************************)
(* CacheStore.Open into a primary that is a Filler (cache.go, fill.go), for *)
(* one namespace and digest.  A caller that misses the primary joins the   *)
(* flight registered for the blob or leads a new one; the leader starts a  *)
(* goroutine, fly, that copies the origin into a Fill of the primary, and  *)
(* every caller of the flight, the leader too, follows that Fill.          *)
(*                                                                         *)
(* A flight is named after the caller that leads it: a caller makes one    *)
(* call.  The blob is Size chunks; chunk i, read right, is the number i,   *)
(* and Bad is a chunk the origin got wrong.  The origin and the primary's  *)
(* publish are external to cache.go and fail when MayFail says so.         *)
(***************************************************************************)
EXTENDS FiniteSets, Integers, Sequences

CONSTANTS
    Caller,      \* callers of Open, each with a context of its own
    None,        \* nil
    Size,        \* bound: chunks of the blob
    MayFail,     \* the origin, the primary and its files may return errors
    MayCorrupt,  \* the origin may return wrong bytes
    MaySeek,     \* callers seek
    MayCancel,   \* callers' contexts may be canceled
    Others       \* others add the blob to the primary, or erase it there

ASSUME FillAssumption ==
    /\ IsFiniteSet(Caller)
    /\ None \notin Caller
    /\ None # "EOF"
    /\ Size \in Nat
    /\ {MayFail, MayCorrupt, MaySeek, MayCancel, Others} \subseteq BOOLEAN

Bad == 0

VARIABLES
    primary,   \* the primary has the blob
    active,    \* the flight the registry has for the blob, or None
    \* flight f: the goroutine and what it publishes by closing ready
    fpc,       \* fpc[f]: where fly is, "none" before it is started
    ready,     \* ready[f]: closed
    fill,      \* fill[f]: there is a fill to follow
    startErr,  \* startErr[f]: why there is none, or None
    \* flightUsers, and the context of fly
    n,         \* n[f]: callers reading or waiting
    watch,     \* watch[f]: cancel is set
    timer,     \* timer[f]: the idle timer is pending
    fired,     \* fired[f]: it went off, and cancel is about to be called
    canceled,  \* canceled[f]: fillCtx is done
    \* fillTracker
    data,      \* data[f]: the chunks written
    state,     \* state[f]: "nil", "EOF", or why the fill failed
    ended, readers, released,
    \* caller c: its call and the cacheFollower it reads from
    pc, ctx,   \* ctx[c]: its context is canceled
    on,        \* on[c]: the flight it joined
    ans,       \* ans[c]: what its call, or its last Read, returned
    off,       \* off[c]: cacheFollower.off
    roff,      \* roff[c]: the offset of the reader it wraps
    upto,      \* upto[c]: the written a Read saw
    woken,     \* woken[c]: the wake channel a Read waits on is closed
    resumed,   \* resumed[c]: that reader is the origin's
    base, got  \* got[c]: the chunks read since the position was set to base[c]

flightVars == <<fpc, ready, fill, startErr>>
userVars == <<n, watch, timer, fired, canceled>>
fillVars == <<data, state, ended, readers, released>>
readVars == <<off, roff, upto, woken, resumed, base, got>>
callVars == <<pc, ctx, on, ans>>
vars == <<primary, active, flightVars, userVars, fillVars, callVars, readVars>>

FlyLabels == {"none", "start", "open", "fill", "copy", "copied", "commit", "end",
              "abort", "ready", "finish", "unwatch", "done"}
Labels == {"idle", "join", "users", "wait", "leave", "reopen", "reading", "readat",
           "waiting", "resume", "stopped", "closing", "done"}
Failures == {"mismatch", "error"}

\* Errors of fly's start; the ones of Fill set fromFill.
FromFill == {"exists", "fill"}
StartErrs == {"origin", "canceled"} \cup FromFill

\* The variables have their types; in particular no counter is negative.
TypeOK ==
    /\ primary \in BOOLEAN
    /\ active \in Caller \cup {None}
    /\ fpc \in [Caller -> FlyLabels]
    /\ ready \in [Caller -> BOOLEAN] /\ fill \in [Caller -> BOOLEAN]
    /\ startErr \in [Caller -> StartErrs \cup {None}]
    /\ n \in [Caller -> Nat]
    /\ watch \in [Caller -> BOOLEAN] /\ timer \in [Caller -> BOOLEAN]
    /\ fired \in [Caller -> BOOLEAN] /\ canceled \in [Caller -> BOOLEAN]
    /\ data \in [Caller -> Seq(0 .. Size)]
    /\ state \in [Caller -> {"nil", "EOF"} \cup Failures]
    /\ ended \in [Caller -> BOOLEAN] /\ released \in [Caller -> BOOLEAN]
    /\ readers \in [Caller -> Nat]
    /\ pc \in [Caller -> Labels]
    /\ ctx \in [Caller -> BOOLEAN]
    /\ on \in [Caller -> Caller \cup {None}]
    /\ ans \in [Caller -> StartErrs \cup Failures \cup {None, "primary", "origin", "EOF"}]
    /\ off \in [Caller -> 0 .. Size] /\ roff \in [Caller -> 0 .. Size]
    /\ base \in [Caller -> 0 .. Size] /\ upto \in [Caller -> 0 .. Size]
    /\ woken \in [Caller -> BOOLEAN] /\ resumed \in [Caller -> BOOLEAN]
    /\ got \in [Caller -> Seq(0 .. Size)]

Init ==
    /\ primary \in BOOLEAN
    /\ active = None
    /\ fpc = [f \in Caller |-> "none"]
    /\ ready = [f \in Caller |-> FALSE] /\ fill = [f \in Caller |-> FALSE]
    /\ startErr = [f \in Caller |-> None]
    /\ n = [f \in Caller |-> 0]
    /\ watch = [f \in Caller |-> FALSE] /\ timer = [f \in Caller |-> FALSE]
    /\ fired = [f \in Caller |-> FALSE] /\ canceled = [f \in Caller |-> FALSE]
    /\ data = [f \in Caller |-> <<>>]
    /\ state = [f \in Caller |-> "nil"]
    /\ ended = [f \in Caller |-> FALSE] /\ released = [f \in Caller |-> FALSE]
    /\ readers = [f \in Caller |-> 0]
    /\ pc = [c \in Caller |-> "idle"]
    /\ ctx = [c \in Caller |-> FALSE]
    /\ on = [c \in Caller |-> None]
    /\ ans = [c \in Caller |-> None]
    /\ off = [c \in Caller |-> 0] /\ roff = [c \in Caller |-> 0]
    /\ upto = [c \in Caller |-> 0] /\ base = [c \in Caller |-> 0]
    /\ woken = [c \in Caller |-> FALSE] /\ resumed = [c \in Caller |-> FALSE]
    /\ got = [c \in Caller |-> <<>>]

-----------------------------------------------------------------------------
(* flightUsers *)

join(f) ==
    /\ n' = [n EXCEPT ![f] = @ + 1]
    /\ timer' = [timer EXCEPT ![f] = FALSE]
    /\ UNCHANGED <<watch, fired, canceled>>

\* Faulty: the last to leave does not start the idle timer.
leaveUnwatched(f) ==
    n' = [n EXCEPT ![f] = @ - 1] /\ UNCHANGED <<watch, timer, fired, canceled>>

leave(f) ==
    /\ n' = [n EXCEPT ![f] = @ - 1]
    /\ timer' = [timer EXCEPT ![f] = @ \/ (n[f] = 1 /\ watch[f])]
    /\ UNCHANGED <<watch, fired, canceled>>

\* time.AfterFunc calls cancel in a goroutine of its own: a join in between
\* finds the timer gone off already.
TimerFires(f) ==
    /\ timer[f]
    /\ timer' = [timer EXCEPT ![f] = FALSE]
    /\ fired' = [fired EXCEPT ![f] = TRUE]
    /\ UNCHANGED <<primary, active, flightVars, n, watch, canceled, fillVars, callVars, readVars>>

CancelFill(f) ==
    /\ fired[f]
    /\ fired' = [fired EXCEPT ![f] = FALSE]
    /\ canceled' = [canceled EXCEPT ![f] = TRUE]
    /\ UNCHANGED <<primary, active, flightVars, n, watch, timer, fillVars, callVars, readVars>>

-----------------------------------------------------------------------------
(* fillTracker *)

\* Faulty: the bytes are taken on trust.
verifyTrusted(d) == "EOF"

\* state of a fill whose bytes are d, all of them.
verify(d) == IF \A i \in DOMAIN d : d[i] = i THEN "EOF" ELSE "mismatch"

\* The wake channel is closed and replaced: the Reads that hold it are woken.
notify(f) == woken' = [c \in Caller |-> woken[c] \/ (pc[c] = "waiting" /\ on[c] = f)]

\* Faulty: an ended fill is released whoever reads it.
maybeReleaseEnded(f) == released' = [released EXCEPT ![f] = @ \/ ended'[f]]

\* maybeRelease, after ended and readers have been set.
maybeRelease(f) ==
    released' = [released EXCEPT ![f] = @ \/ (ended'[f] /\ readers'[f] = 0)]

write(f, v) ==
    LET d == Append(data[f], v) IN
    /\ data' = [data EXCEPT ![f] = d]
    /\ state' = [state EXCEPT ![f] = IF Len(d) = Size THEN verify(d) ELSE @]
    /\ notify(f)
    /\ UNCHANGED <<ended, readers, released>>

end(f) ==
    /\ ended' = [ended EXCEPT ![f] = TRUE]
    /\ UNCHANGED readers
    /\ maybeRelease(f)
    /\ UNCHANGED <<data, state, woken>>

\* Faulty: nobody is told.
abortSilent(f) ==
    /\ state' = [state EXCEPT ![f] = IF @ = "nil" THEN "error" ELSE @]
    /\ ended' = [ended EXCEPT ![f] = TRUE]
    /\ UNCHANGED <<data, readers, woken>>
    /\ maybeRelease(f)

abort(f) ==
    /\ state' = [state EXCEPT ![f] = IF @ = "nil" THEN "error" ELSE @]
    /\ ended' = [ended EXCEPT ![f] = TRUE]
    /\ UNCHANGED <<data, readers>>
    /\ notify(f)
    /\ maybeRelease(f)

\* Faulty: the last reader of an ended fill does not release it.
closeReaderOnly(f) ==
    readers' = [readers EXCEPT ![f] = @ - 1] /\ UNCHANGED <<data, state, ended, released>>

\* fillReader.Close
closeReader(f) ==
    /\ readers' = [readers EXCEPT ![f] = @ - 1]
    /\ UNCHANGED <<data, state, ended>>
    /\ maybeRelease(f)

-----------------------------------------------------------------------------
(* fly, the goroutine of a flight *)

FlyGoto(f, l) == fpc' = [fpc EXCEPT ![f] = l]

\* users.idle(timeout, cancel)
FlyStart(f) ==
    /\ fpc[f] = "start"
    /\ watch' = [watch EXCEPT ![f] = TRUE]
    /\ timer' = [timer EXCEPT ![f] = n[f] = 0]
    /\ FlyGoto(f, "open")
    /\ UNCHANGED <<primary, active, ready, fill, startErr, n, fired, canceled, fillVars, callVars, readVars>>

\* Origin.Open and infoMeta, under fillCtx.
FlyOpen(f) ==
    /\ fpc[f] = "open"
    /\ \/ FlyGoto(f, "fill") /\ UNCHANGED startErr
       \/ \E e \in {"origin", "canceled"} :
             /\ e = "origin" => MayFail
             /\ e = "canceled" => canceled[f]
             /\ startErr' = [startErr EXCEPT ![f] = e]
             /\ FlyGoto(f, "ready")
    /\ UNCHANGED <<primary, active, ready, fill, userVars, fillVars, callVars, readVars>>

\* Faulty: the registry is left when the fill can be followed.
FlyFillLeaves(f) ==
    /\ fpc[f] = "fill" /\ ~primary
    /\ fill' = [fill EXCEPT ![f] = TRUE]
    /\ ready' = [ready EXCEPT ![f] = TRUE]
    /\ FlyGoto(f, "copy")
    /\ active' = None
    /\ UNCHANGED <<primary, startErr, userVars, fillVars, callVars, readVars>>

\* filler.Fill: checks for a duplicate, makes the tracker, and ready() publishes it.
FlyFill(f) ==
    /\ fpc[f] = "fill"
    /\ \/ \E e \in FromFill :
             /\ e = "exists" => primary
             /\ e = "fill" => MayFail
             /\ startErr' = [startErr EXCEPT ![f] = e]
             /\ FlyGoto(f, "ready")
             /\ UNCHANGED <<ready, fill, state>>
       \/ /\ ~primary
          /\ fill' = [fill EXCEPT ![f] = TRUE]
          /\ ready' = [ready EXCEPT ![f] = TRUE]
          /\ state' = [state EXCEPT ![f] = IF Size = 0 THEN verify(<<>>) ELSE "nil"]
          /\ FlyGoto(f, "copy")
          /\ UNCHANGED startErr
    /\ UNCHANGED <<primary, active, userVars, data, ended, readers, released, callVars, readVars>>

\* Faulty: no io.LimitReader, and a source that does not end.
FlyCopyUnlimited(f) ==
    /\ fpc[f] = "copy"
    /\ write(f, Len(data[f]) + 1)
    /\ UNCHANGED <<primary, active, flightVars, userVars, callVars,
                   off, roff, upto, resumed, base, got>>

\* io.Copy(fill, io.LimitReader(src, m.Size)): a chunk, the end, or an error.  The
\* source may end early, and fails once fillCtx is done and it has been closed.
FlyCopy(f) ==
    /\ fpc[f] = "copy"
    /\ IF Len(data[f]) < Size
       THEN \/ /\ \E v \in {Len(data[f]) + 1} \cup {b \in {Bad} : MayCorrupt} : write(f, v)
               /\ UNCHANGED fpc
            \/ MayFail /\ FlyGoto(f, "copied") /\ UNCHANGED <<fillVars, woken>>
            \/ (MayFail \/ canceled[f]) /\ FlyGoto(f, "abort") /\ UNCHANGED <<fillVars, woken>>
       ELSE FlyGoto(f, "copied") /\ UNCHANGED <<fillVars, woken>>
    /\ UNCHANGED <<primary, active, ready, fill, startErr, userVars, callVars,
                   off, roff, upto, resumed, base, got>>

FlyCopied(f) ==
    /\ fpc[f] = "copied"
    /\ FlyGoto(f, IF canceled[f] THEN "abort" ELSE "commit")
    /\ UNCHANGED <<primary, active, ready, fill, startErr, userVars, fillVars, callVars, readVars>>

\* fill.Commit: publish if complete; its deferred end() follows.
FlyCommit(f) ==
    /\ fpc[f] = "commit"
    /\ primary' \in IF state[f] # "EOF" THEN {primary}
                    ELSE {TRUE} \cup {q \in {primary} : MayFail \/ canceled[f]}
    /\ FlyGoto(f, "end")
    /\ UNCHANGED <<active, ready, fill, startErr, userVars, fillVars, callVars, readVars>>

FlyEnd(f) ==
    /\ fpc[f] = "end"
    /\ end(f)
    /\ FlyGoto(f, "abort")
    /\ UNCHANGED <<primary, active, ready, fill, startErr, userVars, callVars,
                   off, roff, upto, resumed, base, got>>

FlyAbort(f) ==
    /\ fpc[f] = "abort"
    /\ abort(f)
    /\ FlyGoto(f, "ready")
    /\ UNCHANGED <<primary, active, ready, fill, startErr, userVars, callVars,
                   off, roff, upto, resumed, base, got>>

\* The deferred calls: ready, finish, users.idle(0, nil) and cancel.
FlyReady(f) ==
    /\ fpc[f] = "ready"
    /\ ready' = [ready EXCEPT ![f] = TRUE]
    /\ FlyGoto(f, "finish")
    /\ UNCHANGED <<primary, active, fill, startErr, userVars, fillVars, callVars, readVars>>

FlyFinish(f) ==
    /\ fpc[f] = "finish"
    /\ active' = IF active = f THEN None ELSE active
    /\ FlyGoto(f, "unwatch")
    /\ UNCHANGED <<primary, ready, fill, startErr, userVars, fillVars, callVars, readVars>>

FlyUnwatch(f) ==
    /\ fpc[f] = "unwatch"
    /\ watch' = [watch EXCEPT ![f] = FALSE]
    /\ timer' = [timer EXCEPT ![f] = FALSE]
    /\ canceled' = [canceled EXCEPT ![f] = TRUE]
    /\ FlyGoto(f, "done")
    /\ UNCHANGED <<primary, active, ready, fill, startErr, n, fired, fillVars, callVars, readVars>>

-----------------------------------------------------------------------------
(* Open, and openFill after a miss *)

Goto(c, l) == pc' = [pc EXCEPT ![c] = l]
Answer(c, r, l) == Goto(c, l) /\ ans' = [ans EXCEPT ![c] = r]

\* ctx.Err and Primary.Open; any error of the primary is a miss.
Open(c) ==
    /\ pc[c] = "idle"
    /\ \/ ctx[c] /\ Answer(c, "canceled", "done")
       \/ ~ctx[c] /\ primary /\ Answer(c, "primary", "done")
       \/ ~ctx[c] /\ (~primary \/ MayFail) /\ Goto(c, "join") /\ UNCHANGED ans
    /\ UNCHANGED <<primary, active, flightVars, userVars, fillVars, ctx, on, readVars>>

\* cacheFlights.join
Join(c) ==
    /\ pc[c] = "join"
    /\ active' = IF active = None THEN c ELSE active
    /\ on' = [on EXCEPT ![c] = active']
    /\ Goto(c, "users")
    /\ UNCHANGED <<primary, flightVars, userVars, fillVars, ctx, ans, readVars>>

\* flight.users.join, and the leader starts fly.
UsersJoin(c) ==
    /\ pc[c] = "users"
    /\ join(on[c])
    /\ fpc' = [fpc EXCEPT ![c] = IF on[c] = c THEN "start" ELSE @]
    /\ Goto(c, "wait")
    /\ UNCHANGED <<primary, active, ready, fill, startErr, fillVars, ctx, on, ans, readVars>>

\* Faulty: a canceled caller does not leave.
WaitedStays(c) ==
    /\ pc[c] = "wait"
    /\ \/ ctx[c] /\ Answer(c, "canceled", "done") /\ UNCHANGED readers
       \/ /\ ready[on[c]] /\ fill[on[c]] /\ ~released[on[c]]
          /\ readers' = [readers EXCEPT ![on[c]] = @ + 1]
          /\ Goto(c, "reading")
          /\ UNCHANGED ans
    /\ UNCHANGED <<primary, active, flightVars, userVars, data, state, ended, released, ctx, on, readVars>>

\* The select: the context is done, or ready is closed and the fill is followed.
Waited(c) ==
    /\ pc[c] = "wait"
    /\ \/ /\ ctx[c]
          /\ leave(on[c])
          /\ Answer(c, "canceled", "done")
          /\ UNCHANGED readers
       \/ /\ ready[on[c]] /\ fill[on[c]] /\ ~released[on[c]]
          /\ readers' = [readers EXCEPT ![on[c]] = @ + 1]
          /\ Goto(c, "reading")
          /\ UNCHANGED <<ans, userVars>>
       \/ /\ ready[on[c]] /\ (fill[on[c]] => released[on[c]])
          /\ Goto(c, "leave")
          /\ UNCHANGED <<ans, userVars, readers>>
    /\ UNCHANGED <<primary, active, flightVars, data, state, ended, released, ctx, on, readVars>>

\* There is no fill to follow: leave, and share an error of the origin.
LeaveFlight(c) ==
    /\ pc[c] = "leave"
    /\ leave(on[c])
    /\ IF startErr[on[c]] \in StartErrs \ FromFill
       THEN Answer(c, startErr[on[c]], "done")
       ELSE Goto(c, "reopen") /\ UNCHANGED ans
    /\ UNCHANGED <<primary, active, flightVars, fillVars, ctx, on, readVars>>

\* Primary.Open again, or the origin uncached.
Reopen(c) ==
    /\ pc[c] = "reopen"
    /\ \/ primary /\ Answer(c, "primary", "done")
       \/ (~primary \/ MayFail \/ ctx[c]) /\ Answer(c, "origin", "done")
       \/ (MayFail \/ ctx[c]) /\ Answer(c, IF ctx[c] THEN "canceled" ELSE "error", "done")
    /\ UNCHANGED <<primary, active, flightVars, userVars, fillVars, ctx, on, readVars>>

-----------------------------------------------------------------------------
(* cacheFollower and the fillReader it wraps *)

\* After an error e of the reader, which delivered what it delivered: the caller
\* gets it, or the follower turns to the origin.
Failed(c, e) ==
    IF e = "mismatch" \/ ctx[c] \/ resumed[c]
    THEN Answer(c, e, "stopped")
    ELSE Goto(c, "resume") /\ UNCHANGED ans

\* fillReader.Read takes written, state and wake under the mutex.
Read(c) ==
    LET f == on[c]
        written == Len(data[f]) IN
    /\ pc[c] = "reading" /\ ~resumed[c]
    /\ \/ state[f] \in Failures /\ Failed(c, state[f]) /\ UNCHANGED <<upto, woken>>
       \/ /\ roff[c] >= Size /\ state[f] = "EOF"
          /\ Answer(c, "EOF", "stopped")
          /\ UNCHANGED <<upto, woken>>
       \/ /\ state[f] \notin Failures
          /\ roff[c] < written
          /\ upto' = [upto EXCEPT ![c] = written]
          /\ Goto(c, "readat")
          /\ UNCHANGED <<ans, woken>>
       \/ /\ state[f] \notin Failures
          /\ roff[c] >= written /\ ~(roff[c] >= Size /\ state[f] = "EOF")
          /\ woken' = [woken EXCEPT ![c] = FALSE]
          /\ Goto(c, "waiting")
          /\ UNCHANGED <<ans, upto>>
    /\ UNCHANGED <<primary, active, flightVars, userVars, fillVars, ctx, on,
                   off, roff, resumed, base, got>>

\* c receives k chunks of src at its reader's offset.
Deliver(c, src, k) ==
    /\ got' = [got EXCEPT ![c] = @ \o SubSeq(src, roff[c] + 1, roff[c] + k)]
    /\ roff' = [roff EXCEPT ![c] = @ + k]
    /\ off' = [off EXCEPT ![c] = @ + k]

\* src.ReadAt, of the fill's bytes: those asked for, or fewer and an error.
ReadAt(c) ==
    /\ pc[c] = "readat"
    /\ \E k \in 0 .. upto[c] - roff[c] :
          /\ Deliver(c, data[on[c]], k)
          /\ \/ k > 0 /\ Goto(c, "reading") /\ UNCHANGED ans
             \/ MayFail /\ Failed(c, "error")
    /\ upto' = [upto EXCEPT ![c] = 0]
    /\ UNCHANGED <<primary, active, flightVars, userVars, fillVars, ctx, on,
                   woken, resumed, base>>

\* A waiting Read is woken, or its context is done.
Wake(c) ==
    /\ pc[c] = "waiting"
    /\ \/ woken[c] /\ Goto(c, "reading") /\ UNCHANGED ans
       \/ ctx[c] /\ Answer(c, "canceled", "stopped")
    /\ woken' = [woken EXCEPT ![c] = FALSE]
    /\ UNCHANGED <<primary, active, flightVars, userVars, fillVars, ctx, on,
                   off, roff, upto, resumed, base, got>>

\* Origin.Open, Seek to off, and the fill's reader is closed.
Resume(c) ==
    /\ pc[c] = "resume"
    /\ \/ /\ closeReader(on[c])
          /\ resumed' = [resumed EXCEPT ![c] = TRUE]
          /\ roff' = [roff EXCEPT ![c] = off[c]]
          /\ Goto(c, "reading")
          /\ UNCHANGED ans
       \/ /\ MayFail \/ ctx[c]
          /\ Answer(c, "error", "stopped")
          /\ UNCHANGED <<fillVars, resumed, roff>>
    /\ UNCHANGED <<primary, active, flightVars, userVars, ctx, on, off, upto, woken, base, got>>

\* Read of the origin's reader.
ReadOrigin(c) ==
    /\ pc[c] = "reading" /\ resumed[c]
    /\ \/ \E k \in 1 .. Size - roff[c] :
             Deliver(c, [i \in 1 .. Size |-> i], k) /\ UNCHANGED <<pc, ans>>
       \/ roff[c] = Size /\ Answer(c, "EOF", "stopped") /\ UNCHANGED <<got, roff, off>>
       \/ (MayFail \/ ctx[c]) /\ Failed(c, "error") /\ UNCHANGED <<got, roff, off>>
    /\ UNCHANGED <<primary, active, flightVars, userVars, fillVars, ctx, on,
                   upto, woken, resumed, base>>

\* Seek within the blob.
Seek(c) ==
    /\ MaySeek
    /\ pc[c] \in {"reading", "stopped"}
    /\ \E o \in 0 .. Size :
          /\ roff' = [roff EXCEPT ![c] = o]
          /\ off' = [off EXCEPT ![c] = o]
          /\ base' = [base EXCEPT ![c] = o]
    /\ got' = [got EXCEPT ![c] = <<>>]
    /\ Answer(c, None, "reading")
    /\ UNCHANGED <<primary, active, flightVars, userVars, fillVars, ctx, on,
                   upto, woken, resumed>>

\* Close: the reader first, then users.leave.
Close(c) ==
    /\ pc[c] \in {"reading", "stopped"}
    /\ IF resumed[c] THEN UNCHANGED fillVars ELSE closeReader(on[c])
    /\ Goto(c, "closing")
    /\ UNCHANGED <<primary, active, flightVars, userVars, ctx, on, ans, readVars>>

Leave(c) ==
    /\ pc[c] = "closing"
    /\ leave(on[c])
    /\ Answer(c, None, "done")
    /\ off' = [off EXCEPT ![c] = 0] /\ roff' = [roff EXCEPT ![c] = 0]
    /\ base' = [base EXCEPT ![c] = 0] /\ got' = [got EXCEPT ![c] = <<>>]
    /\ resumed' = [resumed EXCEPT ![c] = FALSE]
    /\ UNCHANGED <<primary, active, flightVars, fillVars, ctx, on, upto, woken>>

\* c's context is canceled.
Cancel(c) ==
    /\ MayCancel
    /\ pc[c] # "done" /\ ~ctx[c]
    /\ ctx' = [ctx EXCEPT ![c] = TRUE]
    /\ UNCHANGED <<primary, active, flightVars, userVars, fillVars, pc, on, ans, readVars>>

\* Add and Erase of the CacheStore go to the primary.
Add ==
    /\ Others /\ ~primary /\ primary' = TRUE
    /\ UNCHANGED <<active, flightVars, userVars, fillVars, callVars, readVars>>

Erase ==
    /\ Others /\ primary /\ primary' = FALSE
    /\ UNCHANGED <<active, flightVars, userVars, fillVars, callVars, readVars>>

\* Every call has returned and every flight has ended.
Finished ==
    /\ \A c \in Caller : pc[c] = "done" /\ fpc[c] \in {"none", "done"}
    /\ UNCHANGED vars

-----------------------------------------------------------------------------
\* Steps of fly that wait for the origin, and those that do not.
Copying(f) == FlyOpen(f) \/ FlyCopy(f)
Flying(f) ==
    \/ FlyStart(f) \/ FlyFill(f) \/ FlyCopied(f) \/ FlyCommit(f) \/ FlyEnd(f) \/ FlyAbort(f)
    \/ FlyReady(f) \/ FlyFinish(f) \/ FlyUnwatch(f)
    \/ TimerFires(f) \/ CancelFill(f)

\* Steps of Open and of Close.
Opening(c) ==
    \/ Open(c) \/ Join(c) \/ UsersJoin(c) \/ Waited(c) \/ LeaveFlight(c) \/ Reopen(c) \/ Leave(c)
Reading(c) ==
    \/ Read(c) \/ ReadAt(c) \/ Wake(c) \/ Resume(c) \/ ReadOrigin(c)

Next ==
    \/ \E c \in Caller :
          Copying(c) \/ Flying(c) \/ Opening(c) \/ Reading(c) \/ Seek(c) \/ Close(c) \/ Cancel(c)
    \/ Add
    \/ Erase
    \/ Finished

Spec == Init /\ [][Next]_vars

\* The origin may stall for ever but returns once fillCtx is done.  A caller
\* makes its steps, does not wait without end, and closes what it opened.
FairSpec ==
    /\ Spec
    /\ \A c \in Caller :
          /\ WF_vars(Flying(c)) /\ WF_vars(canceled[c] /\ Copying(c))
          /\ WF_vars(Opening(c)) /\ WF_vars(Reading(c))
          /\ SF_vars(Close(c)) /\ WF_vars(Cancel(c))

-----------------------------------------------------------------------------
(* Properties *)

Joined(f) == {c \in Caller : on[c] = f /\ pc[c] \notin {"users", "done", "reopen"}}
Following(f) ==
    {c \in Caller : /\ on[c] = f
                    /\ pc[c] \in {"reading", "readat", "waiting", "resume", "stopped"}
                    /\ ~resumed[c]}

\* The counters of a flight are the callers it has: no path of openFill, Read or
\* Close joins or follows without leaving, or leaves twice.  The idle timer only
\* runs while nobody reads or waits for the fill.
CountsExact ==
    \A f \in Caller :
        /\ n[f] = Cardinality(Joined(f))
        /\ readers[f] = Cardinality(Following(f))
        /\ timer[f] => Joined(f) = {}

\* The temp file of a fill is not closed and removed under a caller that reads it,
\* and is kept for nobody once the fill has ended.
KeptForReaders ==
    \A f \in Caller : released[f] <=> (ended[f] /\ Following(f) = {})

\* A Read that waits has nothing to return: a write, the end of the fill or its
\* failure since it looked has closed the channel it waits on.
NoLostWakeup ==
    \A c \in Caller :
        pc[c] = "waiting" /\ ~woken[c] => roff[c] >= Len(data[on[c]]) /\ state[on[c]] = "nil"

\* What a caller reads is the blob from where it last set its position, also when
\* its fill fails partway and it continues from the origin.
InOrder ==
    \A c \in Caller : \A i \in DOMAIN got[c] : got[c][i] \in {base[c] + i, Bad}

\* A caller that reads a fill to io.EOF has read no wrong byte.
EOFVerified ==
    \A c \in Caller :
        ans[c] = "EOF" /\ ~resumed[c] => \A i \in DOMAIN got[c] : got[c][i] # Bad

\* Whoever reads a flight, however it fails, gets the blob and knows it: the bytes
\* are in order and io.EOF stands for the digest.
ReadsRight == InOrder /\ EOFVerified

\* One flight at a time fills the primary: the registry is left only once the blob
\* is in the primary or the fill has failed.
OneFill ==
    \A f, g \in Caller : fill[f] /\ ~ended[f] /\ fill[g] /\ ~ended[g] => f = g

\* Every flight ends, with no caller's help and whatever the origin does: once
\* nobody reads or waits for it, it is canceled.
FlightsEnd == \A f \in Caller : fpc[f] = "start" ~> fpc[f] = "done"

\* The temp file of every fill is removed in the end.
FillsReleased == \A f \in Caller : fill[f] ~> released[f]
=============================================================================
