------------------------------ MODULE TapCache ------------------------------
(***************************************************************************)
(* CacheStore.Open into a primary that is not a Filler (cache.go), for one *)
(* namespace and digest.  The caller that leads a flight reads the origin  *)
(* through a blobTap, which copies what it reads into a pipe that a        *)
(* goroutine's Primary.Add consumes; the other callers wait for the flight *)
(* to finish, look in the primary again, and if that fails read the origin *)
(* through a tap of their own.                                             *)
(*                                                                         *)
(* A flight, a tap and an adding goroutine are named after their caller,   *)
(* who makes one call.  The blob is Size chunks and chunk i is the number  *)
(* i.  A hook is a context.AfterFunc: "set" until the context is canceled  *)
(* or it is stopped, then "run" until its function has run, which stopping *)
(* no longer prevents.  Origin and primary are external to cache.go.       *)
(***************************************************************************)
EXTENDS FiniteSets, Integers, Sequences

CONSTANTS
    Caller,      \* callers of Open, each with a context of its own
    None,        \* nil
    Size,        \* bound: chunks of the blob
    MayFail,     \* the origin and the primary may return errors; the origin may
                 \* hold fewer or more bytes than the size it gives
    MaySeek,     \* callers seek
    MayCancel    \* callers' contexts may be canceled

ASSUME TapAssumption ==
    /\ IsFiniteSet(Caller)
    /\ None \notin Caller
    /\ None \notin {"open", "EOF", "err", "canceled", "origin", "primary", "reader"}
    /\ Size \in Nat
    /\ {MayFail, MaySeek, MayCancel} \subseteq BOOLEAN

VARIABLES
    primary,     \* the primary has the blob
    active,      \* the flight the registry has for the blob, or None
    done,        \* done[f]: flight f's channel is closed
    originErr,   \* originErr[f]: the error it shares, or None
    pc, ctx,     \* ctx[c]: c's context is canceled
    on,          \* on[c]: the flight c joined; c leads if it is c
    ans,         \* ans[c]: what c's Open returned
    openHook,    \* Open's AfterFunc, which finishes the flight
    flightHook,  \* openOrigin's, which does too
    srcHook,     \* openOrigin's, which stops the tap and closes the source
    srcLen,      \* srcLen[c]: the chunks the origin really has
    srcClosed,   \* the source is closed
    offset, forwarded, stopped,   \* blobTap
    w,           \* the pipe's writing end: "open", "EOF", "err", or None
    sink,        \* its reading end is closed
    pending,     \* pending[c]: chunks of a pipe write not consumed yet
    apc,         \* where the adding goroutine is
    recvd,       \* recvd[c]: chunks it has consumed
    canceled,    \* fillCtx is done
    timer,       \* the goroutine that bounds the write is waiting
    clean        \* every byte was forwarded while ctx was live

callVars == <<pc, ctx, on, ans>>
hookVars == <<openHook, flightHook, srcHook>>
flightVars == <<active, done, originErr>>
tapVars == <<srcLen, srcClosed, offset, forwarded, stopped, pending>>
pipeVars == <<w, sink>>
addVars == <<apc, recvd>>
fillVars == <<canceled, timer, clean>>
vars == <<primary, flightVars, callVars, hookVars, tapVars, pipeVars, addVars, fillVars>>

Labels == {"idle", "join", "lead", "second", "wait", "recheck", "start", "origin",
           "tap", "opened", "reading", "piping", "completing", "done"}
AddLabels == {"none", "meta", "adding", "publish", "ended", "finish", "done"}
Hook == {"off", "set", "run"}
Answers == {"canceled", "origin", "primary", "reader"}

\* The variables have their types; the tap is never ahead of the blob.
TypeOK ==
    /\ primary \in BOOLEAN
    /\ active \in Caller \cup {None}
    /\ done \in [Caller -> BOOLEAN]
    /\ originErr \in [Caller -> {None, "origin", "canceled"}]
    /\ pc \in [Caller -> Labels] /\ apc \in [Caller -> AddLabels]
    /\ ctx \in [Caller -> BOOLEAN]
    /\ on \in [Caller -> Caller \cup {None}]
    /\ ans \in [Caller -> Answers \cup {None}]
    /\ openHook \in [Caller -> Hook] /\ flightHook \in [Caller -> Hook] /\ srcHook \in [Caller -> Hook]
    /\ srcLen \in [Caller -> 0 .. Size + 1]
    /\ srcClosed \in [Caller -> BOOLEAN]
    /\ offset \in [Caller -> 0 .. Size + 1]
    /\ forwarded \in [Caller -> 0 .. Size]
    /\ stopped \in [Caller -> BOOLEAN]
    /\ w \in [Caller -> {"open", "EOF", "err", None}]
    /\ sink \in [Caller -> BOOLEAN]
    /\ pending \in [Caller -> Seq(1 .. Size)] /\ recvd \in [Caller -> Seq(1 .. Size)]
    /\ canceled \in [Caller -> BOOLEAN] /\ timer \in [Caller -> BOOLEAN]
    /\ clean \in [Caller -> BOOLEAN]

Init ==
    /\ primary = FALSE
    /\ active = None
    /\ done = [f \in Caller |-> FALSE]
    /\ originErr = [f \in Caller |-> None]
    /\ pc = [c \in Caller |-> "idle"] /\ apc = [c \in Caller |-> "none"]
    /\ ctx = [c \in Caller |-> FALSE]
    /\ on = [c \in Caller |-> None]
    /\ ans = [c \in Caller |-> None]
    /\ openHook = [c \in Caller |-> "off"] /\ flightHook = [c \in Caller |-> "off"]
    /\ srcHook = [c \in Caller |-> "off"]
    /\ srcLen = [c \in Caller |-> 0]
    /\ srcClosed = [c \in Caller |-> FALSE]
    /\ offset = [c \in Caller |-> 0] /\ forwarded = [c \in Caller |-> 0]
    /\ stopped = [c \in Caller |-> FALSE]
    /\ w = [c \in Caller |-> None] /\ sink = [c \in Caller |-> FALSE]
    /\ pending = [c \in Caller |-> <<>>] /\ recvd = [c \in Caller |-> <<>>]
    /\ canceled = [c \in Caller |-> FALSE] /\ timer = [c \in Caller |-> FALSE]
    /\ clean = [c \in Caller |-> FALSE]

-----------------------------------------------------------------------------
Goto(c, l) == pc' = [pc EXCEPT ![c] = l]
Answer(c, r) == Goto(c, "done") /\ ans' = [ans EXCEPT ![c] = r]

\* context.AfterFunc on c's context, and the stop function it returns.
Register(c) == IF ctx[c] THEN "run" ELSE "set"
Stop(h) == IF h = "set" THEN "off" ELSE h

\* cacheFlights.finish; a caller that leads no flight has nothing to finish.
finish(c, e) ==
    IF on[c] = c /\ active = c
    THEN /\ active' = None
         /\ done' = [done EXCEPT ![c] = TRUE]
         /\ originErr' = [originErr EXCEPT ![c] = e]
    ELSE UNCHANGED flightVars

\* blobTap.stop(nil), whose onComplete is a step of its own.
stopComplete(c) ==
    /\ stopped' = [stopped EXCEPT ![c] = TRUE]
    /\ w' = [w EXCEPT ![c] = "EOF"]
    /\ Goto(c, "completing")

\* blobTap.stop(err), once, and its onAbort: cancelFill, close the sink, finish.
stopAbort(c) ==
    IF stopped[c]
    THEN UNCHANGED <<stopped, w, sink, canceled, flightVars>>
    ELSE /\ stopped' = [stopped EXCEPT ![c] = TRUE]
         /\ w' = [w EXCEPT ![c] = "err"]
         /\ canceled' = [canceled EXCEPT ![c] = TRUE]
         /\ sink' = [sink EXCEPT ![c] = TRUE]
         /\ finish(c, None)

-----------------------------------------------------------------------------
(* Open *)

\* ctx.Err and Primary.Open; any error of the primary is a miss.
Open(c) ==
    /\ pc[c] = "idle"
    /\ \/ ctx[c] /\ Answer(c, "canceled")
       \/ ~ctx[c] /\ primary /\ Answer(c, "primary")
       \/ ~ctx[c] /\ (~primary \/ MayFail) /\ Goto(c, "join") /\ UNCHANGED ans
    /\ UNCHANGED <<primary, flightVars, ctx, on, hookVars, tapVars, pipeVars, addVars, fillVars>>

\* cacheFlights.join
Join(c) ==
    /\ pc[c] = "join"
    /\ active' = IF active = None THEN c ELSE active
    /\ on' = [on EXCEPT ![c] = active']
    /\ Goto(c, IF active = None THEN "lead" ELSE "wait")
    /\ UNCHANGED <<primary, done, originErr, ctx, ans, hookVars, tapVars, pipeVars, addVars, fillVars>>

\* A waiter's select.
Wait(c) ==
    /\ pc[c] = "wait"
    /\ \/ ctx[c] /\ Answer(c, "canceled")
       \/ done[on[c]] /\ Goto(c, "recheck") /\ UNCHANGED ans
    /\ UNCHANGED <<primary, flightVars, ctx, on, hookVars, tapVars, pipeVars, addVars, fillVars>>

\* A released waiter: its context, the primary, the shared error, or the origin.
Recheck(c) ==
    /\ pc[c] = "recheck"
    /\ \/ ctx[c] /\ Answer(c, "canceled")
       \/ ~ctx[c] /\ primary /\ Answer(c, "primary")
       \/ /\ ~ctx[c] /\ (~primary \/ MayFail)
          /\ IF originErr[on[c]] # None THEN Answer(c, originErr[on[c]])
             ELSE Goto(c, "start") /\ UNCHANGED ans
    /\ UNCHANGED <<primary, flightVars, ctx, on, hookVars, tapVars, pipeVars, addVars, fillVars>>

\* The leader's AfterFunc.
Lead(c) ==
    /\ pc[c] = "lead"
    /\ openHook' = [openHook EXCEPT ![c] = Register(c)]
    /\ Goto(c, "second")
    /\ UNCHANGED <<primary, flightVars, ctx, on, ans, flightHook, srcHook, tapVars, pipeVars, addVars, fillVars>>

\* "A fill may have committed between the initial miss and joining the registry."
Second(c) ==
    /\ pc[c] = "second"
    /\ \/ /\ primary
          /\ finish(c, None)
          /\ openHook' = [openHook EXCEPT ![c] = Stop(@)]
          /\ Answer(c, "primary")
       \/ /\ ~primary \/ MayFail \/ ctx[c]
          /\ Goto(c, "start")
          /\ UNCHANGED <<flightVars, openHook, ans>>
    /\ UNCHANGED <<primary, ctx, on, flightHook, srcHook, tapVars, pipeVars, addVars, fillVars>>

-----------------------------------------------------------------------------
(* openOrigin *)

Start(c) ==
    /\ pc[c] = "start"
    /\ IF ctx[c]
       THEN /\ finish(c, None)
            /\ openHook' = [openHook EXCEPT ![c] = Stop(@)]
            /\ Answer(c, "canceled")
            /\ UNCHANGED flightHook
       ELSE /\ flightHook' = [flightHook EXCEPT ![c] = Register(c)]
            /\ Goto(c, "origin")
            /\ UNCHANGED <<flightVars, openHook, ans>>
    /\ UNCHANGED <<primary, ctx, on, srcHook, tapVars, pipeVars, addVars, fillVars>>

\* Origin.Open or Size failed with e.
OriginFailed(c, e) ==
    /\ finish(c, IF e = "canceled" THEN None ELSE e)
    /\ canceled' = [canceled EXCEPT ![c] = TRUE]
    /\ flightHook' = [flightHook EXCEPT ![c] = Stop(@)]
    /\ openHook' = [openHook EXCEPT ![c] = Stop(@)]
    /\ Answer(c, e)

\* Origin.Open and Size.
OriginOpen(c) ==
    /\ pc[c] = "origin"
    /\ \/ \E l \in {Size} \cup {k \in {Size - 1, Size + 1} : MayFail /\ k >= 0} :
             /\ srcLen' = [srcLen EXCEPT ![c] = l]
             /\ Goto(c, "tap")
             /\ UNCHANGED <<flightVars, canceled, flightHook, openHook, ans>>
       \/ \E e \in {"origin", "canceled"} :
             /\ e = "origin" => MayFail
             /\ e = "canceled" => ctx[c]
             /\ OriginFailed(c, e)
             /\ UNCHANGED srcLen
    /\ UNCHANGED <<primary, ctx, on, srcHook, srcClosed, offset, forwarded, stopped, pending,
                   pipeVars, addVars, timer, clean>>

\* newBlobTap and the hooks; an empty blob is complete at once, and a negative
\* size aborts the fill.  Then the adding goroutine is started.
Tap(c) ==
    /\ pc[c] = "tap"
    /\ \/ /\ Size > 0
          /\ w' = [w EXCEPT ![c] = "open"]
          /\ UNCHANGED <<stopped, sink, fillVars, flightVars, flightHook>>
       \/ /\ Size = 0
          /\ stopped' = [stopped EXCEPT ![c] = TRUE]
          /\ w' = [w EXCEPT ![c] = "EOF"]
          /\ flightHook' = [flightHook EXCEPT ![c] = Stop(@)]
          /\ timer' = [timer EXCEPT ![c] = TRUE]
          /\ UNCHANGED <<sink, canceled, clean, flightVars>>
       \/ MayFail /\ stopAbort(c) /\ UNCHANGED <<timer, clean, flightHook>>
    /\ srcHook' = [srcHook EXCEPT ![c] = Register(c)]
    /\ apc' = [apc EXCEPT ![c] = "meta"]
    /\ Goto(c, "opened")
    /\ UNCHANGED <<primary, ctx, on, ans, openHook, srcLen, srcClosed, offset, forwarded, pending, recvd>>

\* The source is closed, by Close or by a canceled context.
CloseTap(c) == stopAbort(c) /\ srcClosed' = [srcClosed EXCEPT ![c] = TRUE]

\* The last look at ctx, and Open returns.
Opened(c) ==
    /\ pc[c] = "opened"
    /\ openHook' = [openHook EXCEPT ![c] = Stop(@)]
    /\ IF ctx[c]
       THEN /\ srcHook' = [srcHook EXCEPT ![c] = Stop(@)]
            /\ CloseTap(c)
            /\ Answer(c, "canceled")
       ELSE /\ Goto(c, "reading")
            /\ ans' = [ans EXCEPT ![c] = "reader"]
            /\ UNCHANGED <<srcHook, stopped, w, sink, canceled, flightVars, srcClosed>>
    /\ UNCHANGED <<primary, ctx, on, flightHook, srcLen, offset, forwarded, pending, addVars, timer, clean>>

-----------------------------------------------------------------------------
(* blobTap *)

\* Faulty: the end of the source is taken for the end of the blob.
ForwardToEOF(c, k, err) ==
    /\ offset' = [offset EXCEPT ![c] = @ + k]
    /\ IF stopped[c] \/ (k + offset[c] <= forwarded[c] /\ err = None)
       THEN UNCHANGED <<pc, stopped, w, sink, canceled, flightVars, pending>>
       ELSE IF err = "EOF"
       THEN stopComplete(c) /\ UNCHANGED <<sink, canceled, flightVars, pending>>
       ELSE IF err = "error" \/ offset[c] > forwarded[c] \/ offset[c] + k > Size
       THEN stopAbort(c) /\ UNCHANGED <<pc, pending>>
       ELSE /\ pending' = [pending EXCEPT ![c] = [i \in 1 .. offset[c] + k - forwarded[c] |-> forwarded[c] + i]]
            /\ Goto(c, "piping")
            /\ UNCHANGED <<stopped, w, sink, canceled, flightVars>>

\* What Read does with k chunks from the source, which were at start, and err.
Forward(c, k, err) ==
    LET start == offset[c]
        next == start + k
        skip == forwarded[c] - start IN
    /\ offset' = [offset EXCEPT ![c] = next]
    /\ IF stopped[c]
       THEN UNCHANGED <<pc, stopped, w, sink, canceled, flightVars, pending>>
       ELSE IF \/ err = "error"
               \/ k > 0 /\ next > Size
               \/ err = "EOF" /\ start <= forwarded[c] /\ next < Size
               \/ k > 0 /\ start > forwarded[c]
       THEN stopAbort(c) /\ UNCHANGED <<pc, pending>>
       ELSE IF k > 0 /\ next > forwarded[c]
       THEN /\ pending' = [pending EXCEPT ![c] = [i \in 1 .. k - skip |-> start + skip + i]]
            /\ Goto(c, "piping")
            /\ UNCHANGED <<stopped, w, sink, canceled, flightVars>>
       ELSE IF forwarded[c] = Size
       THEN stopComplete(c) /\ UNCHANGED <<sink, canceled, flightVars, pending>>
       ELSE UNCHANGED <<pc, stopped, w, sink, canceled, flightVars, pending>>

Read(c) ==
    /\ pc[c] = "reading"
    /\ \/ /\ ~srcClosed[c]
          /\ \E k \in 1 .. srcLen[c] - offset[c] :
                \/ Forward(c, k, None)
                \/ offset[c] + k = srcLen[c] /\ Forward(c, k, "EOF")
       \/ ~srcClosed[c] /\ offset[c] >= srcLen[c] /\ Forward(c, 0, "EOF")
       \/ (srcClosed[c] \/ MayFail) /\ Forward(c, 0, "error")
    /\ UNCHANGED <<primary, ctx, on, ans, hookVars, srcLen, srcClosed, forwarded, addVars, timer, clean>>

\* Faulty: forwarded advances by the position the write reached.
PipedPosition(c) ==
    /\ pc[c] = "piping" /\ pending[c] = <<>>
    /\ forwarded' = [forwarded EXCEPT ![c] = @ + offset[c]]
    /\ IF offset[c] = Size /\ ~stopped[c]
       THEN stopComplete(c)
       ELSE Goto(c, "reading") /\ UNCHANGED <<stopped, w>>
    /\ UNCHANGED <<primary, flightVars, ctx, on, ans, hookVars, srcLen, srcClosed, offset, pending,
                   sink, addVars, fillVars>>

\* The pipe write returns: all of it was consumed, or an end of the pipe is closed.
Piped(c) ==
    LET written == offset[c] - forwarded[c] - Len(pending[c]) IN
    /\ pc[c] = "piping"
    /\ \/ /\ pending[c] = <<>>
          /\ forwarded' = [forwarded EXCEPT ![c] = offset[c]]
          /\ IF offset[c] = Size /\ ~stopped[c]
             THEN stopComplete(c) /\ UNCHANGED <<sink, canceled, flightVars>>
             ELSE Goto(c, "reading") /\ UNCHANGED <<stopped, w, sink, canceled, flightVars>>
       \/ /\ pending[c] # <<>> /\ (sink[c] \/ w[c] # "open")
          /\ forwarded' = [forwarded EXCEPT ![c] = @ + written]
          /\ stopAbort(c)
          /\ Goto(c, "reading")
    /\ pending' = [pending EXCEPT ![c] = <<>>]
    /\ UNCHANGED <<primary, ctx, on, ans, hookVars, srcLen, srcClosed, offset, addVars, timer, clean>>

\* Faulty: openOrigin's hook still finishes the flight.
CompleteWatched(c) ==
    /\ pc[c] = "completing"
    /\ timer' = [timer EXCEPT ![c] = apc[c] # "done"]
    /\ clean' = [clean EXCEPT ![c] = ~ctx[c]]
    /\ Goto(c, "reading")
    /\ UNCHANGED <<primary, flightVars, ctx, on, ans, hookVars, tapVars, pipeVars, addVars, canceled>>

\* Faulty: the write is not bounded.
CompleteUnbounded(c) ==
    /\ pc[c] = "completing"
    /\ flightHook' = [flightHook EXCEPT ![c] = Stop(@)]
    /\ clean' = [clean EXCEPT ![c] = ~ctx[c]]
    /\ Goto(c, "reading")
    /\ UNCHANGED <<primary, flightVars, ctx, on, ans, openHook, srcHook, tapVars, pipeVars, addVars, canceled, timer>>

\* onComplete: every byte reached the cache.
Complete(c) ==
    /\ pc[c] = "completing"
    /\ flightHook' = [flightHook EXCEPT ![c] = Stop(@)]
    /\ timer' = [timer EXCEPT ![c] = apc[c] # "done"]
    /\ clean' = [clean EXCEPT ![c] = ~ctx[c]]
    /\ Goto(c, "reading")
    /\ UNCHANGED <<primary, flightVars, ctx, on, ans, openHook, srcHook, tapVars, pipeVars, addVars, canceled>>

\* Seek moves the source; a failed one has moved it nobody knows where.
Seek(c) ==
    /\ MaySeek /\ pc[c] = "reading" /\ ~srcClosed[c]
    /\ \E o \in 0 .. Size : offset' = [offset EXCEPT ![c] = o]
    /\ \/ UNCHANGED <<stopped, w, sink, canceled, flightVars>>
       \/ MayFail /\ stopAbort(c)
    /\ UNCHANGED <<primary, callVars, hookVars, srcLen, srcClosed, forwarded, pending, addVars, timer, clean>>

\* cacheReader.Close
Close(c) ==
    /\ pc[c] = "reading"
    /\ srcHook' = [srcHook EXCEPT ![c] = Stop(@)]
    /\ CloseTap(c)
    /\ Goto(c, "done")
    /\ UNCHANGED <<primary, ctx, on, ans, openHook, flightHook, srcLen, offset, forwarded, pending, addVars, timer, clean>>

-----------------------------------------------------------------------------
(* The adding goroutine *)

AddGoto(c, l) == apc' = [apc EXCEPT ![c] = l]

\* infoMeta, and fillCtx.Err.
AddMeta(c) ==
    /\ apc[c] = "meta"
    /\ \/ ~canceled[c] /\ AddGoto(c, "adding")
       \/ (canceled[c] \/ MayFail) /\ AddGoto(c, "ended")
    /\ UNCHANGED <<primary, flightVars, callVars, hookVars, tapVars, pipeVars, recvd, fillVars>>

\* Primary.Add reads the pipe: a chunk, its end, or an error of either end.
AddRead(c) ==
    /\ apc[c] = "adding"
    /\ \/ /\ pending[c] # <<>> /\ w[c] = "open" /\ ~sink[c]
          /\ recvd' = [recvd EXCEPT ![c] = Append(@, Head(pending[c]))]
          /\ pending' = [pending EXCEPT ![c] = Tail(@)]
          /\ UNCHANGED apc
       \/ /\ w[c] = "EOF" /\ ~sink[c]
          /\ AddGoto(c, "publish")
          /\ UNCHANGED <<recvd, pending>>
       \/ /\ w[c] = "err" \/ sink[c] \/ canceled[c] \/ primary \/ MayFail
          /\ AddGoto(c, "ended")
          /\ UNCHANGED <<recvd, pending>>
    /\ UNCHANGED <<primary, flightVars, callVars, hookVars, srcLen, srcClosed, offset, forwarded,
                   stopped, pipeVars, fillVars>>

\* It verifies what it read and publishes it, unless it fails.
AddPublish(c) ==
    /\ apc[c] = "publish"
    /\ \/ recvd[c] = [i \in 1 .. Size |-> i] /\ primary' = TRUE
       \/ (MayFail \/ canceled[c] \/ recvd[c] # [i \in 1 .. Size |-> i]) /\ UNCHANGED primary
    /\ AddGoto(c, "ended")
    /\ UNCHANGED <<flightVars, callVars, hookVars, tapVars, pipeVars, recvd, fillVars>>

\* Faulty: the sink is left open.
AddEndOpen(c) ==
    /\ apc[c] = "ended"
    /\ AddGoto(c, "finish")
    /\ UNCHANGED <<primary, flightVars, callVars, hookVars, tapVars, pipeVars, recvd, fillVars>>

\* sink.Close
AddEnd(c) ==
    /\ apc[c] = "ended"
    /\ sink' = [sink EXCEPT ![c] = TRUE]
    /\ AddGoto(c, "finish")
    /\ UNCHANGED <<primary, flightVars, callVars, hookVars, tapVars, w, recvd, fillVars>>

\* Faulty: the flight is not finished.
AddFinishAlone(c) ==
    /\ apc[c] = "finish"
    /\ flightHook' = [flightHook EXCEPT ![c] = Stop(@)]
    /\ canceled' = [canceled EXCEPT ![c] = TRUE]
    /\ timer' = [timer EXCEPT ![c] = FALSE]
    /\ AddGoto(c, "done")
    /\ UNCHANGED <<primary, flightVars, callVars, openHook, srcHook, tapVars, pipeVars, recvd, clean>>

\* finish, the hook, cancelFill, and fillDone ends the goroutine that waits for it.
AddFinish(c) ==
    /\ apc[c] = "finish"
    /\ finish(c, None)
    /\ flightHook' = [flightHook EXCEPT ![c] = Stop(@)]
    /\ canceled' = [canceled EXCEPT ![c] = TRUE]
    /\ timer' = [timer EXCEPT ![c] = FALSE]
    /\ AddGoto(c, "done")
    /\ UNCHANGED <<primary, callVars, openHook, srcHook, tapVars, pipeVars, recvd, clean>>

\* FillTimeout after completion.
TimerFires(c) ==
    /\ timer[c]
    /\ timer' = [timer EXCEPT ![c] = FALSE]
    /\ canceled' = [canceled EXCEPT ![c] = TRUE]
    /\ UNCHANGED <<primary, flightVars, callVars, hookVars, tapVars, pipeVars, addVars, clean>>

-----------------------------------------------------------------------------
(* Cancellation *)

Cancel(c) ==
    /\ MayCancel
    /\ pc[c] # "done" /\ ~ctx[c]
    /\ ctx' = [ctx EXCEPT ![c] = TRUE]
    /\ openHook' = [openHook EXCEPT ![c] = IF @ = "set" THEN "run" ELSE @]
    /\ flightHook' = [flightHook EXCEPT ![c] = IF @ = "set" THEN "run" ELSE @]
    /\ srcHook' = [srcHook EXCEPT ![c] = IF @ = "set" THEN "run" ELSE @]
    /\ UNCHANGED <<primary, flightVars, pc, on, ans, tapVars, pipeVars, addVars, fillVars>>

FlightCanceled(c) ==
    /\ \/ openHook[c] = "run" /\ openHook' = [openHook EXCEPT ![c] = "off"] /\ UNCHANGED flightHook
       \/ flightHook[c] = "run" /\ flightHook' = [flightHook EXCEPT ![c] = "off"] /\ UNCHANGED openHook
    /\ finish(c, None)
    /\ UNCHANGED <<primary, callVars, srcHook, tapVars, pipeVars, addVars, fillVars>>

\* Stopping the tap waits for a stop in progress.
SourceCanceled(c) ==
    /\ srcHook[c] = "run"
    /\ pc[c] # "completing"
    /\ srcHook' = [srcHook EXCEPT ![c] = "off"]
    /\ CloseTap(c)
    /\ UNCHANGED <<primary, callVars, openHook, flightHook, srcLen, offset, forwarded, pending,
                   addVars, timer, clean>>

-----------------------------------------------------------------------------
Opening(c) ==
    \/ Open(c) \/ Join(c) \/ Wait(c) \/ Recheck(c) \/ Lead(c) \/ Second(c)
    \/ Start(c) \/ OriginOpen(c) \/ Tap(c) \/ Opened(c)
Tapping(c) == Piped(c) \/ Complete(c)
Adding(c) == AddMeta(c) \/ AddRead(c) \/ AddEnd(c) \/ AddFinish(c)
Hooks(c) == FlightCanceled(c) \/ SourceCanceled(c) \/ TimerFires(c)

\* Every call has returned, every reader is closed and every goroutine has ended.
Finished ==
    /\ \A c \in Caller : pc[c] = "done" /\ apc[c] \in {"none", "done"}
    /\ UNCHANGED vars

Next ==
    \/ \E c \in Caller :
          \/ Opening(c) \/ Tapping(c) \/ Adding(c) \/ AddPublish(c) \/ Hooks(c)
          \/ Read(c) \/ Seek(c) \/ Close(c) \/ Cancel(c)
    \/ Finished

Spec == Init /\ [][Next]_vars

\* The primary may take for ever to publish, but returns once fillCtx is done.
\* Callers close what they open.
FairSpec ==
    /\ Spec
    /\ \A c \in Caller :
          /\ WF_vars(Opening(c)) /\ WF_vars(Tapping(c)) /\ WF_vars(Hooks(c))
          /\ WF_vars(Adding(c)) /\ WF_vars(canceled[c] /\ AddPublish(c))
          /\ SF_vars(Close(c))

-----------------------------------------------------------------------------
(* Properties *)

\* The cache is sent the blob from its first byte, in order and each byte once,
\* however the caller seeks and rereads, and is told the stream has ended well
\* only after the last: no partial blob is offered to the primary.
StreamWhole ==
    \A c \in Caller :
        /\ \A i \in DOMAIN recvd[c] : recvd[c][i] = i
        /\ w[c] = "EOF" => Len(recvd[c]) = Size

\* Once every byte has been forwarded under a live context the write no longer
\* depends on the caller: waiters are released by the end of Primary.Add alone.
WaitersWait ==
    \A c \in Caller : on[c] = c /\ clean[c] /\ done[c] => apc[c] = "done"

\* A caller is told it is canceled only if it is: the cancellation of the leader
\* is not shared with those who wait for it.
CanceledOnlySelf == \A c \in Caller : ans[c] = "canceled" => ctx[c]

\* What a waiter is told is about the write it waited for: that it is over, and
\* nothing of what became of the leader.
WaitersServed == WaitersWait /\ CanceledOnlySelf

\* Whatever becomes of the leader, its reader and its cache write, who waits for
\* it is released.
WaitersReleased == \A c \in Caller : pc[c] = "wait" ~> pc[c] # "wait"

\* A Read that copies into the cache returns, even if Primary.Add stops reading.
ReadsReturn == \A c \in Caller : pc[c] = "piping" ~> pc[c] # "piping"

\* Every cache write ends, even if the primary hangs: it is canceled in time.
WritesEnd == \A c \in Caller : apc[c] = "meta" ~> apc[c] = "done"
=============================================================================
