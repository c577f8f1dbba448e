--------------------------- MODULE TapCacheProofs ---------------------------
(***************************************************************************)
(* What the tap sends the cache is the blob, and what a waiter is told is  *)
(* about the write it waited for: for every number of callers and every    *)
(* size of the blob, with failures, seeks and cancellations.               *)
(*                                                                         *)
(* The argument is about one caller: its steps change nothing of another's *)
(* (NextFrame), so an invariant of each caller by itself is inductive.  It *)
(* says that what the goroutine has consumed and the pipe still holds is   *)
(* the blob up to where the tap is (StreamInv), that the pipe is closed    *)
(* with io.EOF at the end only (EndInv), and that once it is no hook that  *)
(* could finish the flight is left (HookInv, CleanInv).                    *)
(***************************************************************************)
EXTENDS TapCache, SequenceTheorems, TLAPS

\* A sequence, its head and its tail.
LEMMA SeqFacts ==
    ASSUME NEW S, NEW s \in Seq(S)
    PROVE  /\ Len(s) \in Nat /\ DOMAIN s = 1 .. Len(s)
           /\ s = <<>> <=> Len(s) = 0
           /\ \A i \in 1 .. Len(s) : s[i] \in S
           /\ s # <<>> =>
                /\ Head(s) = s[1] /\ Head(s) \in S
                /\ Tail(s) \in Seq(S) /\ Len(Tail(s)) = Len(s) - 1
                /\ \A i \in 1 .. Len(s) - 1 : Tail(s)[i] = s[i + 1]
<1>1. Len(s) \in Nat /\ DOMAIN s = 1 .. Len(s)
  OBVIOUS
<1>2. s = <<>> <=> Len(s) = 0
  BY EmptySeq, Zenon
<1>3. \A i \in 1 .. Len(s) : s[i] \in S
  OBVIOUS
<1>4. s # <<>> => Head(s) = s[1] /\ Head(s) \in S
  BY HeadTailProperties, <1>1, <1>2, <1>3
<1>5. s # <<>> => /\ Tail(s) \in Seq(S) /\ Len(Tail(s)) = Len(s) - 1
                /\ \A i \in 1 .. Len(s) - 1 : Tail(s)[i] = s[i + 1]
  BY HeadTailProperties
<1> QED BY <1>1, <1>2, <1>3, <1>4, <1>5

\* Where a caller has no tap yet, and where it reads through one.
EarlyPcs == {"idle", "join", "lead", "second", "wait", "recheck", "start", "origin", "tap"}
TapPcs == {"reading", "piping", "completing"}

\* Before the tap there is neither a stream nor an Add.
EarlyInv(c) ==
    pc[c] \in EarlyPcs =>
       /\ w[c] = None /\ ~stopped[c] /\ srcHook[c] = "off" /\ apc[c] = "none" /\ ~clean[c]
       /\ recvd[c] = <<>> /\ forwarded[c] = 0

\* Who waits, and who has not joined.
JoinInv(c) ==
    /\ pc[c] \in {"idle", "join"} => on[c] = None
    /\ pc[c] \in {"wait", "recheck"} => on[c] \in Caller

\* What the goroutine has consumed and the pipe still holds is the blob up to where
\* the tap is.
StreamInv(c) ==
    /\ \A i \in DOMAIN recvd[c] : recvd[c][i] = i
    /\ pc[c] # "piping" => pending[c] = <<>> /\ Len(recvd[c]) = forwarded[c]
    /\ pc[c] = "piping" =>
          /\ offset[c] <= Size
          /\ Len(recvd[c]) + Len(pending[c]) = offset[c]
          /\ \A i \in DOMAIN pending[c] : pending[c][i] = Len(recvd[c]) + i

\* The writing end of the pipe is closed once.
EndInv(c) ==
    /\ w[c] \in {"EOF", "err"} => stopped[c]
    /\ w[c] = "EOF" => Len(recvd[c]) = Size
    /\ pc[c] = "completing" => w[c] = "EOF"

\* A hook runs only if the context was canceled.
HookInv(c) ==
    /\ openHook[c] = "run" \/ flightHook[c] = "run" => ctx[c]
    /\ pc[c] \in TapPcs => openHook[c] # "set"

\* Why a flight is done.
FlightInv(c) ==
    /\ done[c] => on[c] = c /\ (ctx[c] \/ w[c] = "err" \/ apc[c] = "done" \/ pc[c] = "done")
    /\ originErr[c] # "canceled"

\* Nothing but the end of Primary.Add finishes a flight whose stream ended cleanly.
CleanInv(c) ==
    clean[c] =>
       /\ w[c] = "EOF" /\ openHook[c] = "off" /\ flightHook[c] = "off"
       /\ done[c] => apc[c] = "done"

\* The error of a canceled context is that of the caller's own.
AnsInv(c) == ans[c] = "canceled" => ctx[c]

\* The invariant of one caller, its tap, its flight and its goroutine.
CallerInv(c) ==
    /\ EarlyInv(c) /\ JoinInv(c) /\ StreamInv(c) /\ EndInv(c)
    /\ HookInv(c) /\ FlightInv(c) /\ CleanInv(c) /\ AnsInv(c)

\* The inductive invariant.
TapInv == TypeOK /\ \A c \in Caller : CallerInv(c)

\* Nothing of caller c's changes.
Same(c) ==
    /\ pc'[c] = pc[c] /\ on'[c] = on[c] /\ ans'[c] = ans[c] /\ (ctx'[c] <=> ctx[c])
    /\ (done'[c] <=> done[c]) /\ originErr'[c] = originErr[c]
    /\ openHook'[c] = openHook[c] /\ flightHook'[c] = flightHook[c] /\ srcHook'[c] = srcHook[c]
    /\ offset'[c] = offset[c] /\ forwarded'[c] = forwarded[c] /\ pending'[c] = pending[c]
    /\ (stopped'[c] <=> stopped[c]) /\ w'[c] = w[c]
    /\ apc'[c] = apc[c] /\ recvd'[c] = recvd[c] /\ (clean'[c] <=> clean[c])

\* A caller whose state does not change keeps its invariant.
LEMMA SameInv ==
    ASSUME NEW c \in Caller, CallerInv(c), Same(c)
    PROVE  CallerInv(c)'
<1> USE DEF Same
<1>1. EarlyInv(c)'
  BY DEF CallerInv, EarlyInv
<1>2. JoinInv(c)'
  BY DEF CallerInv, JoinInv
<1>3. StreamInv(c)'
  BY DEF CallerInv, StreamInv
<1>4. EndInv(c)'
  BY DEF CallerInv, EndInv
<1>5. HookInv(c)'
  BY DEF CallerInv, HookInv
<1>6. FlightInv(c)'
  BY DEF CallerInv, FlightInv
<1>7. CleanInv(c)'
  BY DEF CallerInv, CleanInv
<1>8. AnsInv(c)'
  BY DEF CallerInv, AnsInv
<1> QED BY <1>1, <1>2, <1>3, <1>4, <1>5, <1>6, <1>7, <1>8 DEF CallerInv

\* No call, no flight and no tap.
LEMMA InitTap == Init => TapInv
<1> SUFFICES ASSUME Init PROVE TapInv
  OBVIOUS
<1>1. <<>> \in Seq(1 .. Size) /\ Len(<<>>) = 0 /\ 0 \in 0 .. Size /\ 0 \in 0 .. Size + 1
  BY TapAssumption
<1>2. TypeOK
  BY <1>1, TapAssumption DEF Init, TypeOK, Labels, AddLabels, Hook, Answers
<1>3. ASSUME NEW c \in Caller PROVE CallerInv(c)
  BY <1>1, TapAssumption DEF Init, CallerInv, EarlyInv, JoinInv, StreamInv, EndInv, HookInv,
     FlightInv,
     CleanInv, AnsInv, EarlyPcs, TapPcs
<1> QED BY <1>2, <1>3 DEF TapInv

\* The types of the registry and of the flights.
FlightType ==
    /\ active \in Caller \cup {None}
    /\ done \in [Caller -> BOOLEAN]
    /\ originErr \in [Caller -> {None, "origin", "canceled"}]

\* cacheFlights.finish closes the channel of the flight its caller leads, or none.
LEMMA Finishes ==
    ASSUME TypeOK, NEW c \in Caller, NEW e \in {None, "origin"}, finish(c, e)
    PROVE  /\ FlightType'
           /\ \A d \in Caller \ {c} : (done'[d] <=> done[d]) /\ originErr'[d] = originErr[d]
           /\ done[c] => done'[c]
           /\ done'[c] => done[c] \/ on[c] = c
           /\ originErr'[c] \in {originErr[c], None, "origin"}
  BY ZenonT(60) DEF TypeOK, finish, flightVars, FlightType

\* blobTap.stop(err) closes the pipe with an error, unless it was closed before, and
\* finishes no flight but its caller's.
LEMMA Aborts ==
    ASSUME TypeOK, NEW c \in Caller, stopAbort(c)
    PROVE  /\ FlightType' /\ stopped' \in [Caller -> BOOLEAN] /\ w' \in [Caller -> {"open", "EOF", "err", None}]
           /\ sink' \in [Caller -> BOOLEAN] /\ canceled' \in [Caller -> BOOLEAN]
           /\ \A d \in Caller \ {c} :
                 /\ (done'[d] <=> done[d]) /\ originErr'[d] = originErr[d]
                 /\ (stopped'[d] <=> stopped[d]) /\ w'[d] = w[d]
           /\ stopped'[c]
           /\ stopped[c] => w'[c] = w[c] /\ (done'[c] <=> done[c])
           /\ ~stopped[c] => w'[c] = "err"
           /\ done[c] => done'[c]
           /\ done'[c] => done[c] \/ on[c] = c
           /\ originErr'[c] \in {originErr[c], None, "origin"}
<1>1. CASE stopped[c]
  <2>1. UNCHANGED <<stopped, w, sink, canceled, active, done, originErr>>
    BY <1>1 DEF stopAbort, flightVars
  <2> QED BY <1>1, <2>1 DEF TypeOK, FlightType
<1>2. CASE ~stopped[c]
  <2>1. finish(c, None)
    BY <1>2 DEF stopAbort
  <2>2. /\ stopped' = [stopped EXCEPT ![c] = TRUE] /\ w' = [w EXCEPT ![c] = "err"]
        /\ canceled' = [canceled EXCEPT ![c] = TRUE] /\ sink' = [sink EXCEPT ![c] = TRUE]
    BY <1>2 DEF stopAbort
  <2> QED BY <1>2, <2>1, <2>2, Finishes, SMTT(30) DEF TypeOK
<1> QED BY <1>1, <1>2

\* A stopped AfterFunc is not pending, and one runs only if the context is done.
LEMMA HookValues ==
    /\ \A h \in Hook : Stop(h) \in Hook /\ Stop(h) # "set" /\ (Stop(h) = "run" <=> h = "run")
    /\ \A c \in Caller : Register(c) \in Hook /\ (Register(c) = "run" => ctx[c])
  BY DEF Hook, Stop, Register

\* The groups of variables that change together.
CallType ==
    /\ pc \in [Caller -> Labels] /\ ctx \in [Caller -> BOOLEAN]
    /\ on \in [Caller -> Caller \cup {None}] /\ ans \in [Caller -> Answers \cup {None}]
HookType == openHook \in [Caller -> Hook] /\ flightHook \in [Caller -> Hook] /\ srcHook \in [Caller -> Hook]
TapType ==
    /\ srcLen \in [Caller -> 0 .. Size + 1] /\ srcClosed \in [Caller -> BOOLEAN]
    /\ offset \in [Caller -> 0 .. Size + 1] /\ forwarded \in [Caller -> 0 .. Size]
    /\ stopped \in [Caller -> BOOLEAN] /\ pending \in [Caller -> Seq(1 .. Size)]
PipeType == w \in [Caller -> {"open", "EOF", "err", None}] /\ sink \in [Caller -> BOOLEAN]
AddType == apc \in [Caller -> AddLabels] /\ recvd \in [Caller -> Seq(1 .. Size)]
FillType == canceled \in [Caller -> BOOLEAN] /\ timer \in [Caller -> BOOLEAN] /\ clean \in [Caller -> BOOLEAN]

\* A Read that leaves the source at n copies nothing, gives the copy up, copies what
\* lies between forwarded and n, or finds that all is copied.
ReadCase(c, n) ==
    /\ offset' = [offset EXCEPT ![c] = n]
    /\ \/ UNCHANGED <<pc, stopped, w, sink, canceled, flightVars, pending>>
       \/ stopAbort(c) /\ UNCHANGED <<pc, pending>>
       \/ /\ ~stopped[c] /\ forwarded[c] < n /\ n <= Size
          /\ pending' = [pending EXCEPT ![c] = [i \in 1 .. n - forwarded[c] |-> forwarded[c] + i]]
          /\ Goto(c, "piping")
          /\ UNCHANGED <<stopped, w, sink, canceled, flightVars>>
       \/ /\ ~stopped[c] /\ forwarded[c] = Size
          /\ stopComplete(c)
          /\ UNCHANGED <<sink, canceled, flightVars, pending>>

\* blobTap.Read, whatever the source returned, is one of the four.
LEMMA ReadCases ==
    ASSUME TypeOK, NEW c \in Caller, Read(c)
    PROVE  \E n \in 0 .. Size + 1 : ReadCase(c, n)
<1> USE DEF ReadCase
<1>1. offset[c] \in 0 .. Size + 1 /\ srcLen[c] \in 0 .. Size + 1 /\ forwarded[c] \in 0 .. Size /\ Size \in Nat
  BY TapAssumption DEF TypeOK
<1>2. PICK k \in 0 .. Size + 1, err \in {None, "EOF", "error"} : Forward(c, k, err) /\ offset[c] + k \in 0 .. Size + 1
  <2>1. CASE \E k \in 1 .. srcLen[c] - offset[c] : Forward(c, k, None) \/ Forward(c, k, "EOF")
    BY <1>1, <2>1
  <2>2. CASE Forward(c, 0, "EOF") \/ Forward(c, 0, "error")
    BY <1>1, <2>2
  <2> QED BY <2>1, <2>2 DEF Read
<1> DEFINE n == offset[c] + k
           skip == forwarded[c] - offset[c]
<1>3. [i \in 1 .. k - skip |-> offset[c] + skip + i] = [i \in 1 .. n - forwarded[c] |-> forwarded[c] + i]
  <2>1. k - skip = n - forwarded[c]
    BY <1>1
  <2>2. \A i \in 1 .. n - forwarded[c] : offset[c] + skip + i = forwarded[c] + i
    BY <1>1
  <2> QED BY <2>1, <2>2
<1>4. offset' = [offset EXCEPT ![c] = n]
  BY <1>2 DEF Forward
<1>5. CASE stopped[c]
  BY <1>2, <1>4, <1>5 DEF Forward
<1>6. CASE ~stopped[c]
  <2>1. CASE \/ err = "error" \/ (k > 0 /\ n > Size)
             \/ err = "EOF" /\ offset[c] <= forwarded[c] /\ n < Size
             \/ k > 0 /\ offset[c] > forwarded[c]
    BY <1>2, <1>4, <1>6, <2>1 DEF Forward
  <2>2. CASE ~(\/ err = "error" \/ (k > 0 /\ n > Size)
               \/ err = "EOF" /\ offset[c] <= forwarded[c] /\ n < Size
               \/ k > 0 /\ offset[c] > forwarded[c])
    <3>1. CASE k > 0 /\ n > forwarded[c]
      <4>1. /\ pending' = [pending EXCEPT ![c] = [i \in 1 .. k - skip |-> offset[c] + skip + i]]
            /\ Goto(c, "piping") /\ UNCHANGED <<stopped, w, sink, canceled, flightVars>>
        BY <1>2, <1>6, <2>2, <3>1 DEF Forward
      <4>2. pending' = [pending EXCEPT ![c] = [i \in 1 .. n - forwarded[c] |-> forwarded[c] + i]]
        BY <1>3, <4>1
      <4>3. forwarded[c] < n /\ n <= Size /\ n \in 0 .. Size + 1
        BY <1>1, <1>2, <2>2, <3>1
      <4> HIDE DEF n
      <4> QED BY <1>4, <1>6, <4>1, <4>2, <4>3
    <3>2. CASE ~(k > 0 /\ n > forwarded[c])
      BY <1>2, <1>4, <1>6, <2>2, <3>2 DEF Forward
    <3> QED BY <3>1, <3>2
  <2> QED BY <2>1, <2>2
<1> QED BY <1>5, <1>6

\* After a pipe write forwarded is what the goroutine has consumed, and the copy is
\* complete, goes on or is given up.
PipedCase(c) ==
    /\ forwarded' = [forwarded EXCEPT ![c] = Len(recvd[c])] /\ Len(recvd[c]) \in 0 .. Size
    /\ pending' = [pending EXCEPT ![c] = <<>>]
    /\ \/ /\ Len(recvd[c]) = Size /\ ~stopped[c]
          /\ stopComplete(c)
          /\ UNCHANGED <<sink, canceled, flightVars>>
       \/ Goto(c, "reading") /\ UNCHANGED <<stopped, w, sink, canceled, flightVars>>
       \/ Goto(c, "reading") /\ stopAbort(c)

\* The write returns the count of what was consumed, all or part of it.
LEMMA PipedCases ==
    ASSUME TypeOK, NEW c \in Caller, StreamInv(c), Piped(c)
    PROVE  PipedCase(c)
<1> USE DEF PipedCase
<1>0. recvd[c] \in Seq(1 .. Size) /\ pending[c] \in Seq(1 .. Size)
  BY DEF TypeOK
<1>1. offset[c] \in 0 .. Size + 1 /\ forwarded[c] \in 0 .. Size /\ Size \in Nat
  BY TapAssumption DEF TypeOK
<1>2. /\ offset[c] <= Size /\ Len(recvd[c]) + Len(pending[c]) = offset[c]
      /\ Len(recvd[c]) \in Nat /\ Len(pending[c]) \in Nat /\ (pending[c] = <<>> => Len(pending[c]) = 0)
  <2>1. pc[c] = "piping"
    BY DEF Piped
  <2>2. Len(recvd[c]) \in Nat /\ Len(pending[c]) \in Nat /\ (pending[c] = <<>> => Len(pending[c]) = 0)
    BY <1>0, SeqFacts
  <2> QED BY <2>1, <2>2 DEF StreamInv
<1>b. offset[c] \in Nat /\ forwarded[c] \in Nat
  BY <1>1
<1>c. /\ Len(recvd[c]) \in 0 .. Size /\ (Len(pending[c]) = 0 => offset[c] = Len(recvd[c]))
      /\ forwarded[c] + (offset[c] - forwarded[c] - Len(pending[c])) = Len(recvd[c])
  <2>1. PICK r \in Nat : r = Len(recvd[c])
    BY <1>2
  <2>2. PICK q \in Nat : q = Len(pending[c])
    BY <1>2
  <2>3. PICK o \in Nat : o = offset[c]
    BY <1>b
  <2>4. PICK f \in Nat : f = forwarded[c]
    BY <1>b
  <2>5. r + q = o /\ o <= Size
    BY <1>2, <2>1, <2>2, <2>3
  <2>6. r \in 0 .. Size /\ (q = 0 => o = r) /\ f + (o - f - q) = r
    BY <1>1, <2>5
  <2> QED BY <2>1, <2>2, <2>3, <2>4, <2>6
<1>3. Len(recvd[c]) \in 0 .. Size
  BY <1>c
<1>4. pending' = [pending EXCEPT ![c] = <<>>]
  BY DEF Piped
<1>5. CASE pending[c] = <<>>
  <2>1. offset[c] = Len(recvd[c])
    BY <1>2, <1>5, <1>c
  <2> QED BY <1>3, <1>4, <1>5, <2>1 DEF Piped
<1>6. CASE pending[c] # <<>>
  <2>1. forwarded[c] + (offset[c] - forwarded[c] - Len(pending[c])) = Len(recvd[c])
    BY <1>c
  <2> QED BY <1>3, <1>4, <1>6, <2>1 DEF Piped
<1> QED BY <1>5, <1>6

\* Every action keeps the types.
LEMMA NextType == TapInv /\ [Next]_vars => TypeOK'
<1> SUFFICES ASSUME TapInv, [Next]_vars PROVE TypeOK'
  OBVIOUS
<1> USE TapAssumption DEF flightVars, callVars, hookVars, tapVars, pipeVars, addVars, fillVars
<1>0. TypeOK
  BY DEF TapInv
<1>t. primary \in BOOLEAN /\ CallType /\ FlightType /\ HookType /\ TapType /\ PipeType /\ AddType /\ FillType
  BY <1>0 DEF TypeOK, CallType, FlightType, HookType, TapType, PipeType, AddType, FillType
<1>p. ASSUME primary' \in BOOLEAN, CallType', FlightType', HookType', TapType', PipeType', AddType', FillType'
      PROVE  TypeOK'
  BY <1>p DEF TypeOK, CallType, FlightType, HookType, TapType, PipeType, AddType, FillType
<1>1. CASE UNCHANGED vars
  BY <1>0, <1>1 DEF vars, TypeOK
<1>2. ASSUME NEW c \in Caller, Open(c) PROVE TypeOK'
  <2>1. \/ pc' = [pc EXCEPT ![c] = "done"] /\ ans' = [ans EXCEPT ![c] = "canceled"]
        \/ pc' = [pc EXCEPT ![c] = "done"] /\ ans' = [ans EXCEPT ![c] = "primary"]
        \/ pc' = [pc EXCEPT ![c] = "join"] /\ ans' = ans
    BY <1>2 DEF Open, Answer, Goto
  <2>2. UNCHANGED <<primary, flightVars, ctx, on, hookVars, tapVars, pipeVars, addVars, fillVars>>
    BY <1>2 DEF Open
  <2>3. pc' \in [Caller -> Labels] /\ ans' \in [Caller -> Answers \cup {None}]
    BY <1>0, <2>1 DEF TypeOK, Labels, Answers
  <2> QED BY <1>0, <2>2, <2>3 DEF TypeOK, FlightType
<1>3. ASSUME NEW c \in Caller, Join(c) PROVE TypeOK'
  BY <1>0, <1>3 DEF Join, Goto, TypeOK, FlightType, Labels, AddLabels, Hook, Answers
<1>4. ASSUME NEW c \in Caller, Wait(c) PROVE TypeOK'
  BY <1>0, <1>4, ZenonT(60) DEF Wait, Answer, Goto, TypeOK, FlightType, Labels, AddLabels, Hook,
     Answers
<1>5. ASSUME NEW c \in Caller, Recheck(c) PROVE TypeOK'
  <2>1. on[c] \in Caller
    BY <1>0, <1>5 DEF Recheck, TapInv, CallerInv, JoinInv
  <2>2. originErr[on[c]] \in {None, "origin", "canceled"}
    BY <1>t, <2>1 DEF FlightType
  <2>3. CallType'
    BY <1>0, <1>t, <1>5, <2>1, <2>2 DEF Recheck, Answer, Goto, callVars, CallType, Labels, Answers
  <2>4. FlightType' /\ HookType' /\ TapType' /\ PipeType' /\ AddType' /\ FillType'
    BY <1>t, <1>5 DEF Recheck, flightVars, hookVars, tapVars, pipeVars, addVars, fillVars,
       FlightType, HookType, TapType, PipeType, AddType, FillType
  <2>5. primary' \in BOOLEAN
    BY <1>t, <1>5 DEF Recheck
  <2> QED BY <1>p, <2>3, <2>4, <2>5
<1>6. ASSUME NEW c \in Caller, Lead(c) PROVE TypeOK'
  BY <1>0, <1>6, HookValues DEF Lead, Goto, TypeOK, FlightType, Labels, AddLabels, Hook, Answers
<1>7. ASSUME NEW c \in Caller, Second(c) PROVE TypeOK'
  <2>1. CallType'
    BY <1>0, <1>t, <1>7 DEF Second, Answer, Goto, callVars, CallType, Labels, Answers
  <2>2. FlightType'
    BY <1>0, <1>t, <1>7, Finishes DEF Second, Answer, Goto, flightVars, FlightType
  <2>3. HookType'
    BY <1>0, <1>t, <1>7, HookValues DEF Second, Answer, Goto, hookVars, HookType, Hook
  <2>4. TapType' /\ PipeType' /\ AddType' /\ FillType'
    BY <1>t, <1>7 DEF Second, tapVars, pipeVars, addVars, fillVars, TapType, PipeType, AddType,
       FillType
  <2>5. primary' \in BOOLEAN
    BY <1>t, <1>7 DEF Second
  <2> QED BY <1>p, <2>1, <2>2, <2>3, <2>4, <2>5
<1>8. ASSUME NEW c \in Caller, Start(c) PROVE TypeOK'
  <2>1. CallType'
    BY <1>0, <1>t, <1>8 DEF Start, Answer, Goto, callVars, CallType, Labels, Answers
  <2>2. FlightType'
    BY <1>0, <1>t, <1>8, Finishes DEF Start, Answer, Goto, flightVars, FlightType
  <2>3. HookType'
    BY <1>0, <1>t, <1>8, HookValues DEF Start, Answer, Goto, hookVars, HookType, Hook
  <2>4. TapType' /\ PipeType' /\ AddType' /\ FillType'
    BY <1>t, <1>8 DEF Start, tapVars, pipeVars, addVars, fillVars, TapType, PipeType, AddType,
       FillType
  <2>5. primary' \in BOOLEAN
    BY <1>t, <1>8 DEF Start
  <2> QED BY <1>p, <2>1, <2>2, <2>3, <2>4, <2>5
<1>9. ASSUME NEW c \in Caller, OriginOpen(c) PROVE TypeOK'
  <2>1. srcLen' \in [Caller -> 0 .. Size + 1]
    <3>1. \A l \in {Size} \cup {k \in {Size - 1, Size + 1} : MayFail /\ k >= 0} : l \in 0 .. Size + 1
      OBVIOUS
    <3> QED BY <1>t, <1>9, <3>1 DEF OriginOpen, TapType
  <2>2. CallType'
    BY <1>0, <1>t, <1>9, <2>1 DEF OriginOpen, OriginFailed, Answer, Goto, callVars, CallType,
       Labels, Answers
  <2>3. FlightType'
    BY <1>0, <1>t, <1>9, <2>1, Finishes DEF OriginOpen, OriginFailed, Answer, Goto, flightVars,
       FlightType
  <2>4. HookType'
    BY <1>0, <1>t, <1>9, <2>1, HookValues DEF OriginOpen, OriginFailed, Answer, Goto, hookVars,
       HookType, Hook
  <2>5. TapType'
    BY <1>0, <1>t, <1>9, <2>1, Finishes DEF OriginOpen, OriginFailed, Answer, Goto, tapVars, TapType
  <2>6. FillType'
    BY <1>0, <1>t, <1>9, <2>1, Finishes DEF OriginOpen, OriginFailed, Answer, Goto, fillVars,
       FillType
  <2>7. PipeType' /\ AddType'
    BY <1>t, <1>9 DEF OriginOpen, pipeVars, addVars, PipeType, AddType
  <2>8. primary' \in BOOLEAN
    BY <1>t, <1>9 DEF OriginOpen
  <2> QED BY <1>p, <2>2, <2>3, <2>4, <2>5, <2>6, <2>7, <2>8
<1>10. ASSUME NEW c \in Caller, Tap(c) PROVE TypeOK'
  <2>1. CallType'
    BY <1>0, <1>t, <1>10 DEF Tap, Goto, callVars, CallType, Labels, Answers
  <2>2. FlightType'
    BY <1>0, <1>t, <1>10, Aborts DEF Tap, Goto, flightVars, FlightType
  <2>3. HookType'
    BY <1>0, <1>t, <1>10, HookValues DEF Tap, Goto, hookVars, HookType, Hook
  <2>4. TapType'
    BY <1>0, <1>t, <1>10, Aborts DEF Tap, Goto, tapVars, TapType
  <2>5. PipeType'
    BY <1>0, <1>t, <1>10, Aborts DEF Tap, Goto, pipeVars, PipeType
  <2>6. AddType'
    BY <1>0, <1>t, <1>10 DEF Tap, Goto, addVars, AddType, AddLabels
  <2>7. FillType'
    BY <1>0, <1>t, <1>10, Aborts DEF Tap, Goto, fillVars, FillType
  <2>8. primary' \in BOOLEAN
    BY <1>t, <1>10 DEF Tap
  <2> QED BY <1>p, <2>1, <2>2, <2>3, <2>4, <2>5, <2>6, <2>7, <2>8
<1>11. ASSUME NEW c \in Caller, Opened(c) PROVE TypeOK'
  <2>1. CallType'
    BY <1>0, <1>t, <1>11 DEF Opened, CloseTap, Answer, Goto, callVars, CallType, Labels, Answers
  <2>2. FlightType'
    BY <1>0, <1>t, <1>11, Aborts DEF Opened, CloseTap, Answer, Goto, flightVars, FlightType
  <2>3. HookType'
    BY <1>0, <1>t, <1>11, HookValues DEF Opened, CloseTap, Answer, Goto, hookVars, HookType, Hook
  <2>4. TapType'
    BY <1>0, <1>t, <1>11, Aborts DEF Opened, CloseTap, Answer, Goto, tapVars, TapType
  <2>5. PipeType'
    BY <1>0, <1>t, <1>11, Aborts DEF Opened, CloseTap, Answer, Goto, pipeVars, PipeType
  <2>6. FillType'
    BY <1>0, <1>t, <1>11, Aborts DEF Opened, CloseTap, Answer, Goto, fillVars, FillType
  <2>7. AddType'
    BY <1>t, <1>11 DEF Opened, addVars, AddType
  <2>8. primary' \in BOOLEAN
    BY <1>t, <1>11 DEF Opened
  <2> QED BY <1>p, <2>1, <2>2, <2>3, <2>4, <2>5, <2>6, <2>7, <2>8
<1>12. ASSUME NEW c \in Caller, Read(c) PROVE TypeOK'
  <2>1. PICK n \in 0 .. Size + 1 : ReadCase(c, n)
    BY <1>0, <1>12, ReadCases
  <2> USE DEF ReadCase
  <2>2. forwarded[c] \in 0 .. Size
    BY <1>t DEF TapType
  <2>3. forwarded[c] < n /\ n <= Size => [i \in 1 .. n - forwarded[c] |-> forwarded[c] + i] \in Seq(1 .. Size)
    BY <2>2
  <2>4. CallType'
    BY <1>t, <1>12, <2>1 DEF Read, Goto, stopComplete, CallType, Labels
  <2>5. FlightType'
    BY <1>0, <1>t, <2>1, Aborts DEF FlightType
  <2>6. TapType'
    <3>1. stopped' \in [Caller -> BOOLEAN]
      BY <1>0, <1>t, <2>1, Aborts DEF stopComplete, TapType
    <3>2. pending' \in [Caller -> Seq(1 .. Size)]
      BY <1>t, <2>1, <2>3 DEF TapType
    <3>3. offset' \in [Caller -> 0 .. Size + 1]
      BY <1>t, <2>1 DEF TapType
    <3> QED BY <1>t, <1>12, <3>1, <3>2, <3>3 DEF Read, TapType
  <2>7. PipeType' /\ FillType'
    BY <1>0, <1>t, <1>12, <2>1, Aborts DEF Read, stopComplete, PipeType, FillType
  <2>8. HookType' /\ AddType' /\ primary' \in BOOLEAN
    BY <1>t, <1>12 DEF Read, HookType, AddType
  <2> QED BY <1>p, <2>4, <2>5, <2>6, <2>7, <2>8
<1>13. ASSUME NEW c \in Caller, Piped(c) PROVE TypeOK'
  <2>1. PipedCase(c)
    BY <1>0, <1>13, PipedCases DEF TapInv, CallerInv
  <2> USE DEF PipedCase
  <2>2. CallType'
    BY <1>t, <1>13, <2>1 DEF Piped, Goto, stopComplete, CallType, Labels
  <2>3. FlightType'
    BY <1>0, <1>t, <2>1, Aborts DEF FlightType
  <2>4. TapType'
    <3>1. <<>> \in Seq(1 .. Size)
      OBVIOUS
    <3>2. stopped' \in [Caller -> BOOLEAN]
      BY <1>0, <1>t, <2>1, Aborts DEF stopComplete, TapType
    <3>3. pending' \in [Caller -> Seq(1 .. Size)] /\ forwarded' \in [Caller -> 0 .. Size]
      BY <1>t, <2>1, <3>1 DEF TapType
    <3> QED BY <1>t, <1>13, <3>2, <3>3 DEF Piped, TapType
  <2>5. PipeType' /\ FillType'
    BY <1>0, <1>t, <1>13, <2>1, Aborts DEF Piped, stopComplete, PipeType, FillType
  <2>6. HookType' /\ AddType' /\ primary' \in BOOLEAN
    BY <1>t, <1>13 DEF Piped, HookType, AddType
  <2> QED BY <1>p, <2>2, <2>3, <2>4, <2>5, <2>6
<1>14. ASSUME NEW c \in Caller, Complete(c) PROVE TypeOK'
  BY <1>0, <1>14, HookValues DEF Complete, Goto, TypeOK, FlightType, Labels, AddLabels, Hook,
     Answers
<1>15. ASSUME NEW c \in Caller, Seek(c) PROVE TypeOK'
  <2>1. FlightType'
    BY <1>0, <1>t, <1>15, Aborts DEF Seek, flightVars, FlightType
  <2>2. TapType'
    BY <1>0, <1>t, <1>15, Aborts DEF Seek, tapVars, TapType
  <2>3. PipeType'
    BY <1>0, <1>t, <1>15, Aborts DEF Seek, pipeVars, PipeType
  <2>4. FillType'
    BY <1>0, <1>t, <1>15, Aborts DEF Seek, fillVars, FillType
  <2>5. CallType' /\ HookType' /\ AddType'
    BY <1>t, <1>15 DEF Seek, callVars, hookVars, addVars, CallType, HookType, AddType
  <2>6. primary' \in BOOLEAN
    BY <1>t, <1>15 DEF Seek
  <2> QED BY <1>p, <2>1, <2>2, <2>3, <2>4, <2>5, <2>6
<1>16. ASSUME NEW c \in Caller, Close(c) PROVE TypeOK'
  BY <1>0, <1>16, Aborts, HookValues DEF Close, CloseTap, Goto, TypeOK, FlightType, Labels,
     AddLabels, Hook, Answers
<1>17. ASSUME NEW c \in Caller, AddMeta(c) PROVE TypeOK'
  BY <1>0, <1>17 DEF AddMeta, AddGoto, TypeOK, FlightType, Labels, AddLabels, Hook, Answers
<1>18. ASSUME NEW c \in Caller, AddRead(c) PROVE TypeOK'
  <2>1. pending[c] \in Seq(1 .. Size) /\ recvd[c] \in Seq(1 .. Size)
    BY <1>t DEF TapType, AddType
  <2>2. pending[c] # <<>> => Head(pending[c]) \in 1 .. Size /\ Tail(pending[c]) \in Seq(1 .. Size)
    BY <2>1, SeqFacts
  <2>3. pending[c] # <<>> => Append(recvd[c], Head(pending[c])) \in Seq(1 .. Size)
    BY <2>1, <2>2, AppendProperties
  <2>4. TapType'
    <3>1. pending' = pending \/ (pending[c] # <<>> /\ pending' = [pending EXCEPT ![c] = Tail(@)])
      BY <1>18 DEF AddRead
    <3>2. pending' \in [Caller -> Seq(1 .. Size)]
      BY <1>t, <2>2, <3>1 DEF TapType
    <3> QED BY <1>t, <1>18, <3>2 DEF AddRead, TapType
  <2>5. AddType'
    BY <1>0, <1>t, <1>18, <2>1, <2>2, <2>3 DEF AddRead, AddGoto, addVars, AddType, AddLabels
  <2>6. CallType' /\ FlightType' /\ HookType' /\ PipeType' /\ FillType'
    BY <1>t, <1>18 DEF AddRead, callVars, flightVars, hookVars, pipeVars, fillVars, CallType,
       FlightType, HookType, PipeType, FillType
  <2>7. primary' \in BOOLEAN
    BY <1>t, <1>18 DEF AddRead
  <2> QED BY <1>p, <2>4, <2>5, <2>6, <2>7
<1>19. ASSUME NEW c \in Caller, AddPublish(c) PROVE TypeOK'
  BY <1>0, <1>19 DEF AddPublish, AddGoto, TypeOK, FlightType, Labels, AddLabels, Hook, Answers
<1>20. ASSUME NEW c \in Caller, AddEnd(c) PROVE TypeOK'
  BY <1>0, <1>20 DEF AddEnd, AddGoto, TypeOK, FlightType, Labels, AddLabels, Hook, Answers
<1>21. ASSUME NEW c \in Caller, AddFinish(c) PROVE TypeOK'
  <2>1. FlightType'
    BY <1>0, <1>t, <1>21, Finishes DEF AddFinish, AddGoto, flightVars, FlightType
  <2>2. HookType'
    BY <1>0, <1>t, <1>21, HookValues DEF AddFinish, AddGoto, hookVars, HookType, Hook
  <2>3. AddType'
    BY <1>0, <1>t, <1>21 DEF AddFinish, AddGoto, addVars, AddType, AddLabels
  <2>4. FillType'
    BY <1>0, <1>t, <1>21, Finishes DEF AddFinish, AddGoto, fillVars, FillType
  <2>5. CallType' /\ TapType' /\ PipeType'
    BY <1>t, <1>21 DEF AddFinish, callVars, tapVars, pipeVars, CallType, TapType, PipeType
  <2>6. primary' \in BOOLEAN
    BY <1>t, <1>21 DEF AddFinish
  <2> QED BY <1>p, <2>1, <2>2, <2>3, <2>4, <2>5, <2>6
<1>22. ASSUME NEW c \in Caller, TimerFires(c) PROVE TypeOK'
  BY <1>0, <1>22 DEF TimerFires, TypeOK, FlightType, Labels, AddLabels, Hook, Answers
<1>23. ASSUME NEW c \in Caller, Cancel(c) PROVE TypeOK'
  BY <1>0, <1>23 DEF Cancel, TypeOK, FlightType, Labels, AddLabels, Hook, Answers
<1>24. ASSUME NEW c \in Caller, FlightCanceled(c) PROVE TypeOK'
  <2>1. FlightType'
    BY <1>0, <1>t, <1>24, Finishes DEF FlightCanceled, flightVars, FlightType
  <2>2. HookType'
    BY <1>0, <1>t, <1>24 DEF FlightCanceled, hookVars, HookType, Hook
  <2>3. CallType' /\ TapType' /\ PipeType' /\ AddType' /\ FillType'
    BY <1>t, <1>24 DEF FlightCanceled, callVars, tapVars, pipeVars, addVars, fillVars, CallType,
       TapType, PipeType, AddType, FillType
  <2>4. primary' \in BOOLEAN
    BY <1>t, <1>24 DEF FlightCanceled
  <2> QED BY <1>p, <2>1, <2>2, <2>3, <2>4
<1>25. ASSUME NEW c \in Caller, SourceCanceled(c) PROVE TypeOK'
  BY <1>0, <1>25, Aborts DEF SourceCanceled, CloseTap, TypeOK, FlightType, Labels, AddLabels,
     Hook, Answers
<1> QED BY <1>1, <1>2, <1>3, <1>4, <1>5, <1>6, <1>7, <1>8, <1>9, <1>10, <1>11, <1>12, <1>13,
           <1>14, <1>15, <1>16, <1>17, <1>18, <1>19, <1>20, <1>21, <1>22, <1>23, <1>24, <1>25 DEF
           Next, Opening, Tapping, Adding, Hooks, Finished

\* A step of one caller, or of the goroutines that work for it.
Step(d) ==
    \/ Opening(d) \/ Tapping(d) \/ Adding(d) \/ AddPublish(d) \/ Hooks(d)
    \/ Read(d) \/ Seek(d) \/ Close(d) \/ Cancel(d)

\* A caller's steps leave the state of the others alone: a flight is finished by its
\* leader only.
LEMMA NextFrame ==
    ASSUME TapInv, NEW d \in Caller, Step(d)
    PROVE  \A c \in Caller \ {d} : Same(c)
<1> SUFFICES ASSUME NEW c \in Caller \ {d} PROVE Same(c)
  OBVIOUS
<1> USE DEF flightVars, callVars, hookVars, tapVars, pipeVars, addVars, fillVars
<1>0. TypeOK /\ StreamInv(d)
  BY DEF TapInv, CallerInv
<1>1. CASE Open(d)
  BY <1>0, <1>1 DEF Open, Answer, Goto, TypeOK, Same
<1>2. CASE Join(d)
  BY <1>0, <1>2 DEF Join, Goto, TypeOK, Same
<1>3. CASE Wait(d)
  BY <1>0, <1>3 DEF Wait, Answer, Goto, TypeOK, Same
<1>4. CASE Recheck(d)
  BY <1>0, <1>4 DEF Recheck, Answer, Goto, TypeOK, Same
<1>5. CASE Lead(d)
  BY <1>0, <1>5 DEF Lead, Goto, TypeOK, Same
<1>6. CASE Second(d)
  <2>1. pc'[c] = pc[c] /\ on'[c] = on[c] /\ ans'[c] = ans[c] /\ (ctx'[c] <=> ctx[c])
    BY <1>0, <1>6 DEF Second, Answer, Goto, TypeOK
  <2>2. (done'[c] <=> done[c]) /\ originErr'[c] = originErr[c]
    BY <1>0, <1>6, Finishes DEF Second, Answer, Goto, TypeOK
  <2>3. openHook'[c] = openHook[c] /\ flightHook'[c] = flightHook[c] /\ srcHook'[c] = srcHook[c]
    BY <1>0, <1>6 DEF Second, Answer, Goto, TypeOK
  <2>4. offset'[c] = offset[c] /\ forwarded'[c] = forwarded[c] /\ pending'[c] = pending[c]
    BY <1>0, <1>6 DEF Second, Answer, Goto, TypeOK
  <2>5. (stopped'[c] <=> stopped[c]) /\ w'[c] = w[c]
    BY <1>0, <1>6, Finishes DEF Second, Answer, Goto, TypeOK
  <2>6. apc'[c] = apc[c] /\ recvd'[c] = recvd[c] /\ (clean'[c] <=> clean[c])
    BY <1>0, <1>6 DEF Second, Answer, Goto, TypeOK
  <2> QED BY <2>1, <2>2, <2>3, <2>4, <2>5, <2>6 DEF Same
<1>7. CASE Start(d)
  <2>1. pc'[c] = pc[c] /\ on'[c] = on[c] /\ ans'[c] = ans[c] /\ (ctx'[c] <=> ctx[c])
    BY <1>0, <1>7 DEF Start, Answer, Goto, TypeOK
  <2>2. (done'[c] <=> done[c]) /\ originErr'[c] = originErr[c]
    BY <1>0, <1>7, Finishes DEF Start, Answer, Goto, TypeOK
  <2>3. openHook'[c] = openHook[c] /\ flightHook'[c] = flightHook[c] /\ srcHook'[c] = srcHook[c]
    BY <1>0, <1>7 DEF Start, Answer, Goto, TypeOK
  <2>4. offset'[c] = offset[c] /\ forwarded'[c] = forwarded[c] /\ pending'[c] = pending[c]
    BY <1>0, <1>7 DEF Start, Answer, Goto, TypeOK
  <2>5. (stopped'[c] <=> stopped[c]) /\ w'[c] = w[c]
    BY <1>0, <1>7, Finishes DEF Start, Answer, Goto, TypeOK
  <2>6. apc'[c] = apc[c] /\ recvd'[c] = recvd[c] /\ (clean'[c] <=> clean[c])
    BY <1>0, <1>7 DEF Start, Answer, Goto, TypeOK
  <2> QED BY <2>1, <2>2, <2>3, <2>4, <2>5, <2>6 DEF Same
<1>8. CASE OriginOpen(d)
  <2>1. pc'[c] = pc[c] /\ on'[c] = on[c] /\ ans'[c] = ans[c] /\ (ctx'[c] <=> ctx[c])
    BY <1>0, <1>8 DEF OriginOpen, OriginFailed, Answer, Goto, TypeOK
  <2>2. (done'[c] <=> done[c]) /\ originErr'[c] = originErr[c]
    <3>1. (\E e \in {None, "origin"} : finish(d, e)) \/ UNCHANGED flightVars
      BY <1>8 DEF OriginOpen, OriginFailed
    <3> QED BY <1>0, <3>1, Finishes
  <2>3. openHook'[c] = openHook[c] /\ flightHook'[c] = flightHook[c] /\ srcHook'[c] = srcHook[c]
    BY <1>0, <1>8 DEF OriginOpen, OriginFailed, Answer, Goto, TypeOK
  <2>4. offset'[c] = offset[c] /\ forwarded'[c] = forwarded[c] /\ pending'[c] = pending[c]
    BY <1>0, <1>8 DEF OriginOpen, OriginFailed, Answer, Goto, TypeOK
  <2>5. (stopped'[c] <=> stopped[c]) /\ w'[c] = w[c]
    BY <1>0, <1>8, Finishes DEF OriginOpen, OriginFailed, Answer, Goto, TypeOK
  <2>6. apc'[c] = apc[c] /\ recvd'[c] = recvd[c] /\ (clean'[c] <=> clean[c])
    BY <1>0, <1>8 DEF OriginOpen, OriginFailed, Answer, Goto, TypeOK
  <2> QED BY <2>1, <2>2, <2>3, <2>4, <2>5, <2>6 DEF Same
<1>9. CASE Tap(d)
  <2>1. pc'[c] = pc[c] /\ on'[c] = on[c] /\ ans'[c] = ans[c] /\ (ctx'[c] <=> ctx[c])
    BY <1>0, <1>9 DEF Tap, Goto, TypeOK
  <2>2. (done'[c] <=> done[c]) /\ originErr'[c] = originErr[c]
    BY <1>0, <1>9, Aborts DEF Tap, Goto, TypeOK
  <2>3. openHook'[c] = openHook[c] /\ flightHook'[c] = flightHook[c] /\ srcHook'[c] = srcHook[c]
    BY <1>0, <1>9 DEF Tap, Goto, TypeOK
  <2>4. offset'[c] = offset[c] /\ forwarded'[c] = forwarded[c] /\ pending'[c] = pending[c]
    BY <1>0, <1>9 DEF Tap, Goto, TypeOK
  <2>5. (stopped'[c] <=> stopped[c]) /\ w'[c] = w[c]
    BY <1>0, <1>9, Aborts, SMTT(30) DEF Tap, Goto, TypeOK
  <2>6. apc'[c] = apc[c] /\ recvd'[c] = recvd[c] /\ (clean'[c] <=> clean[c])
    BY <1>0, <1>9 DEF Tap, Goto, TypeOK
  <2> QED BY <2>1, <2>2, <2>3, <2>4, <2>5, <2>6 DEF Same
<1>10. CASE Opened(d)
  <2>1. pc'[c] = pc[c] /\ on'[c] = on[c] /\ ans'[c] = ans[c] /\ (ctx'[c] <=> ctx[c])
    BY <1>0, <1>10 DEF Opened, CloseTap, Answer, Goto, TypeOK
  <2>2. (done'[c] <=> done[c]) /\ originErr'[c] = originErr[c]
    BY <1>0, <1>10, Aborts DEF Opened, CloseTap, Answer, Goto, TypeOK
  <2>3. openHook'[c] = openHook[c] /\ flightHook'[c] = flightHook[c] /\ srcHook'[c] = srcHook[c]
    BY <1>0, <1>10 DEF Opened, CloseTap, Answer, Goto, TypeOK
  <2>4. offset'[c] = offset[c] /\ forwarded'[c] = forwarded[c] /\ pending'[c] = pending[c]
    BY <1>0, <1>10 DEF Opened, CloseTap, Answer, Goto, TypeOK
  <2>5. (stopped'[c] <=> stopped[c]) /\ w'[c] = w[c]
    BY <1>0, <1>10, Aborts DEF Opened, CloseTap, Answer, Goto, TypeOK
  <2>6. apc'[c] = apc[c] /\ recvd'[c] = recvd[c] /\ (clean'[c] <=> clean[c])
    BY <1>0, <1>10 DEF Opened, CloseTap, Answer, Goto, TypeOK
  <2> QED BY <2>1, <2>2, <2>3, <2>4, <2>5, <2>6 DEF Same
<1>11. CASE Read(d)
  <2>1. PICK n \in 0 .. Size + 1 : ReadCase(d, n)
    BY <1>0, <1>11, ReadCases
  <2> USE DEF ReadCase
  <2>2. pc'[c] = pc[c] /\ on'[c] = on[c] /\ ans'[c] = ans[c] /\ (ctx'[c] <=> ctx[c])
    BY <1>0, <1>11, <2>1 DEF Read, stopComplete, Goto, TypeOK
  <2>3. (done'[c] <=> done[c]) /\ originErr'[c] = originErr[c]
    BY <1>0, <1>11, <2>1, Aborts DEF Read, stopComplete, Goto, TypeOK
  <2>4. openHook'[c] = openHook[c] /\ flightHook'[c] = flightHook[c] /\ srcHook'[c] = srcHook[c]
    BY <1>0, <1>11, <2>1 DEF Read, stopComplete, Goto, TypeOK
  <2>5. offset'[c] = offset[c] /\ forwarded'[c] = forwarded[c] /\ pending'[c] = pending[c]
    BY <1>0, <1>11, <2>1, SMTT(30) DEF Read, stopComplete, Goto, TypeOK
  <2>6. (stopped'[c] <=> stopped[c]) /\ w'[c] = w[c]
    BY <1>0, <1>11, <2>1, Aborts, SMTT(30) DEF stopComplete, TypeOK
  <2>7. apc'[c] = apc[c] /\ recvd'[c] = recvd[c] /\ (clean'[c] <=> clean[c])
    BY <1>0, <1>11, <2>1 DEF Read, stopComplete, Goto, TypeOK
  <2> QED BY <2>2, <2>3, <2>4, <2>5, <2>6, <2>7 DEF Same
<1>12. CASE Piped(d)
  <2>1. PipedCase(d)
    BY <1>0, <1>12, PipedCases
  <2> USE DEF PipedCase
  <2>2. pc'[c] = pc[c] /\ on'[c] = on[c] /\ ans'[c] = ans[c] /\ (ctx'[c] <=> ctx[c])
    BY <1>0, <1>12, <2>1 DEF Piped, stopComplete, Goto, TypeOK
  <2>3. (done'[c] <=> done[c]) /\ originErr'[c] = originErr[c]
    BY <1>0, <1>12, <2>1, Aborts DEF Piped, stopComplete, Goto, TypeOK
  <2>4. openHook'[c] = openHook[c] /\ flightHook'[c] = flightHook[c] /\ srcHook'[c] = srcHook[c]
    BY <1>0, <1>12, <2>1 DEF Piped, stopComplete, Goto, TypeOK
  <2>5. offset'[c] = offset[c] /\ forwarded'[c] = forwarded[c] /\ pending'[c] = pending[c]
    BY <1>0, <1>12, <2>1 DEF Piped, stopComplete, Goto, TypeOK
  <2>6. (stopped'[c] <=> stopped[c]) /\ w'[c] = w[c]
    <3>1. CASE stopAbort(d)
      BY <1>0, <3>1, Aborts
    <3>2. CASE ~stopAbort(d)
      BY <1>0, <2>1, <3>2 DEF stopComplete, TypeOK
    <3> QED BY <3>1, <3>2
  <2>7. apc'[c] = apc[c] /\ recvd'[c] = recvd[c] /\ (clean'[c] <=> clean[c])
    BY <1>0, <1>12, <2>1 DEF Piped, stopComplete, Goto, TypeOK
  <2> QED BY <2>2, <2>3, <2>4, <2>5, <2>6, <2>7 DEF Same
<1>13. CASE Complete(d)
  BY <1>0, <1>13 DEF Complete, Goto, TypeOK, Same
<1>14. CASE Seek(d)
  <2>1. pc'[c] = pc[c] /\ on'[c] = on[c] /\ ans'[c] = ans[c] /\ (ctx'[c] <=> ctx[c])
    BY <1>0, <1>14 DEF Seek, TypeOK
  <2>2. (done'[c] <=> done[c]) /\ originErr'[c] = originErr[c]
    BY <1>0, <1>14, Aborts DEF Seek, TypeOK
  <2>3. openHook'[c] = openHook[c] /\ flightHook'[c] = flightHook[c] /\ srcHook'[c] = srcHook[c]
    BY <1>0, <1>14 DEF Seek, TypeOK
  <2>4. offset'[c] = offset[c] /\ forwarded'[c] = forwarded[c] /\ pending'[c] = pending[c]
    BY <1>0, <1>14 DEF Seek, TypeOK
  <2>5. (stopped'[c] <=> stopped[c]) /\ w'[c] = w[c]
    BY <1>0, <1>14, Aborts DEF Seek, TypeOK
  <2>6. apc'[c] = apc[c] /\ recvd'[c] = recvd[c] /\ (clean'[c] <=> clean[c])
    BY <1>0, <1>14 DEF Seek, TypeOK
  <2> QED BY <2>1, <2>2, <2>3, <2>4, <2>5, <2>6 DEF Same
<1>15. CASE Close(d)
  <2>1. pc'[c] = pc[c] /\ on'[c] = on[c] /\ ans'[c] = ans[c] /\ (ctx'[c] <=> ctx[c])
    BY <1>0, <1>15 DEF Close, CloseTap, Goto, TypeOK
  <2>2. (done'[c] <=> done[c]) /\ originErr'[c] = originErr[c]
    BY <1>0, <1>15, Aborts DEF Close, CloseTap, Goto, TypeOK
  <2>3. openHook'[c] = openHook[c] /\ flightHook'[c] = flightHook[c] /\ srcHook'[c] = srcHook[c]
    BY <1>0, <1>15 DEF Close, CloseTap, Goto, TypeOK
  <2>4. offset'[c] = offset[c] /\ forwarded'[c] = forwarded[c] /\ pending'[c] = pending[c]
    BY <1>0, <1>15 DEF Close, CloseTap, Goto, TypeOK
  <2>5. (stopped'[c] <=> stopped[c]) /\ w'[c] = w[c]
    BY <1>0, <1>15, Aborts DEF Close, CloseTap, Goto, TypeOK
  <2>6. apc'[c] = apc[c] /\ recvd'[c] = recvd[c] /\ (clean'[c] <=> clean[c])
    BY <1>0, <1>15 DEF Close, CloseTap, Goto, TypeOK
  <2> QED BY <2>1, <2>2, <2>3, <2>4, <2>5, <2>6 DEF Same
<1>16. CASE AddMeta(d)
  BY <1>0, <1>16 DEF AddMeta, AddGoto, TypeOK, Same
<1>17. CASE AddRead(d)
  BY <1>0, <1>17 DEF AddRead, AddGoto, TypeOK, Same
<1>18. CASE AddPublish(d)
  BY <1>0, <1>18 DEF AddPublish, AddGoto, TypeOK, Same
<1>19. CASE AddEnd(d)
  BY <1>0, <1>19 DEF AddEnd, AddGoto, TypeOK, Same
<1>20. CASE AddFinish(d)
  <2>1. pc'[c] = pc[c] /\ on'[c] = on[c] /\ ans'[c] = ans[c] /\ (ctx'[c] <=> ctx[c])
    BY <1>0, <1>20 DEF AddFinish, AddGoto, TypeOK
  <2>2. (done'[c] <=> done[c]) /\ originErr'[c] = originErr[c]
    BY <1>0, <1>20, Finishes DEF AddFinish, AddGoto, TypeOK
  <2>3. openHook'[c] = openHook[c] /\ flightHook'[c] = flightHook[c] /\ srcHook'[c] = srcHook[c]
    BY <1>0, <1>20 DEF AddFinish, AddGoto, TypeOK
  <2>4. offset'[c] = offset[c] /\ forwarded'[c] = forwarded[c] /\ pending'[c] = pending[c]
    BY <1>0, <1>20 DEF AddFinish, AddGoto, TypeOK
  <2>5. (stopped'[c] <=> stopped[c]) /\ w'[c] = w[c]
    BY <1>0, <1>20, Finishes DEF AddFinish, AddGoto, TypeOK
  <2>6. apc'[c] = apc[c] /\ recvd'[c] = recvd[c] /\ (clean'[c] <=> clean[c])
    BY <1>0, <1>20 DEF AddFinish, AddGoto, TypeOK
  <2> QED BY <2>1, <2>2, <2>3, <2>4, <2>5, <2>6 DEF Same
<1>21. CASE TimerFires(d)
  BY <1>0, <1>21 DEF TimerFires, TypeOK, Same
<1>22. CASE Cancel(d)
  BY <1>0, <1>22 DEF Cancel, TypeOK, Same
<1>23. CASE FlightCanceled(d)
  <2>1. pc'[c] = pc[c] /\ on'[c] = on[c] /\ ans'[c] = ans[c] /\ (ctx'[c] <=> ctx[c])
    BY <1>0, <1>23 DEF FlightCanceled, TypeOK
  <2>2. (done'[c] <=> done[c]) /\ originErr'[c] = originErr[c]
    BY <1>0, <1>23, Finishes DEF FlightCanceled, TypeOK
  <2>3. openHook'[c] = openHook[c] /\ flightHook'[c] = flightHook[c] /\ srcHook'[c] = srcHook[c]
    BY <1>0, <1>23 DEF FlightCanceled, TypeOK
  <2>4. offset'[c] = offset[c] /\ forwarded'[c] = forwarded[c] /\ pending'[c] = pending[c]
    BY <1>0, <1>23 DEF FlightCanceled, TypeOK
  <2>5. (stopped'[c] <=> stopped[c]) /\ w'[c] = w[c]
    BY <1>0, <1>23, Finishes DEF FlightCanceled, TypeOK
  <2>6. apc'[c] = apc[c] /\ recvd'[c] = recvd[c] /\ (clean'[c] <=> clean[c])
    BY <1>0, <1>23 DEF FlightCanceled, TypeOK
  <2> QED BY <2>1, <2>2, <2>3, <2>4, <2>5, <2>6 DEF Same
<1>24. CASE SourceCanceled(d)
  <2>1. pc'[c] = pc[c] /\ on'[c] = on[c] /\ ans'[c] = ans[c] /\ (ctx'[c] <=> ctx[c])
    BY <1>0, <1>24 DEF SourceCanceled, CloseTap, TypeOK
  <2>2. (done'[c] <=> done[c]) /\ originErr'[c] = originErr[c]
    BY <1>0, <1>24, Aborts DEF SourceCanceled, CloseTap, TypeOK
  <2>3. openHook'[c] = openHook[c] /\ flightHook'[c] = flightHook[c] /\ srcHook'[c] = srcHook[c]
    BY <1>0, <1>24 DEF SourceCanceled, CloseTap, TypeOK
  <2>4. offset'[c] = offset[c] /\ forwarded'[c] = forwarded[c] /\ pending'[c] = pending[c]
    BY <1>0, <1>24 DEF SourceCanceled, CloseTap, TypeOK
  <2>5. (stopped'[c] <=> stopped[c]) /\ w'[c] = w[c]
    BY <1>0, <1>24, Aborts DEF SourceCanceled, CloseTap, TypeOK
  <2>6. apc'[c] = apc[c] /\ recvd'[c] = recvd[c] /\ (clean'[c] <=> clean[c])
    BY <1>0, <1>24 DEF SourceCanceled, CloseTap, TypeOK
  <2> QED BY <2>1, <2>2, <2>3, <2>4, <2>5, <2>6 DEF Same
<1> QED BY <1>1, <1>2, <1>3, <1>4, <1>5, <1>6, <1>7, <1>8, <1>9, <1>10, <1>11, <1>12, <1>13,
           <1>14, <1>15, <1>16, <1>17, <1>18, <1>19, <1>20, <1>21, <1>22, <1>23, <1>24 DEF Step,
           Opening, Tapping, Adding, Hooks

\* A caller's own steps keep its invariant, conjunct by conjunct.
LEMMA NextCaller ==
    ASSUME TapInv, TypeOK', NEW d \in Caller, Step(d)
    PROVE  CallerInv(d)'
<1> USE TapAssumption DEF flightVars, callVars, hookVars, tapVars, pipeVars, addVars, fillVars, EarlyPcs, TapPcs
<1>0. TypeOK /\ EarlyInv(d) /\ JoinInv(d) /\ StreamInv(d) /\ EndInv(d) /\ HookInv(d) /\ FlightInv(d) /\ CleanInv(d) /\ AnsInv(d)
  BY DEF TapInv, CallerInv
<1>f. \A e \in {None, "origin"} : finish(d, e) =>
         (done'[d] => done[d] \/ on[d] = d) /\ originErr'[d] # "canceled"
  BY <1>0, Finishes DEF FlightInv
<1>a. stopAbort(d) =>
         /\ (done'[d] => done[d] \/ on[d] = d) /\ originErr'[d] # "canceled"
         /\ stopped'[d] /\ (stopped[d] => w'[d] = w[d] /\ (done'[d] <=> done[d]))
         /\ (~stopped[d] => w'[d] = "err")
  BY <1>0, Aborts DEF FlightInv
<1>h. /\ Stop(openHook[d]) # "set" /\ (Stop(openHook[d]) = "run" <=> openHook[d] = "run")
      /\ Stop(flightHook[d]) # "set" /\ (Stop(flightHook[d]) = "run" <=> flightHook[d] = "run")
      /\ Stop(srcHook[d]) # "set" /\ (Stop(srcHook[d]) = "run" <=> srcHook[d] = "run")
      /\ (openHook[d] = "off" => Stop(openHook[d]) = "off") /\ (flightHook[d] = "off" => Stop(flightHook[d]) = "off")
      /\ Register(d) \in {"set", "run"} /\ (Register(d) = "run" => ctx[d])
      /\ Stop(openHook[d]) \in Hook /\ Stop(flightHook[d]) \in Hook
  BY <1>0 DEF TypeOK, Stop, Register, Hook
<1>1. CASE Open(d)
  <2>1. EarlyInv(d)'
    BY <1>0, <1>1 DEF Open, Answer, Goto, TypeOK, EarlyInv
  <2>2. JoinInv(d)'
    BY <1>0, <1>1 DEF Open, Answer, Goto, TypeOK, JoinInv
  <2>3. StreamInv(d)'
    BY <1>0, <1>1 DEF Open, Answer, Goto, TypeOK, StreamInv, EarlyInv
  <2>4. EndInv(d)'
    BY <1>0, <1>1 DEF Open, Answer, Goto, TypeOK, EndInv, EarlyInv, StreamInv
  <2>5. HookInv(d)'
    BY <1>0, <1>1 DEF Open, Answer, Goto, TypeOK, HookInv, EarlyInv
  <2>6. FlightInv(d)'
    BY <1>0, <1>1 DEF Open, Answer, Goto, TypeOK, FlightInv, EarlyInv, HookInv, CleanInv, EndInv,
       JoinInv
  <2>7. CleanInv(d)'
    BY <1>0, <1>1 DEF Open, Answer, Goto, TypeOK, CleanInv, EarlyInv, HookInv, FlightInv, EndInv
  <2>8. AnsInv(d)'
    BY <1>0, <1>1 DEF Open, Answer, Goto, TypeOK, AnsInv, FlightInv
  <2> QED BY <2>1, <2>2, <2>3, <2>4, <2>5, <2>6, <2>7, <2>8 DEF CallerInv
<1>2. CASE Join(d)
  <2>1. EarlyInv(d)'
    BY <1>0, <1>2 DEF Join, Goto, TypeOK, EarlyInv
  <2>2. JoinInv(d)'
    BY <1>0, <1>2 DEF Join, Goto, TypeOK, JoinInv
  <2>3. StreamInv(d)'
    BY <1>0, <1>2 DEF Join, Goto, TypeOK, StreamInv, EarlyInv
  <2>4. EndInv(d)'
    BY <1>0, <1>2 DEF Join, Goto, TypeOK, EndInv, EarlyInv, StreamInv
  <2>5. HookInv(d)'
    BY <1>0, <1>2 DEF Join, Goto, TypeOK, HookInv, EarlyInv
  <2>6. FlightInv(d)'
    BY <1>0, <1>2 DEF Join, Goto, TypeOK, FlightInv, EarlyInv, HookInv, CleanInv, EndInv, JoinInv
  <2>7. CleanInv(d)'
    BY <1>0, <1>2 DEF Join, Goto, TypeOK, CleanInv, EarlyInv, HookInv, FlightInv, EndInv
  <2>8. AnsInv(d)'
    BY <1>0, <1>2 DEF Join, Goto, TypeOK, AnsInv, FlightInv
  <2> QED BY <2>1, <2>2, <2>3, <2>4, <2>5, <2>6, <2>7, <2>8 DEF CallerInv
<1>3. CASE Wait(d)
  <2>1. EarlyInv(d)'
    BY <1>0, <1>3 DEF Wait, Answer, Goto, TypeOK, EarlyInv
  <2>2. JoinInv(d)'
    BY <1>0, <1>3 DEF Wait, Answer, Goto, TypeOK, JoinInv
  <2>3. StreamInv(d)'
    BY <1>0, <1>3 DEF Wait, Answer, Goto, TypeOK, StreamInv, EarlyInv
  <2>4. EndInv(d)'
    BY <1>0, <1>3 DEF Wait, Answer, Goto, TypeOK, EndInv, EarlyInv, StreamInv
  <2>5. HookInv(d)'
    BY <1>0, <1>3 DEF Wait, Answer, Goto, TypeOK, HookInv, EarlyInv
  <2>6. FlightInv(d)'
    BY <1>0, <1>3 DEF Wait, Answer, Goto, TypeOK, FlightInv, EarlyInv, HookInv, CleanInv, EndInv,
       JoinInv
  <2>7. CleanInv(d)'
    BY <1>0, <1>3 DEF Wait, Answer, Goto, TypeOK, CleanInv, EarlyInv, HookInv, FlightInv, EndInv
  <2>8. AnsInv(d)'
    BY <1>0, <1>3 DEF Wait, Answer, Goto, TypeOK, AnsInv, FlightInv
  <2> QED BY <2>1, <2>2, <2>3, <2>4, <2>5, <2>6, <2>7, <2>8 DEF CallerInv
<1>4. CASE Recheck(d)
  <2>1. EarlyInv(d)'
    BY <1>0, <1>4 DEF Recheck, Answer, Goto, TypeOK, EarlyInv
  <2>2. JoinInv(d)'
    BY <1>0, <1>4, SMTT(30) DEF Recheck, Answer, Goto, TypeOK, JoinInv
  <2>3. StreamInv(d)'
    BY <1>0, <1>4 DEF Recheck, Answer, Goto, TypeOK, StreamInv, EarlyInv
  <2>4. EndInv(d)'
    BY <1>0, <1>4 DEF Recheck, Answer, Goto, TypeOK, EndInv, EarlyInv, StreamInv
  <2>5. HookInv(d)'
    BY <1>0, <1>4, SMTT(30) DEF Recheck, Answer, Goto, TypeOK, HookInv, EarlyInv
  <2>6. FlightInv(d)'
    BY <1>0, <1>4 DEF Recheck, Answer, Goto, TypeOK, FlightInv, EarlyInv, HookInv, CleanInv,
       EndInv, JoinInv
  <2>7. CleanInv(d)'
    BY <1>0, <1>4 DEF Recheck, Answer, Goto, TypeOK, CleanInv, EarlyInv, HookInv, FlightInv, EndInv
  <2>8. AnsInv(d)'
    <3>1. on[d] \in Caller
      BY <1>0, <1>4 DEF Recheck, JoinInv
    <3>2. originErr[on[d]] # "canceled"
      BY <3>1 DEF TapInv, CallerInv, FlightInv
    <3> QED BY <1>0, <1>4, <3>2 DEF Recheck, Answer, Goto, TypeOK, AnsInv
  <2> QED BY <2>1, <2>2, <2>3, <2>4, <2>5, <2>6, <2>7, <2>8 DEF CallerInv
<1>5. CASE Lead(d)
  <2>1. EarlyInv(d)'
    BY <1>0, <1>5, <1>h DEF Lead, Goto, TypeOK, EarlyInv, Hook
  <2>2. JoinInv(d)'
    BY <1>0, <1>5, <1>h DEF Lead, Goto, TypeOK, JoinInv
  <2>3. StreamInv(d)'
    BY <1>0, <1>5, <1>h DEF Lead, Goto, TypeOK, StreamInv, EarlyInv
  <2>4. EndInv(d)'
    BY <1>0, <1>5, <1>h DEF Lead, Goto, TypeOK, EndInv, EarlyInv, StreamInv
  <2>5. HookInv(d)'
    BY <1>0, <1>5, <1>h DEF Lead, Goto, TypeOK, HookInv, EarlyInv, Hook
  <2>6. FlightInv(d)'
    BY <1>0, <1>5, <1>h DEF Lead, Goto, TypeOK, FlightInv, EarlyInv, HookInv, CleanInv, EndInv,
       JoinInv
  <2>7. CleanInv(d)'
    BY <1>0, <1>5, <1>h DEF Lead, Goto, TypeOK, CleanInv, EarlyInv, HookInv, FlightInv, EndInv, Hook
  <2>8. AnsInv(d)'
    BY <1>0, <1>5, <1>h DEF Lead, Goto, TypeOK, AnsInv, FlightInv
  <2> QED BY <2>1, <2>2, <2>3, <2>4, <2>5, <2>6, <2>7, <2>8 DEF CallerInv
<1>6. CASE Second(d)
  <2>1. EarlyInv(d)'
    BY <1>0, <1>6, <1>f, <1>h DEF Second, Answer, Goto, TypeOK, EarlyInv, Hook
  <2>2. JoinInv(d)'
    <3>1. \E l \in Labels \ {"idle", "join", "wait", "recheck"} : pc' = [pc EXCEPT ![d] = l]
      BY <1>6 DEF Second, Answer, Goto, Labels
    <3>2. pc'[d] \notin {"idle", "join", "wait", "recheck"}
      BY <1>0, <3>1 DEF TypeOK
    <3> QED BY <3>2 DEF JoinInv
  <2>3. StreamInv(d)'
    BY <1>0, <1>6, <1>f, <1>h DEF Second, Answer, Goto, TypeOK, StreamInv, EarlyInv
  <2>4. EndInv(d)'
    BY <1>0, <1>6, <1>f, <1>h DEF Second, Answer, Goto, TypeOK, EndInv, EarlyInv, StreamInv
  <2>5. HookInv(d)'
    BY <1>0, <1>6, <1>f, <1>h DEF Second, Answer, Goto, TypeOK, HookInv, EarlyInv, Hook
  <2>6. FlightInv(d)'
    BY <1>0, <1>6, <1>f, <1>h DEF Second, Answer, Goto, TypeOK, FlightInv, EarlyInv, HookInv,
       CleanInv, EndInv, JoinInv
  <2>7. CleanInv(d)'
    BY <1>0, <1>6, <1>f, <1>h DEF Second, Answer, Goto, TypeOK, CleanInv, EarlyInv, HookInv,
       FlightInv, EndInv, Hook
  <2>8. AnsInv(d)'
    BY <1>0, <1>6, <1>f, <1>h DEF Second, Answer, Goto, TypeOK, AnsInv, FlightInv
  <2> QED BY <2>1, <2>2, <2>3, <2>4, <2>5, <2>6, <2>7, <2>8 DEF CallerInv
<1>7. CASE Start(d)
  <2>1. EarlyInv(d)'
    BY <1>0, <1>7, <1>f, <1>h DEF Start, Answer, Goto, TypeOK, EarlyInv, Hook
  <2>2. JoinInv(d)'
    <3>1. \E l \in Labels \ {"idle", "join", "wait", "recheck"} : pc' = [pc EXCEPT ![d] = l]
      BY <1>7 DEF Start, Answer, Goto, Labels
    <3>2. pc'[d] \notin {"idle", "join", "wait", "recheck"}
      BY <1>0, <3>1 DEF TypeOK
    <3> QED BY <3>2 DEF JoinInv
  <2>3. StreamInv(d)'
    BY <1>0, <1>7, <1>f, <1>h DEF Start, Answer, Goto, TypeOK, StreamInv, EarlyInv
  <2>4. EndInv(d)'
    BY <1>0, <1>7, <1>f, <1>h DEF Start, Answer, Goto, TypeOK, EndInv, EarlyInv, StreamInv
  <2>5. HookInv(d)'
    BY <1>0, <1>7, <1>f, <1>h DEF Start, Answer, Goto, TypeOK, HookInv, EarlyInv, Hook
  <2>6. FlightInv(d)'
    BY <1>0, <1>7, <1>f, <1>h DEF Start, Answer, Goto, TypeOK, FlightInv, EarlyInv, HookInv,
       CleanInv, EndInv, JoinInv
  <2>7. CleanInv(d)'
    BY <1>0, <1>7, <1>f, <1>h DEF Start, Answer, Goto, TypeOK, CleanInv, EarlyInv, HookInv,
       FlightInv, EndInv, Hook
  <2>8. AnsInv(d)'
    BY <1>0, <1>7, <1>f, <1>h DEF Start, Answer, Goto, TypeOK, AnsInv, FlightInv
  <2> QED BY <2>1, <2>2, <2>3, <2>4, <2>5, <2>6, <2>7, <2>8 DEF CallerInv
<1>8. CASE OriginOpen(d)
  <2>1. EarlyInv(d)'
    BY <1>0, <1>8, <1>f, <1>h DEF OriginOpen, OriginFailed, Answer, Goto, TypeOK, EarlyInv, Hook
  <2>2. JoinInv(d)'
    <3>1. \E l \in Labels \ {"idle", "join", "wait", "recheck"} : pc' = [pc EXCEPT ![d] = l]
      BY <1>8 DEF OriginOpen, OriginFailed, Answer, Goto, Labels
    <3>2. pc'[d] \notin {"idle", "join", "wait", "recheck"}
      BY <1>0, <3>1 DEF TypeOK
    <3> QED BY <3>2 DEF JoinInv
  <2>3. StreamInv(d)'
    BY <1>0, <1>8, <1>f, <1>h DEF OriginOpen, OriginFailed, Answer, Goto, TypeOK, StreamInv,
       EarlyInv
  <2>4. EndInv(d)'
    BY <1>0, <1>8, <1>f, <1>h DEF OriginOpen, OriginFailed, Answer, Goto, TypeOK, EndInv,
       EarlyInv, StreamInv
  <2>5. HookInv(d)'
    BY <1>0, <1>8, <1>f, <1>h DEF OriginOpen, OriginFailed, Answer, Goto, TypeOK, HookInv,
       EarlyInv, Hook
  <2>6. FlightInv(d)'
    BY <1>0, <1>8, <1>f, <1>h DEF OriginOpen, OriginFailed, Answer, Goto, TypeOK, FlightInv,
       EarlyInv, HookInv, CleanInv, EndInv, JoinInv
  <2>7. CleanInv(d)'
    BY <1>0, <1>8, <1>f, <1>h DEF OriginOpen, OriginFailed, Answer, Goto, TypeOK, CleanInv,
       EarlyInv, HookInv, FlightInv, EndInv, Hook
  <2>8. AnsInv(d)'
    BY <1>0, <1>8, <1>f, <1>h DEF OriginOpen, OriginFailed, Answer, Goto, TypeOK, AnsInv, FlightInv
  <2> QED BY <2>1, <2>2, <2>3, <2>4, <2>5, <2>6, <2>7, <2>8 DEF CallerInv
<1>9. CASE Tap(d)
  <2>1. EarlyInv(d)'
    BY <1>0, <1>9, <1>a, <1>h DEF Tap, Goto, TypeOK, EarlyInv, Hook
  <2>2. JoinInv(d)'
    BY <1>0, <1>9, <1>a, <1>h DEF Tap, Goto, TypeOK, JoinInv
  <2>3. StreamInv(d)'
    BY <1>0, <1>9, <1>a, <1>h DEF Tap, Goto, TypeOK, StreamInv, EarlyInv
  <2>4. EndInv(d)'
    BY <1>0, <1>9, <1>a, <1>h DEF Tap, Goto, TypeOK, EndInv, EarlyInv, StreamInv
  <2>5. HookInv(d)'
    BY <1>0, <1>9, <1>a, <1>h DEF Tap, Goto, TypeOK, HookInv, EarlyInv, Hook
  <2>6. FlightInv(d)'
    BY <1>0, <1>9, <1>a, <1>h DEF Tap, Goto, TypeOK, FlightInv, EarlyInv, HookInv, CleanInv,
       EndInv, JoinInv
  <2>7. CleanInv(d)'
    BY <1>0, <1>9, <1>a, <1>h DEF Tap, Goto, TypeOK, CleanInv, EarlyInv, HookInv, FlightInv,
       EndInv, Hook
  <2>8. AnsInv(d)'
    BY <1>0, <1>9, <1>a, <1>h DEF Tap, Goto, TypeOK, AnsInv, FlightInv
  <2> QED BY <2>1, <2>2, <2>3, <2>4, <2>5, <2>6, <2>7, <2>8 DEF CallerInv
<1>10. CASE Opened(d)
  <2>1. EarlyInv(d)'
    BY <1>0, <1>10, <1>a, <1>h, SMTT(30) DEF Opened, CloseTap, Answer, Goto, TypeOK, EarlyInv, Hook
  <2>2. JoinInv(d)'
    <3>1. \E l \in Labels \ {"idle", "join", "wait", "recheck"} : pc' = [pc EXCEPT ![d] = l]
      BY <1>10 DEF Opened, CloseTap, Answer, Goto, Labels
    <3>2. pc'[d] \notin {"idle", "join", "wait", "recheck"}
      BY <1>0, <3>1 DEF TypeOK
    <3> QED BY <3>2 DEF JoinInv
  <2>3. StreamInv(d)'
    BY <1>0, <1>10, <1>a, <1>h DEF Opened, CloseTap, Answer, Goto, TypeOK, StreamInv, EarlyInv
  <2>4. EndInv(d)'
    <3>1. recvd'[d] = recvd[d] /\ pc'[d] # "completing"
      BY <1>0, <1>10 DEF Opened, CloseTap, Answer, Goto, TypeOK
    <3>2. stopAbort(d) \/ UNCHANGED <<stopped, w>>
      BY <1>10 DEF Opened, CloseTap
    <3> QED BY <1>0, <1>a, <3>1, <3>2 DEF EndInv
  <2>5. HookInv(d)'
    BY <1>0, <1>10, <1>a, <1>h DEF Opened, CloseTap, Answer, Goto, TypeOK, HookInv, EarlyInv, Hook
  <2>6. FlightInv(d)'
    BY <1>0, <1>10, <1>a, <1>h DEF Opened, CloseTap, Answer, Goto, TypeOK, FlightInv, EarlyInv,
       HookInv, CleanInv, EndInv, JoinInv
  <2>7. CleanInv(d)'
    BY <1>0, <1>10, <1>a, <1>h DEF Opened, CloseTap, Answer, Goto, TypeOK, CleanInv, EarlyInv,
       HookInv, FlightInv, EndInv, Hook
  <2>8. AnsInv(d)'
    BY <1>0, <1>10, <1>a, <1>h DEF Opened, CloseTap, Answer, Goto, TypeOK, AnsInv, FlightInv
  <2> QED BY <2>1, <2>2, <2>3, <2>4, <2>5, <2>6, <2>7, <2>8 DEF CallerInv
<1>11. CASE Read(d)
  <2>0. PICK n \in 0 .. Size + 1 : ReadCase(d, n)
    BY <1>0, <1>11, ReadCases
  <2> USE DEF ReadCase
  <2>a. pc'[d] \in TapPcs /\ pc[d] \in TapPcs
    BY <1>0, <1>11, <2>0 DEF Read, stopComplete, Goto, TypeOK
  <2>b. /\ on'[d] = on[d] /\ (ctx'[d] <=> ctx[d]) /\ recvd'[d] = recvd[d] /\ apc'[d] = apc[d]
        /\ openHook'[d] = openHook[d] /\ flightHook'[d] = flightHook[d] /\ (clean'[d] <=> clean[d]) /\ ans'[d] = ans[d]
    BY <1>0, <1>11 DEF Read, TypeOK
  <2>d. forwarded'[d] = forwarded[d] /\ offset'[d] = n /\ forwarded[d] \in 0 .. Size /\ pc[d] = "reading"
    BY <1>0, <1>11, <2>0 DEF Read, TypeOK
  <2>e. \/ UNCHANGED <<pc, stopped, w, flightVars, pending>>
        \/ stopAbort(d) /\ pc' = pc /\ pending' = pending
        \/ /\ ~stopped[d] /\ forwarded[d] < n /\ n <= Size /\ pc'[d] = "piping"
           /\ pending'[d] = [i \in 1 .. n - forwarded[d] |-> forwarded[d] + i]
           /\ UNCHANGED <<stopped, w, flightVars>>
        \/ /\ ~stopped[d] /\ forwarded[d] = Size /\ pc'[d] = "completing" /\ w'[d] = "EOF" /\ stopped'[d]
           /\ pending' = pending /\ UNCHANGED flightVars
    BY <1>0, <2>0 DEF stopComplete, Goto, TypeOK
  <2>1. EarlyInv(d)'
    BY <2>a DEF EarlyInv
  <2>2. JoinInv(d)'
    BY <2>a DEF JoinInv
  <2>3. StreamInv(d)'
    <3>1. pending[d] = <<>> /\ Len(recvd[d]) = forwarded[d] /\ (\A i \in DOMAIN recvd[d] : recvd[d][i] = i)
      BY <1>0, <2>d DEF StreamInv
    <3>2. CASE pc'[d] # "piping" /\ pending' = pending
      BY <2>b, <2>d, <3>1, <3>2 DEF StreamInv
    <3>3. CASE /\ forwarded[d] < n /\ n <= Size /\ pc'[d] = "piping"
               /\ pending'[d] = [i \in 1 .. n - forwarded[d] |-> forwarded[d] + i]
      <4>1. pending'[d] \in Seq(Int) /\ Len(pending'[d]) = n - forwarded[d] /\ DOMAIN pending'[d] = 1 .. n - forwarded[d]
        BY <2>d, <3>3
      <4>2. forwarded[d] + (n - forwarded[d]) = n
        BY <2>d
      <4>3. Len(recvd'[d]) = forwarded[d] /\ (\A i \in DOMAIN recvd'[d] : recvd'[d][i] = i)
        BY <2>b, <3>1
      <4>4. \A i \in DOMAIN pending'[d] : pending'[d][i] = forwarded[d] + i
        BY <3>3, <4>1
      <4>5. offset'[d] <= Size /\ Len(recvd'[d]) + Len(pending'[d]) = offset'[d]
        BY <2>d, <3>3, <4>1, <4>2, <4>3
      <4> QED BY <3>3, <4>3, <4>4, <4>5 DEF StreamInv
    <3> QED BY <2>d, <2>e, <3>2, <3>3
  <2>4. EndInv(d)'
    BY <1>0, <1>a, <2>b, <2>d, <2>e DEF EndInv, StreamInv
  <2>5. HookInv(d)'
    BY <1>0, <2>a, <2>b DEF HookInv
  <2>6. FlightInv(d)'
    BY <1>0, <1>a, <2>b, <2>d, <2>e DEF FlightInv, EndInv, CleanInv
  <2>7. CleanInv(d)'
    BY <1>0, <1>a, <2>b, <2>d, <2>e DEF CleanInv, EndInv
  <2>8. AnsInv(d)'
    BY <1>0, <2>b DEF AnsInv
  <2> QED BY <2>1, <2>2, <2>3, <2>4, <2>5, <2>6, <2>7, <2>8 DEF CallerInv
<1>12. CASE Piped(d)
  <2>0. PipedCase(d)
    BY <1>0, <1>12, PipedCases
  <2> USE DEF PipedCase
  <2>a. pc'[d] \in TapPcs /\ pc[d] \in TapPcs
    BY <1>0, <1>12, <2>0 DEF Piped, stopComplete, Goto, TypeOK
  <2>b. /\ on'[d] = on[d] /\ (ctx'[d] <=> ctx[d]) /\ recvd'[d] = recvd[d] /\ apc'[d] = apc[d]
        /\ openHook'[d] = openHook[d] /\ flightHook'[d] = flightHook[d] /\ (clean'[d] <=> clean[d]) /\ ans'[d] = ans[d]
    BY <1>0, <1>12 DEF Piped, TypeOK
  <2>d. forwarded'[d] = Len(recvd[d]) /\ pending'[d] = <<>> /\ pc[d] = "piping"
    BY <1>0, <1>12, <2>0 DEF Piped, TypeOK
  <2>e. \/ /\ ~stopped[d] /\ Len(recvd[d]) = Size /\ pc'[d] = "completing" /\ w'[d] = "EOF" /\ stopped'[d]
           /\ UNCHANGED flightVars
        \/ pc'[d] = "reading" /\ UNCHANGED <<stopped, w, flightVars>>
        \/ pc'[d] = "reading" /\ stopAbort(d)
    BY <1>0, <2>0 DEF stopComplete, Goto, TypeOK
  <2>1. EarlyInv(d)'
    BY <2>a DEF EarlyInv
  <2>2. JoinInv(d)'
    BY <2>a DEF JoinInv
  <2>3. StreamInv(d)'
    BY <1>0, <2>b, <2>d, <2>e DEF StreamInv
  <2>4. EndInv(d)'
    BY <1>0, <1>a, <2>b, <2>d, <2>e DEF EndInv, StreamInv
  <2>5. HookInv(d)'
    BY <1>0, <2>a, <2>b DEF HookInv
  <2>6. FlightInv(d)'
    BY <1>0, <1>a, <2>b, <2>d, <2>e DEF FlightInv, EndInv, CleanInv
  <2>7. CleanInv(d)'
    BY <1>0, <1>a, <2>b, <2>d, <2>e DEF CleanInv, EndInv
  <2>8. AnsInv(d)'
    BY <1>0, <2>b DEF AnsInv
  <2> QED BY <2>1, <2>2, <2>3, <2>4, <2>5, <2>6, <2>7, <2>8 DEF CallerInv
<1>13. CASE Complete(d)
  <2>1. EarlyInv(d)'
    BY <1>0, <1>13, <1>h DEF Complete, Goto, TypeOK, EarlyInv, Hook
  <2>2. JoinInv(d)'
    BY <1>0, <1>13, <1>h DEF Complete, Goto, TypeOK, JoinInv
  <2>3. StreamInv(d)'
    BY <1>0, <1>13, <1>h DEF Complete, Goto, TypeOK, StreamInv, EarlyInv
  <2>4. EndInv(d)'
    BY <1>0, <1>13, <1>h DEF Complete, Goto, TypeOK, EndInv, EarlyInv, StreamInv
  <2>5. HookInv(d)'
    BY <1>0, <1>13, <1>h DEF Complete, Goto, TypeOK, HookInv, EarlyInv, Hook
  <2>6. FlightInv(d)'
    BY <1>0, <1>13, <1>h DEF Complete, Goto, TypeOK, FlightInv, EarlyInv, HookInv, CleanInv,
       EndInv, JoinInv
  <2>7. CleanInv(d)'
    BY <1>0, <1>13, <1>h DEF Complete, Goto, TypeOK, CleanInv, EarlyInv, HookInv, FlightInv,
       EndInv, Hook
  <2>8. AnsInv(d)'
    BY <1>0, <1>13, <1>h DEF Complete, Goto, TypeOK, AnsInv, FlightInv
  <2> QED BY <2>1, <2>2, <2>3, <2>4, <2>5, <2>6, <2>7, <2>8 DEF CallerInv
<1>14. CASE Seek(d)
  <2>1. EarlyInv(d)'
    BY <1>0, <1>14, <1>a DEF Seek, TypeOK, EarlyInv
  <2>2. JoinInv(d)'
    BY <1>0, <1>14, <1>a DEF Seek, TypeOK, JoinInv
  <2>3. StreamInv(d)'
    BY <1>0, <1>14, <1>a DEF Seek, TypeOK, StreamInv, EarlyInv
  <2>4. EndInv(d)'
    BY <1>0, <1>14, <1>a DEF Seek, TypeOK, EndInv, EarlyInv, StreamInv
  <2>5. HookInv(d)'
    BY <1>0, <1>14, <1>a DEF Seek, TypeOK, HookInv, EarlyInv
  <2>6. FlightInv(d)'
    BY <1>0, <1>14, <1>a DEF Seek, TypeOK, FlightInv, EarlyInv, HookInv, CleanInv, EndInv, JoinInv
  <2>7. CleanInv(d)'
    BY <1>0, <1>14, <1>a DEF Seek, TypeOK, CleanInv, EarlyInv, HookInv, FlightInv, EndInv
  <2>8. AnsInv(d)'
    BY <1>0, <1>14, <1>a DEF Seek, TypeOK, AnsInv, FlightInv
  <2> QED BY <2>1, <2>2, <2>3, <2>4, <2>5, <2>6, <2>7, <2>8 DEF CallerInv
<1>15. CASE Close(d)
  <2>1. EarlyInv(d)'
    BY <1>0, <1>15, <1>a, <1>h DEF Close, CloseTap, Goto, TypeOK, EarlyInv, Hook
  <2>2. JoinInv(d)'
    BY <1>0, <1>15, <1>a, <1>h DEF Close, CloseTap, Goto, TypeOK, JoinInv
  <2>3. StreamInv(d)'
    BY <1>0, <1>15, <1>a, <1>h DEF Close, CloseTap, Goto, TypeOK, StreamInv, EarlyInv
  <2>4. EndInv(d)'
    BY <1>0, <1>15, <1>a, <1>h DEF Close, CloseTap, Goto, TypeOK, EndInv, EarlyInv, StreamInv
  <2>5. HookInv(d)'
    BY <1>0, <1>15, <1>a, <1>h DEF Close, CloseTap, Goto, TypeOK, HookInv, EarlyInv, Hook
  <2>6. FlightInv(d)'
    BY <1>0, <1>15, <1>a, <1>h DEF Close, CloseTap, Goto, TypeOK, FlightInv, EarlyInv, HookInv,
       CleanInv, EndInv, JoinInv
  <2>7. CleanInv(d)'
    BY <1>0, <1>15, <1>a, <1>h DEF Close, CloseTap, Goto, TypeOK, CleanInv, EarlyInv, HookInv,
       FlightInv, EndInv, Hook
  <2>8. AnsInv(d)'
    BY <1>0, <1>15, <1>a, <1>h DEF Close, CloseTap, Goto, TypeOK, AnsInv, FlightInv
  <2> QED BY <2>1, <2>2, <2>3, <2>4, <2>5, <2>6, <2>7, <2>8 DEF CallerInv
<1>16. CASE AddMeta(d)
  <2>1. EarlyInv(d)'
    BY <1>0, <1>16 DEF AddMeta, AddGoto, TypeOK, EarlyInv
  <2>2. JoinInv(d)'
    BY <1>0, <1>16 DEF AddMeta, AddGoto, TypeOK, JoinInv
  <2>3. StreamInv(d)'
    BY <1>0, <1>16 DEF AddMeta, AddGoto, TypeOK, StreamInv, EarlyInv
  <2>4. EndInv(d)'
    BY <1>0, <1>16 DEF AddMeta, AddGoto, TypeOK, EndInv, EarlyInv, StreamInv
  <2>5. HookInv(d)'
    BY <1>0, <1>16 DEF AddMeta, AddGoto, TypeOK, HookInv, EarlyInv
  <2>6. FlightInv(d)'
    BY <1>0, <1>16 DEF AddMeta, AddGoto, TypeOK, FlightInv, EarlyInv, HookInv, CleanInv, EndInv,
       JoinInv
  <2>7. CleanInv(d)'
    BY <1>0, <1>16 DEF AddMeta, AddGoto, TypeOK, CleanInv, EarlyInv, HookInv, FlightInv, EndInv
  <2>8. AnsInv(d)'
    BY <1>0, <1>16 DEF AddMeta, AddGoto, TypeOK, AnsInv, FlightInv
  <2> QED BY <2>1, <2>2, <2>3, <2>4, <2>5, <2>6, <2>7, <2>8 DEF CallerInv
<1>17. CASE AddRead(d)
  <2>1. EarlyInv(d)'
    BY <1>0, <1>17 DEF AddRead, AddGoto, TypeOK, EarlyInv
  <2>2. JoinInv(d)'
    BY <1>0, <1>17 DEF AddRead, AddGoto, TypeOK, JoinInv
  <2>3. StreamInv(d)'
    <3>1. CASE recvd' = recvd /\ pending' = pending
      BY <1>0, <1>17, <3>1 DEF AddRead, StreamInv
    <3>2. CASE /\ pending[d] # <<>> /\ recvd' = [recvd EXCEPT ![d] = Append(@, Head(pending[d]))]
               /\ pending' = [pending EXCEPT ![d] = Tail(@)]
      <4>1. recvd[d] \in Seq(1 .. Size) /\ pending[d] \in Seq(1 .. Size)
        BY <1>0 DEF TypeOK
      <4>2. pc[d] = "piping" /\ pc'[d] = "piping" /\ offset'[d] = offset[d]
        BY <1>0, <1>17, <3>2 DEF AddRead, StreamInv
      <4> DEFINE r == Len(recvd[d])
                 q == Len(pending[d])
      <4>3. /\ r \in Nat /\ q \in Nat /\ q # 0 /\ DOMAIN recvd[d] = 1 .. r /\ DOMAIN pending[d] = 1 .. q
            /\ Head(pending[d]) = pending[d][1] /\ Head(pending[d]) \in 1 .. Size /\ Tail(pending[d]) \in Seq(1 .. Size)
            /\ Len(Tail(pending[d])) = q - 1 /\ (\A i \in 1 .. q - 1 : Tail(pending[d])[i] = pending[d][i + 1])
        <5>1. r \in Nat /\ DOMAIN recvd[d] = 1 .. r
          BY <4>1, SeqFacts
        <5>2. q \in Nat /\ DOMAIN pending[d] = 1 .. q /\ (pending[d] = <<>> <=> q = 0)
          BY <4>1, SeqFacts
        <5>3. /\ Head(pending[d]) = pending[d][1] /\ Head(pending[d]) \in 1 .. Size
              /\ Tail(pending[d]) \in Seq(1 .. Size) /\ Len(Tail(pending[d])) = Len(pending[d]) - 1
              /\ \A i \in 1 .. Len(pending[d]) - 1 : Tail(pending[d])[i] = pending[d][i + 1]
          BY <3>2, <4>1, SeqFacts
        <5> QED BY <3>2, <5>1, <5>2, <5>3
      <4>4. /\ offset[d] <= Size /\ r + q = offset[d]
            /\ (\A i \in 1 .. r : recvd[d][i] = i) /\ (\A i \in 1 .. q : pending[d][i] = r + i)
        BY <1>0, <4>2, <4>3 DEF StreamInv
      <4>5. recvd'[d] = Append(recvd[d], Head(pending[d])) /\ pending'[d] = Tail(pending[d])
        BY <1>0, <3>2 DEF TypeOK
      <4>6. /\ Len(recvd'[d]) = r + 1 /\ DOMAIN recvd'[d] = 1 .. r + 1
            /\ recvd'[d][r + 1] = Head(pending[d]) /\ (\A i \in 1 .. r : recvd'[d][i] = recvd[d][i])
        BY <4>1, <4>3, <4>5, AppendProperties
      <4>7. DOMAIN pending'[d] = 1 .. q - 1 /\ Len(pending'[d]) = q - 1
        BY <4>3, <4>5, SeqFacts
      <4> HIDE DEF r, q
      <4>8. Head(pending[d]) = r + 1
        <5>1. 1 \in 1 .. q
          BY <4>3
        <5> QED BY <4>3, <4>4, <5>1
      <4>9. \A i \in 1 .. r + 1 : recvd'[d][i] = i
        <5> SUFFICES ASSUME NEW i \in 1 .. r + 1 PROVE recvd'[d][i] = i
          OBVIOUS
        <5>1. CASE i \in 1 .. r
          BY <4>4, <4>6, <5>1
        <5>2. CASE i = r + 1
          BY <4>6, <4>8, <5>2
        <5> QED BY <4>3, <5>1, <5>2
      <4>10. \A i \in 1 .. q - 1 : pending'[d][i] = r + 1 + i
        <5> SUFFICES ASSUME NEW i \in 1 .. q - 1 PROVE pending'[d][i] = r + 1 + i
          OBVIOUS
        <5>1. i + 1 \in 1 .. q
          BY <4>3
        <5> QED BY <4>3, <4>4, <4>5, <5>1
      <4>11. r + 1 + (q - 1) = offset[d]
        BY <4>3, <4>4
      <4> QED BY <4>2, <4>4, <4>6, <4>7, <4>9, <4>10, <4>11 DEF StreamInv
    <3> QED BY <1>17, <3>1, <3>2 DEF AddRead
  <2>4. EndInv(d)'
    BY <1>0, <1>17 DEF AddRead, AddGoto, TypeOK, EndInv, EarlyInv, StreamInv
  <2>5. HookInv(d)'
    BY <1>0, <1>17 DEF AddRead, AddGoto, TypeOK, HookInv, EarlyInv
  <2>6. FlightInv(d)'
    BY <1>0, <1>17 DEF AddRead, AddGoto, TypeOK, FlightInv, EarlyInv, HookInv, CleanInv, EndInv,
       JoinInv
  <2>7. CleanInv(d)'
    BY <1>0, <1>17 DEF AddRead, AddGoto, TypeOK, CleanInv, EarlyInv, HookInv, FlightInv, EndInv
  <2>8. AnsInv(d)'
    BY <1>0, <1>17 DEF AddRead, AddGoto, TypeOK, AnsInv, FlightInv
  <2> QED BY <2>1, <2>2, <2>3, <2>4, <2>5, <2>6, <2>7, <2>8 DEF CallerInv
<1>18. CASE AddPublish(d)
  <2>1. EarlyInv(d)'
    BY <1>0, <1>18 DEF AddPublish, AddGoto, TypeOK, EarlyInv
  <2>2. JoinInv(d)'
    BY <1>0, <1>18 DEF AddPublish, AddGoto, TypeOK, JoinInv
  <2>3. StreamInv(d)'
    BY <1>0, <1>18 DEF AddPublish, AddGoto, TypeOK, StreamInv, EarlyInv
  <2>4. EndInv(d)'
    BY <1>0, <1>18 DEF AddPublish, AddGoto, TypeOK, EndInv, EarlyInv, StreamInv
  <2>5. HookInv(d)'
    BY <1>0, <1>18 DEF AddPublish, AddGoto, TypeOK, HookInv, EarlyInv
  <2>6. FlightInv(d)'
    BY <1>0, <1>18 DEF AddPublish, AddGoto, TypeOK, FlightInv, EarlyInv, HookInv, CleanInv,
       EndInv, JoinInv
  <2>7. CleanInv(d)'
    BY <1>0, <1>18 DEF AddPublish, AddGoto, TypeOK, CleanInv, EarlyInv, HookInv, FlightInv, EndInv
  <2>8. AnsInv(d)'
    BY <1>0, <1>18 DEF AddPublish, AddGoto, TypeOK, AnsInv, FlightInv
  <2> QED BY <2>1, <2>2, <2>3, <2>4, <2>5, <2>6, <2>7, <2>8 DEF CallerInv
<1>19. CASE AddEnd(d)
  <2>1. EarlyInv(d)'
    BY <1>0, <1>19 DEF AddEnd, AddGoto, TypeOK, EarlyInv
  <2>2. JoinInv(d)'
    BY <1>0, <1>19 DEF AddEnd, AddGoto, TypeOK, JoinInv
  <2>3. StreamInv(d)'
    BY <1>0, <1>19 DEF AddEnd, AddGoto, TypeOK, StreamInv, EarlyInv
  <2>4. EndInv(d)'
    BY <1>0, <1>19 DEF AddEnd, AddGoto, TypeOK, EndInv, EarlyInv, StreamInv
  <2>5. HookInv(d)'
    BY <1>0, <1>19 DEF AddEnd, AddGoto, TypeOK, HookInv, EarlyInv
  <2>6. FlightInv(d)'
    BY <1>0, <1>19 DEF AddEnd, AddGoto, TypeOK, FlightInv, EarlyInv, HookInv, CleanInv, EndInv,
       JoinInv
  <2>7. CleanInv(d)'
    BY <1>0, <1>19 DEF AddEnd, AddGoto, TypeOK, CleanInv, EarlyInv, HookInv, FlightInv, EndInv
  <2>8. AnsInv(d)'
    BY <1>0, <1>19 DEF AddEnd, AddGoto, TypeOK, AnsInv, FlightInv
  <2> QED BY <2>1, <2>2, <2>3, <2>4, <2>5, <2>6, <2>7, <2>8 DEF CallerInv
<1>20. CASE AddFinish(d)
  <2>1. EarlyInv(d)'
    BY <1>0, <1>20, <1>f, <1>h DEF AddFinish, AddGoto, TypeOK, EarlyInv, Hook
  <2>2. JoinInv(d)'
    BY <1>0, <1>20, <1>f, <1>h DEF AddFinish, AddGoto, TypeOK, JoinInv
  <2>3. StreamInv(d)'
    BY <1>0, <1>20, <1>f, <1>h DEF AddFinish, AddGoto, TypeOK, StreamInv, EarlyInv
  <2>4. EndInv(d)'
    BY <1>0, <1>20, <1>f, <1>h DEF AddFinish, AddGoto, TypeOK, EndInv, EarlyInv, StreamInv
  <2>5. HookInv(d)'
    BY <1>0, <1>20, <1>f, <1>h DEF AddFinish, AddGoto, TypeOK, HookInv, EarlyInv, Hook
  <2>6. FlightInv(d)'
    BY <1>0, <1>20, <1>f, <1>h DEF AddFinish, AddGoto, TypeOK, FlightInv, EarlyInv, HookInv,
       CleanInv, EndInv, JoinInv
  <2>7. CleanInv(d)'
    BY <1>0, <1>20, <1>f, <1>h DEF AddFinish, AddGoto, TypeOK, CleanInv, EarlyInv, HookInv,
       FlightInv, EndInv, Hook
  <2>8. AnsInv(d)'
    BY <1>0, <1>20, <1>f, <1>h DEF AddFinish, AddGoto, TypeOK, AnsInv, FlightInv
  <2> QED BY <2>1, <2>2, <2>3, <2>4, <2>5, <2>6, <2>7, <2>8 DEF CallerInv
<1>21. CASE TimerFires(d)
  <2>1. EarlyInv(d)'
    BY <1>0, <1>21 DEF TimerFires, TypeOK, EarlyInv
  <2>2. JoinInv(d)'
    BY <1>0, <1>21 DEF TimerFires, TypeOK, JoinInv
  <2>3. StreamInv(d)'
    BY <1>0, <1>21 DEF TimerFires, TypeOK, StreamInv, EarlyInv
  <2>4. EndInv(d)'
    BY <1>0, <1>21 DEF TimerFires, TypeOK, EndInv, EarlyInv, StreamInv
  <2>5. HookInv(d)'
    BY <1>0, <1>21 DEF TimerFires, TypeOK, HookInv, EarlyInv
  <2>6. FlightInv(d)'
    BY <1>0, <1>21 DEF TimerFires, TypeOK, FlightInv, EarlyInv, HookInv, CleanInv, EndInv, JoinInv
  <2>7. CleanInv(d)'
    BY <1>0, <1>21 DEF TimerFires, TypeOK, CleanInv, EarlyInv, HookInv, FlightInv, EndInv
  <2>8. AnsInv(d)'
    BY <1>0, <1>21 DEF TimerFires, TypeOK, AnsInv, FlightInv
  <2> QED BY <2>1, <2>2, <2>3, <2>4, <2>5, <2>6, <2>7, <2>8 DEF CallerInv
<1>22. CASE Cancel(d)
  <2>1. EarlyInv(d)'
    BY <1>0, <1>22 DEF Cancel, TypeOK, EarlyInv
  <2>2. JoinInv(d)'
    BY <1>0, <1>22 DEF Cancel, TypeOK, JoinInv
  <2>3. StreamInv(d)'
    BY <1>0, <1>22 DEF Cancel, TypeOK, StreamInv, EarlyInv
  <2>4. EndInv(d)'
    BY <1>0, <1>22 DEF Cancel, TypeOK, EndInv, EarlyInv, StreamInv
  <2>5. HookInv(d)'
    BY <1>0, <1>22 DEF Cancel, TypeOK, HookInv, EarlyInv
  <2>6. FlightInv(d)'
    BY <1>0, <1>22 DEF Cancel, TypeOK, FlightInv, EarlyInv, HookInv, CleanInv, EndInv, JoinInv
  <2>7. CleanInv(d)'
    BY <1>0, <1>22 DEF Cancel, TypeOK, CleanInv, EarlyInv, HookInv, FlightInv, EndInv
  <2>8. AnsInv(d)'
    BY <1>0, <1>22 DEF Cancel, TypeOK, AnsInv, FlightInv
  <2> QED BY <2>1, <2>2, <2>3, <2>4, <2>5, <2>6, <2>7, <2>8 DEF CallerInv
<1>23. CASE FlightCanceled(d)
  <2>1. EarlyInv(d)'
    BY <1>0, <1>23, <1>f DEF FlightCanceled, TypeOK, EarlyInv
  <2>2. JoinInv(d)'
    BY <1>0, <1>23, <1>f DEF FlightCanceled, TypeOK, JoinInv
  <2>3. StreamInv(d)'
    BY <1>0, <1>23, <1>f DEF FlightCanceled, TypeOK, StreamInv, EarlyInv
  <2>4. EndInv(d)'
    BY <1>0, <1>23, <1>f DEF FlightCanceled, TypeOK, EndInv, EarlyInv, StreamInv
  <2>5. HookInv(d)'
    BY <1>0, <1>23, <1>f DEF FlightCanceled, TypeOK, HookInv, EarlyInv
  <2>6. FlightInv(d)'
    BY <1>0, <1>23, <1>f DEF FlightCanceled, TypeOK, FlightInv, EarlyInv, HookInv, CleanInv,
       EndInv, JoinInv
  <2>7. CleanInv(d)'
    BY <1>0, <1>23, <1>f DEF FlightCanceled, TypeOK, CleanInv, EarlyInv, HookInv, FlightInv, EndInv
  <2>8. AnsInv(d)'
    BY <1>0, <1>23, <1>f DEF FlightCanceled, TypeOK, AnsInv, FlightInv
  <2> QED BY <2>1, <2>2, <2>3, <2>4, <2>5, <2>6, <2>7, <2>8 DEF CallerInv
<1>24. CASE SourceCanceled(d)
  <2>1. EarlyInv(d)'
    BY <1>0, <1>24, <1>a DEF SourceCanceled, CloseTap, TypeOK, EarlyInv
  <2>2. JoinInv(d)'
    BY <1>0, <1>24, <1>a DEF SourceCanceled, CloseTap, TypeOK, JoinInv
  <2>3. StreamInv(d)'
    BY <1>0, <1>24, <1>a DEF SourceCanceled, CloseTap, TypeOK, StreamInv, EarlyInv
  <2>4. EndInv(d)'
    BY <1>0, <1>24, <1>a DEF SourceCanceled, CloseTap, TypeOK, EndInv, EarlyInv, StreamInv
  <2>5. HookInv(d)'
    BY <1>0, <1>24, <1>a DEF SourceCanceled, CloseTap, TypeOK, HookInv, EarlyInv
  <2>6. FlightInv(d)'
    BY <1>0, <1>24, <1>a DEF SourceCanceled, CloseTap, TypeOK, FlightInv, EarlyInv, HookInv,
       CleanInv, EndInv, JoinInv
  <2>7. CleanInv(d)'
    BY <1>0, <1>24, <1>a DEF SourceCanceled, CloseTap, TypeOK, CleanInv, EarlyInv, HookInv,
       FlightInv, EndInv
  <2>8. AnsInv(d)'
    BY <1>0, <1>24, <1>a DEF SourceCanceled, CloseTap, TypeOK, AnsInv, FlightInv
  <2> QED BY <2>1, <2>2, <2>3, <2>4, <2>5, <2>6, <2>7, <2>8 DEF CallerInv
<1> QED BY <1>1, <1>2, <1>3, <1>4, <1>5, <1>6, <1>7, <1>8, <1>9, <1>10, <1>11, <1>12, <1>13,
           <1>14, <1>15, <1>16, <1>17, <1>18, <1>19, <1>20, <1>21, <1>22, <1>23, <1>24 DEF Step,
           Opening, Tapping, Adding, Hooks

\* A step keeps the invariant.
LEMMA NextTap == TapInv /\ [Next]_vars => TapInv'
<1> SUFFICES ASSUME TapInv, [Next]_vars PROVE TapInv'
  OBVIOUS
<1>1. TypeOK'
  BY NextType
<1>2. CASE UNCHANGED vars \/ Finished
  <2>1. UNCHANGED vars
    BY <1>2 DEF Finished
  <2>2. \A c \in Caller : Same(c)
    BY <2>1 DEF vars, flightVars, callVars, hookVars, tapVars, pipeVars, addVars, fillVars, Same
  <2>3. \A c \in Caller : CallerInv(c)
    BY DEF TapInv
  <2> QED BY <1>1, <2>2, <2>3, SameInv DEF TapInv
<1>3. ASSUME NEW d \in Caller, Step(d)
      PROVE  TapInv'
  <2>1. CallerInv(d)'
    BY <1>1, <1>3, NextCaller
  <2>2. \A c \in Caller \ {d} : Same(c) /\ CallerInv(c)
    BY <1>3, NextFrame DEF TapInv
  <2>3. \A c \in Caller \ {d} : CallerInv(c)'
    BY <2>2, SameInv
  <2> QED BY <1>1, <2>1, <2>3 DEF TapInv
<1> QED BY <1>2, <1>3 DEF Next, Step

\* The inductive invariant: what each caller, its tap and its goroutine agree on.
THEOREM TapInvariant == Spec => []TapInv
  BY InitTap, NextTap, PTL DEF Spec

\* The variables keep their types; forwarded never passes the size, whatever the
\* source returns and however the caller seeks.
THEOREM TypeCorrect == Spec => []TypeOK
<1>1. TapInv => TypeOK
  BY DEF TapInv
<1> QED BY <1>1, TapInvariant, PTL

\* For every size and any number of callers the cache is sent the blob in order and
\* each byte once, and io.EOF only after the last.
THEOREM StreamWholeCorrect == Spec => []StreamWhole
<1>1. TapInv => StreamWhole
  BY DEF TapInv, CallerInv, StreamInv, EndInv, StreamWhole
<1> QED BY <1>1, TapInvariant, PTL

\* For any number of callers: after a clean end of the stream the waiters are released
\* by the end of Primary.Add alone, and no caller is told of a cancellation that is
\* not its own.
THEOREM WaitersServedCorrect == Spec => []WaitersServed
<1>1. TapInv => WaitersServed
  BY DEF TapInv, CallerInv, CleanInv, AnsInv, WaitersServed, WaitersWait, CanceledOnlySelf
<1> QED BY <1>1, TapInvariant, PTL
=============================================================================
