-------------------------- MODULE RoarStreamProofs --------------------------
(***************************************************************************)
(* Proofs about RoarStream, for every size of buffer and chunk and every   *)
(* number of threads.                                                      *)
(***************************************************************************)
EXTENDS RoarStream, TLAPS

LEMMA Zero == 0 \in SizeTs /\ 0 \in 0 .. BufSize /\ 0 \in 0 .. Chunk
  BY SizesAssumption DEF SizeTs

(* What is stored in a size_t is one, whatever was computed.               *)
LEMMA SizeTType == ASSUME NEW n \in Int PROVE SizeT(n) \in SizeTs
  BY SizesAssumption DEF SizeT, SizeTs

(* What the cast to ssize_t gives is an integer, and so are its frames.    *)
LEMMA SignedInt == ASSUME NEW n \in SizeTs PROVE Signed(n) \in Int
  BY SizesAssumption DEF Signed, SizeTs

LEMMA EnvType == ASSUME env \in Envs PROVE env.frame \in Nat \ {0} /\ env.frame \in Int
  BY EnvsAssumption

LEMMA ProductInt == ASSUME NEW a \in Int, NEW b \in Int PROVE a * b \in Int
  OBVIOUS

LEMMA FramesInt ==
  ASSUME env \in Envs, NEW n \in Int PROVE Frames(n) \in Int /\ (n \in Nat => Frames(n) \in Nat)
<1> DEFINE f == env.frame
<1>1. f \in Nat \ {0}
  BY EnvType
<1> HIDE DEF f
<1>2. \A m \in Nat : m \div f \in Nat
  BY <1>1
<1>3. Frames(n) = IF n < 0 THEN -((-n) \div f) ELSE n \div f
  BY DEF Frames, f
<1>4. CASE n < 0
  <2>1. -n \in Nat
    BY <1>4
  <2>2. (-n) \div f \in Nat
    BY <1>2, <2>1
  <2>3. QED
    BY <1>3, <1>4, <2>2
<1>5. CASE ~(n < 0)
  BY <1>2, <1>3, <1>5
<1>6. QED
  BY <1>4, <1>5

(* Moving a program counter keeps the types.                               *)
LEMMA AppGotoType ==
  ASSUME call \in CallType, NEW q \in AppPcs, AppGoto(q) PROVE call' \in CallType
  BY DEF AppGoto, CallType

LEMMA ThrGotoType ==
  ASSUME thr \in [Threads -> ThrType], NEW t \in Threads, NEW q \in ThreadPcs, ThrGoto(t, q)
  PROVE  thr' \in [Threads -> ThrType]
  BY DEF ThrGoto, ThrType

LEMMA RetType == ASSUME call \in CallType PROVE call.ret \in AppPcs
  BY DEF CallType, AppPcs

(* roar_reset keeps the types, whichever thread runs it.                   *)
LEMMA ResetType ==
  ASSUME self \in SelfType, vio \in BOOLEAN, NEW p, NEW q, Reset(p, q)
  PROVE  self' \in SelfType /\ vio' \in BOOLEAN
<1>1. [self EXCEPT !.opened = FALSE] \in SelfType /\ ResetActive \in SelfType
  BY DEF SelfType, ResetActive
<1>2. [self EXCEPT !.bufptr = 0] \in SelfType /\ ResetRest \in SelfType
  BY Zero DEF SelfType, ResetRest
<1>3. QED
  BY <1>1, <1>2 DEF Reset

(* The end of a transfer keeps the types.                                  *)
LEMMA TransferType ==
  ASSUME call \in CallType, io \in IoType, accepted \in Nat, env \in Envs, TransferReturns
  PROVE  call' \in CallType /\ io' \in IoType /\ accepted' \in Nat
<1>1. call.size \in Nat /\ Frames(call.size) \in Nat
  BY SizesAssumption, FramesInt DEF CallType
<1>2. call' \in CallType
  BY Zero DEF TransferReturns, CallType, AppPcs
<1>3. io' \in IoType
  BY <1>1 DEF TransferReturns, IoType
<1>4. QED
  BY <1>1, <1>2, <1>3 DEF TransferReturns

(* Type correctness, in every environment: whatever fails, bufptr and the  *)
(* values loaded from it stay in the range of a size_t.                    *)
THEOREM TypeCorrect == Spec => []TypeOK
<1>1. Init => TypeOK
  <2> SUFFICES ASSUME Init PROVE TypeOK
    OBVIOUS
  <2>1. self \in SelfType /\ io \in IoType
    BY Zero DEF Init, SelfType, IoType
  <2>2. call \in CallType
    BY Zero DEF Init, CallType, AppPcs
  <2>3. thr \in [Threads -> ThrType]
    BY Zero DEF Init, ThrType, ThreadPcs
  <2>4. buffer \in [0 .. BufSize - 1 -> Int] /\ server \in Seq(Int)
    BY DEF Init
  <2>5. QED
    BY <2>1, <2>2, <2>3, <2>4 DEF Init, TypeOK
<1>2. TypeOK /\ [Next]_vars => TypeOK'
  <2> SUFFICES ASSUME TypeOK, [Next]_vars PROVE TypeOK'
    OBVIOUS
  <2> USE DEF TypeOK, counts
  <2>a. \A q \in AppPcs : AppGoto(q) => call' \in CallType
    BY AppGotoType
  <2>t. \A t \in Threads, q \in ThreadPcs : ThrGoto(t, q) => thr' \in [Threads -> ThrType]
    BY ThrGotoType
  <2>1. CASE HwParams
    BY <2>1, <2>a DEF HwParams, IoType, AppPcs
  <2>h. CASE HwBufptr
    BY <2>h, <2>a, Zero DEF HwBufptr, SelfType, AppPcs
  <2>2. CASE Prepare
    BY <2>2 DEF Prepare, IoType, CallType, AppPcs
  <2>3. CASE Start
    BY <2>3 DEF Start, IoType, CallType, AppPcs
  <2>4. CASE Drop
    BY <2>4 DEF Drop, IoType, CallType, AppPcs
  <2>5. CASE Write
    <3>1. PICK n \in 1 .. BufSize : call' = [call EXCEPT !.pc = "pointer", !.size = n]
      BY <2>5 DEF Write
    <3>2. n \in 0 .. BufSize /\ "pointer" \in AppPcs
      BY <3>1, SizesAssumption DEF AppPcs
    <3>3. call' \in CallType
      BY <3>1, <3>2 DEF CallType
    <3>4. QED
      BY <2>5, <3>3 DEF Write
  <2>6. CASE Delay
    <3>1. self.total \in Nat /\ self.bufptr \in Nat
      BY SizesAssumption DEF SelfType, SizeTs
    <3>2. delay' \in Nat
      BY <2>6, <3>1 DEF Delay
    <3>3. QED
      BY <2>6, <3>2 DEF Delay
  <2>7. CASE Close
    BY <2>7 DEF Close, IoType
  <2>8. CASE StartIgnored
    BY <2>8, <2>a, RetType DEF StartIgnored, AppPcs
  <2>9. CASE StartRefused
    BY <2>9, <2>a, RetType DEF StartRefused, IoType, AppPcs
  <2>10. CASE StartNewStream
    BY <2>10, <2>a, RetType DEF StartNewStream, AppPcs
  <2>11. CASE StartStore
    BY <2>11, <2>a, RetType, Zero DEF StartStore, SelfType, AppPcs
  <2>12. CASE StartThread
    BY <2>12, <2>a, RetType, <2>t DEF StartThread, SelfType, AppPcs, ThreadPcs
  <2>13. CASE StartThreadFails
    BY <2>13, <2>a, RetType DEF StartThreadFails, SelfType, AppPcs
  <2>14. CASE StopTest
    <3>1. PICK q \in {"stop_clear", "reset"} : AppGoto(q)
      BY <2>14 DEF StopTest
    <3>2. call' \in CallType
      BY <3>1, <2>a DEF AppPcs, ResetPcs
    <3>3. QED
      BY <2>14, <3>2 DEF StopTest
  <2>15. CASE StopClear
    BY <2>15, <2>a, RetType DEF StopClear, SelfType, AppPcs
  <2>16. CASE StopSignal
    BY <2>16, <2>a, RetType DEF StopSignal, Signal, AppPcs
  <2>17. CASE StopJoin
    <3>1. call' \in CallType
      BY <2>17, <2>a DEF StopJoin, AppPcs, ResetPcs
    <3>2. QED
      BY <2>17, <3>1 DEF StopJoin
  <2>18. CASE StopReset
    <3>1. PICK q \in ResetPcs \cup {"reset_done"} : Reset(call.pc, q) /\ AppGoto(q)
      BY <2>18 DEF StopReset
    <3>2. self' \in SelfType /\ vio' \in BOOLEAN
      BY <3>1, ResetType
    <3>3. call' \in CallType
      BY <3>1, AppGotoType DEF AppPcs
    <3>4. QED
      BY <2>18, <3>2, <3>3 DEF StopReset
  <2>19. CASE StopReturn
    BY <2>19, <2>a, RetType DEF StopReturn, AppPcs
  <2>20. CASE Pointer
    BY <2>20 DEF Pointer, CallType, AppPcs, AppGoto
  <2>21. CASE PointerLocked
    <3> DEFINE b == Frames(Signed(self.bufptr))
               avail == IF env.gate THEN BufSize - env.frame * b ELSE BufSize
               n == IF call.size <= avail THEN call.size ELSE avail
               m == IF n > 0 THEN n ELSE 0
    <3>1. b \in Int /\ env.frame * b \in Int
      <4>1. Signed(self.bufptr) \in Int
        BY SignedInt DEF SelfType
      <4>2. b \in Int /\ env.frame \in Int
        BY <4>1, FramesInt, EnvType
      <4> HIDE DEF b
      <4>3. QED
        BY <4>2
    <3>2. m \in 0 .. BufSize
      BY <3>1, SizesAssumption DEF CallType
    <3>3. self' \in SelfType
      BY <2>21 DEF PointerLocked, SelfType, IoType, Remembered
    <3>4. io' \in IoType
      BY <2>21 DEF PointerLocked, IoType
    <3>5. \/ call' = [call EXCEPT !.pc = "idle", !.ret = "idle", !.size = 0]
          \/ call' = [call EXCEPT !.pc = IF n > 0 THEN "write" ELSE "idle", !.ret = "idle", !.size = m]
      BY <2>21 DEF PointerLocked
    <3> HIDE DEF m, n
    <3>6. call' \in CallType
      BY <3>2, <3>5, Zero DEF CallType, AppPcs
    <3>7. QED
      BY <2>21, <3>3, <3>4, <3>6 DEF PointerLocked
  <2>22. CASE WriteTest
    <3>1. CASE TransferReturns
      BY <2>22, <3>1, TransferType DEF WriteTest
    <3>2. CASE AppGoto("write_room") /\ UNCHANGED <<io, accepted>>
      BY <2>22, <3>2, <2>a DEF WriteTest, AppPcs
    <3>3. QED
      BY <2>22, <3>1, <3>2 DEF WriteTest
  <2>23. CASE WriteRoom
    BY <2>23, <2>a, RetType DEF WriteRoom, AppPcs
  <2>24. CASE WriteFull
    BY <2>24, <2>a, RetType DEF WriteFull, Signal, AppPcs
  <2>25. CASE WriteWait
    BY <2>25, <2>a, RetType DEF WriteWait, AppPcs
  <2>26. CASE WriteAwake
    BY <2>26, <2>a, RetType DEF WriteAwake, AppPcs
  <2>27. CASE WriteCopy
    <3>1. buffer' \in [0 .. BufSize - 1 -> Int]
      BY <2>27, SizesAssumption DEF WriteCopy, SelfType, SizeTs
    <3>2. call' \in CallType
      BY <2>27, <2>a DEF WriteCopy, AppPcs
    <3>3. QED
      BY <2>27, <3>1, <3>2 DEF WriteCopy
  <2>28. CASE WriteLoad
    BY <2>28 DEF WriteLoad, CallType, SelfType, AppPcs
  <2>29. CASE WriteStore
    <3>1. call.size \in Nat /\ call.loaded \in Nat
      BY SizesAssumption DEF CallType, SizeTs
    <3>2. SizeT(call.loaded + call.size) \in SizeTs
      BY <3>1, SizeTType
    <3>3. self' \in SelfType
      BY <2>29, <3>2 DEF WriteStore, SelfType
    <3>4. call' \in CallType
      BY <2>29, <2>a DEF WriteStore, AppPcs
    <3>5. QED
      BY <2>29, <3>1, <3>3, <3>4 DEF WriteStore
  <2>30. CASE WriteSignal
    <3>1. asleep' \subseteq {App} \cup Threads
      BY <2>30 DEF WriteSignal, Signal
    <3>2. QED
      BY <2>30, <3>1, TransferType DEF WriteSignal
  <2>31. CASE Spurious
    BY <2>31 DEF Spurious
  <2>32. ASSUME NEW t \in Threads, ThreadTest(t) PROVE TypeOK'
    BY <2>32, <2>t DEF ThreadTest, ThreadPcs
  <2>33. ASSUME NEW t \in Threads, ThreadCheck(t) PROVE TypeOK'
    BY <2>33, <2>t DEF ThreadCheck, ThreadPcs
  <2>34. ASSUME NEW t \in Threads, ThreadWrite(t) PROVE TypeOK'
    <3>1. CASE ThrGoto(t, "cancel") /\ UNCHANGED server
      BY <2>34, <3>1, <2>t DEF ThreadWrite, ThreadPcs
    <3>2. ASSUME NEW n \in 1 .. Chunk,
                 thr' = [thr EXCEPT ![t].rc = n, ![t].pc = "mark"],
                 server' = server \o [i \in 1 .. n |-> buffer[i - 1]]
          PROVE  TypeOK'
      <4>. n \in 0 .. Chunk /\ "mark" \in ThreadPcs
        BY SizesAssumption DEF ThreadPcs
      <4>1. thr' \in [Threads -> ThrType]
        BY <3>2 DEF ThrType
      <4>2. [i \in 1 .. n |-> buffer[i - 1]] \in Seq(Int)
        BY SizesAssumption
      <4>3. server' \in Seq(Int)
        BY <3>2, <4>2
      <4>4. QED
        BY <2>34, <4>1, <4>3 DEF ThreadWrite
    <3>3. QED
      BY <2>34, <3>1, <3>2 DEF ThreadWrite
  <2>35. ASSUME NEW t \in Threads, ThreadMark(t) PROVE TypeOK'
    BY <2>35, <2>t DEF ThreadMark, SelfType, ThreadPcs
  <2>36. ASSUME NEW t \in Threads, ThreadTotal(t) PROVE TypeOK'
    <3>1. thr[t].rc \in Nat
      BY SizesAssumption DEF ThrType
    <3>2. self' \in SelfType
      BY <2>36, <3>1 DEF ThreadTotal, SelfType
    <3>3. QED
      BY <2>36, <3>2, <2>t DEF ThreadTotal, ThreadPcs
  <2>37. ASSUME NEW t \in Threads, ThreadMove(t) PROVE TypeOK'
    <3>1. thr[t].rc \in Nat
      BY SizesAssumption DEF ThrType
    <3>2. buffer' \in [0 .. BufSize - 1 -> Int]
      BY <2>37, <3>1, SizesAssumption DEF ThreadMove, Consumed
    <3>3. QED
      BY <2>37, <3>2, <2>t DEF ThreadMove, ThreadPcs
  <2>38. ASSUME NEW t \in Threads, ThreadLoad(t) PROVE TypeOK'
    <3>. self.bufptr \in SizeTs /\ "store" \in ThreadPcs
      BY DEF SelfType, ThreadPcs
    <3>1. thr' \in [Threads -> ThrType]
      BY <2>38 DEF ThreadLoad, ThrType
    <3>2. QED
      BY <2>38, <3>1 DEF ThreadLoad
  <2>39. ASSUME NEW t \in Threads, ThreadStore(t) PROVE TypeOK'
    <3>1. thr[t].rc \in Int /\ thr[t].loaded \in Int
      BY SizesAssumption DEF ThrType, SizeTs
    <3>2. SizeT(thr[t].loaded - thr[t].rc) \in SizeTs
      BY <3>1, SizeTType
    <3>3. self' \in SelfType
      BY <2>39, <3>2 DEF ThreadStore, SelfType
    <3>4. thr' \in [Threads -> ThrType]
      BY <2>39, ThrGotoType DEF ThreadStore, ThreadPcs, ThrGoto
    <3>5. QED
      BY <2>39, <3>3, <3>4 DEF ThreadStore
  <2>40. ASSUME NEW t \in Threads, ThreadSignal(t) PROVE TypeOK'
    BY <2>40, <2>t DEF ThreadSignal, Signal, ThreadPcs
  <2>41. ASSUME NEW t \in Threads, ThreadWait(t) PROVE TypeOK'
    BY <2>41, <2>t DEF ThreadWait, ThreadPcs
  <2>42. ASSUME NEW t \in Threads, ThreadAwake(t) PROVE TypeOK'
    BY <2>42, <2>t DEF ThreadAwake, ThreadPcs
  <2>43. ASSUME NEW t \in Threads, ThreadCancelTest(t) PROVE TypeOK'
    <3>1. PICK q \in {"reset", "quit"} : ThrGoto(t, q)
      BY <2>43 DEF ThreadCancelTest
    <3>2. thr' \in [Threads -> ThrType]
      BY <3>1, <2>t DEF ThreadPcs, ResetPcs
    <3>3. QED
      BY <2>43, <3>2 DEF ThreadCancelTest
  <2>44. ASSUME NEW t \in Threads, ThreadReset(t) PROVE TypeOK'
    <3>1. PICK q \in ResetPcs \cup {"reset_done"} : Reset(thr[t].pc, q) /\ ThrGoto(t, q)
      BY <2>44 DEF ThreadReset
    <3>2. self' \in SelfType /\ vio' \in BOOLEAN
      BY <3>1, ResetType
    <3>3. thr' \in [Threads -> ThrType]
      BY <3>1, ThrGotoType DEF ThreadPcs
    <3>4. QED
      BY <2>44, <3>2, <3>3 DEF ThreadReset
  <2>45. ASSUME NEW t \in Threads, ThreadFailSignal(t) PROVE TypeOK'
    BY <2>45, <2>t DEF ThreadFailSignal, Signal, ThreadPcs
  <2>46. ASSUME NEW t \in Threads, ThreadDetach(t) PROVE TypeOK'
    BY <2>46 DEF ThreadDetach, ThrType, ThreadPcs
  <2>47. CASE UNCHANGED vars
    BY <2>47 DEF vars
  <2>48. QED
    BY <2>h, <2>1, <2>2, <2>3, <2>4, <2>5, <2>6, <2>7, <2>8, <2>9, <2>10, <2>11,
       <2>12, <2>13, <2>14, <2>15, <2>16, <2>17, <2>18, <2>19, <2>20, <2>21,
       <2>22, <2>23, <2>24, <2>25, <2>26, <2>27, <2>28, <2>29, <2>30, <2>31,
       <2>32, <2>33, <2>34, <2>35, <2>36, <2>37, <2>38, <2>39, <2>40, <2>41,
       <2>42, <2>43, <2>44, <2>45, <2>46, <2>47
    DEF Next, AppCall, AppStep, ThreadStep
<1>3. QED
  BY <1>1, <1>2, PTL DEF Spec

-----------------------------------------------------------------------------
(* Arithmetic of size_t: what fits is stored as it is.                      *)
LEMMA SizeTIdentity == ASSUME NEW n \in SizeTs PROVE SizeT(n) = n
  BY SizesAssumption DEF SizeT, SizeTs

(* The sum of two sizes within the buffer fits in a size_t.                *)
LEMMA SumFits ==
  ASSUME NEW a \in Nat, NEW b \in Nat, a <= BufSize, b <= BufSize PROVE a + b \in SizeTs
  BY SizesAssumption DEF SizeTs

(* So does a difference that is not negative.                              *)
LEMMA DifferenceFits ==
  ASSUME NEW a \in SizeTs, NEW b \in Nat, b <= a PROVE a - b \in SizeTs
  BY SizesAssumption DEF SizeTs

(* The lock tells the application's thread, the others and nobody apart.   *)
LEMMA Nobody == App \notin Threads /\ Free \notin Threads /\ Free # App
  BY DEF App, Free, Threads

(* roar_reset leaves bufptr alone or clears it.                            *)
LEMMA ResetBufptr ==
  ASSUME self \in SelfType, NEW p, NEW q, Reset(p, q)
  PROVE  self'.bufptr \in {0, self.bufptr}
<1>1. [self EXCEPT !.opened = FALSE].bufptr = self.bufptr /\ ResetActive.bufptr = self.bufptr
  BY DEF SelfType, ResetActive
<1>2. [self EXCEPT !.bufptr = 0].bufptr = 0 /\ ResetRest.bufptr = self.bufptr
  BY DEF SelfType, ResetRest
<1>3. QED
  BY <1>1, <1>2 DEF Reset

(* The conjuncts of IInv, without the condition on the environment.        *)
AllInv ==
  /\ \A t \in Threads : ThreadInv(t)
  /\ QuietStart /\ Stopped /\ AppLocking /\ Fitting

(* A step of the one live thread that takes or gives back the lock and     *)
(* leaves the stream open disturbs neither the other threads, which are    *)
(* not alive, nor the application's.                                       *)
LEMMA ThreadKeeps ==
  ASSUME TypeOK, TypeOK', AllInv, NEW t \in Threads, Live(t), ThreadInv(t)',
         \A u \in Threads \ {t} : thr'[u] = thr[u],
         UNCHANGED <<io, call, vio, env>>,
         self'.opened = self.opened, self'.active = self.active, self'.thread = self.thread,
         \/ self'.bufptr = self.bufptr
         \/ lock = t /\ (~env.rehw => self'.bufptr <= self.bufptr),
         lock' = lock \/ {lock, lock'} = {t, Free}
  PROVE  AllInv'
<1>1. \A u \in Threads \ {t} : ThreadInv(u)'
  <2> SUFFICES ASSUME NEW u \in Threads \ {t} PROVE ThreadInv(u)'
    OBVIOUS
  <2>1. ThreadInv(u) /\ ThreadInv(t)
    BY DEF AllInv
  <2>2. ~Live(u)
    BY <2>1 DEF ThreadInv
  <2>3. lock' # u
    BY <2>1, <2>2, Nobody DEF ThreadInv, Live
  <2>4. QED
    BY <2>1, <2>2, <2>3 DEF ThreadInv, Live, Unstored
<1>2. QuietStart' /\ Stopped'
  <2>1. call.pc \notin QuietPcs /\ (io.state \in {"open", "setup", "closed"} => call.pc # "idle")
    BY DEF AllInv, QuietStart, Stopped, ResetPcs
  <2>2. QED
    BY <2>1 DEF AllInv, QuietStart, Stopped, StartPcs, QuietPcs
<1>3. AppLocking' /\ Fitting'
  <2>1. self.bufptr \in Nat /\ self'.bufptr \in Nat /\ call.size \in Nat
    BY SizesAssumption DEF TypeOK, SelfType, CallType, SizeTs
  <2>2. AppLocking'
    BY Nobody DEF AllInv, AppLocking
  <2>3. Fitting'
    BY <2>1, SizesAssumption DEF AllInv, Fitting
  <2>4. QED
    BY <2>2, <2>3
<1>4. QED
  BY <1>1, <1>2, <1>3 DEF AllInv

(* In this step roar_vio_write does not fail.                              *)
Unfailing == ~env.vioFails \/ \A t \in Threads : thr'[t].pc # "cancel"

LEMMA FailsAtCancel ==
  ASSUME TypeOK, Unfailing, NEW t \in Threads PROVE ~(env.vioFails /\ ThrGoto(t, "cancel"))
  BY DEF Unfailing, ThrGoto, TypeOK, ThrType

(* A start the server refuses leaves the stream to alsa-lib as stopped.    *)
LEMMA RefusedIsStopped ==
  ASSUME TypeOK, AllInv, StartRefused PROVE Stopped'
<1>1. /\ call.pc = "start" /\ call'.pc = call.ret /\ call'.ret = call.ret /\ thr' = thr
      /\ ~self.opened
  BY DEF StartRefused, AppGoto, TypeOK, CallType
<1>2. io.state \notin {"open", "setup", "closed"}
  BY <1>1 DEF AllInv, Stopped, ResetPcs
<1>3. io'.state = io.state \/ (io'.state = "setup" /\ call.ret = "idle")
  BY DEF StartRefused, TypeOK, IoType
<1>4. \A t \in Threads : ~Live(t)
  BY <1>1 DEF AllInv, ThreadInv
<1>5. QED
  BY <1>1, <1>2, <1>3, <1>4 DEF Stopped, Live

(* The environment of a behaviour is fixed.                                *)
LEMMA EnvFixed == [Next]_vars => UNCHANGED env
<1> SUFFICES ASSUME [Next]_vars PROVE UNCHANGED env
  OBVIOUS
<1> USE DEF counts
<1>1. CASE AppCall
  BY <1>1 DEF AppCall, HwParams, Prepare, Start, Drop, Write, Delay, Close
<1>2. CASE AppStep
  BY <1>2 DEF AppStep, HwBufptr, StartIgnored, StartRefused, StartNewStream, StartStore, StartThread,
     StartThreadFails, StopTest, StopClear, StopSignal, StopJoin, StopReset, StopReturn,
     Pointer, PointerLocked, WriteTest, WriteRoom, WriteFull, WriteWait, WriteAwake,
     WriteCopy, WriteLoad, WriteStore, WriteSignal, TransferReturns
<1>3. CASE Spurious
  BY <1>3 DEF Spurious
<1>4. ASSUME NEW t \in Threads, ThreadStep(t) PROVE UNCHANGED env
  BY <1>4 DEF ThreadStep, ThreadTest, ThreadCheck, ThreadWrite, ThreadMark, ThreadTotal,
     ThreadMove, ThreadLoad, ThreadStore, ThreadSignal, ThreadWait, ThreadAwake,
     ThreadCancelTest, ThreadReset, ThreadFailSignal, ThreadDetach
<1>5. CASE UNCHANGED vars
  BY <1>5 DEF vars
<1>6. QED
  BY <1>1, <1>2, <1>3, <1>4, <1>5 DEF Next

(* A step in which roar_vio_write does not fail keeps the invariant.       *)
LEMMA IInvStep == TypeOK /\ TypeOK' /\ Unfailing /\ AllInv /\ [Next]_vars => AllInv'
  <2> SUFFICES ASSUME TypeOK, TypeOK', Unfailing, AllInv, [Next]_vars PROVE AllInv'
    OBVIOUS
  <2>e. env' = env
    BY EnvFixed
  <2>b. /\ self.bufptr \in Nat /\ call.size \in Nat /\ call.size <= BufSize
        /\ ~env.rehw => self.bufptr <= BufSize
    BY SizesAssumption DEF AllInv, Fitting, TypeOK, SelfType, CallType, SizeTs
  <2> USE DEF AllInv, TypeOK, SelfType, IoType, CallType, ThrType, counts, AppGoto, ThrGoto,
              Live, Unstored, StartPcs, FailPcs, QuietPcs, ResetPcs
  <2>1. CASE HwParams
    <3>1. \A u \in Threads : ThreadInv(u)'
      BY <2>1 DEF HwParams, ThreadInv
    <3>2. QuietStart'
      BY <2>e, <2>1 DEF HwParams, QuietStart, Stopped
    <3>3. Stopped'
      BY <2>1 DEF HwParams, Stopped
    <3>4. AppLocking'
      BY <2>1 DEF HwParams, AppLocking
    <3>5. Fitting'
      BY <2>1 DEF HwParams, Fitting
    <3>6. QED
      BY <3>1, <3>2, <3>3, <3>4, <3>5 DEF AllInv
  <2>h. CASE HwBufptr
    <3>1. \A u \in Threads : ThreadInv(u)'
      <4>1. /\ UNCHANGED <<thr, lock, vio, env>> /\ call.pc = "hw_bufptr"
            /\ self'.thread = self.thread /\ self'.opened = self.opened /\ self'.active = self.active
        BY <2>e, <2>h DEF HwBufptr
      <4>2. env.rehw \/ \A u \in Threads : ~Live(u)
        BY <4>1 DEF QuietStart
      <4>3. QED
        BY <4>1, <4>2 DEF ThreadInv, Live, Unstored
    <3>2. QuietStart'
      BY <2>h DEF HwBufptr, QuietStart
    <3>3. Stopped'
      BY <2>h DEF HwBufptr, Stopped
    <3>4. AppLocking'
      BY <2>h DEF HwBufptr, AppLocking
    <3>5. Fitting'
      BY <2>h, SizesAssumption DEF HwBufptr, Fitting
    <3>6. QED
      BY <3>1, <3>2, <3>3, <3>4, <3>5 DEF AllInv
  <2>2. CASE Prepare
    <3>1. \A u \in Threads : ThreadInv(u)'
      BY <2>2 DEF Prepare, ThreadInv
    <3>2. QuietStart'
      BY <2>2 DEF Prepare, QuietStart
    <3>3. Stopped'
      BY <2>2 DEF Prepare, Stopped
    <3>4. AppLocking'
      BY <2>2 DEF Prepare, AppLocking
    <3>5. Fitting'
      BY <2>2 DEF Prepare, Fitting
    <3>6. QED
      BY <3>1, <3>2, <3>3, <3>4, <3>5 DEF AllInv
  <2>3. CASE Start
    <3>1. \A u \in Threads : ThreadInv(u)'
      BY <2>3 DEF Start, ThreadInv
    <3>2. QuietStart'
      BY <2>3 DEF Start, QuietStart
    <3>3. Stopped'
      BY <2>3 DEF Start, Stopped
    <3>4. AppLocking'
      BY <2>3 DEF Start, AppLocking
    <3>5. Fitting'
      BY <2>3 DEF Start, Fitting
    <3>6. QED
      BY <3>1, <3>2, <3>3, <3>4, <3>5 DEF AllInv
  <2>4. CASE Drop
    <3>1. \A u \in Threads : ThreadInv(u)'
      BY <2>4 DEF Drop, ThreadInv
    <3>2. QuietStart'
      BY <2>4 DEF Drop, QuietStart
    <3>3. Stopped'
      BY <2>4 DEF Drop, Stopped
    <3>4. AppLocking'
      BY <2>4 DEF Drop, AppLocking
    <3>5. Fitting'
      BY <2>4 DEF Drop, Fitting
    <3>6. QED
      BY <3>1, <3>2, <3>3, <3>4, <3>5 DEF AllInv
  <2>5. CASE Write
    <3>1. \A u \in Threads : ThreadInv(u)'
      BY <2>5 DEF Write, ThreadInv
    <3>2. QuietStart'
      BY <2>5 DEF Write, QuietStart
    <3>3. Stopped'
      BY <2>5 DEF Write, Stopped
    <3>4. AppLocking'
      BY <2>5 DEF Write, AppLocking
    <3>5. Fitting'
      BY <2>5 DEF Write, Fitting
    <3>6. QED
      BY <3>1, <3>2, <3>3, <3>4, <3>5 DEF AllInv
  <2>6. CASE Delay
    <3>1. \A u \in Threads : ThreadInv(u)'
      BY <2>6 DEF Delay, ThreadInv
    <3>2. QuietStart'
      BY <2>6 DEF Delay, QuietStart
    <3>3. Stopped'
      BY <2>6 DEF Delay, Stopped
    <3>4. AppLocking'
      BY <2>6 DEF Delay, AppLocking
    <3>5. Fitting'
      BY <2>6 DEF Delay, Fitting
    <3>6. QED
      BY <3>1, <3>2, <3>3, <3>4, <3>5 DEF AllInv
  <2>7. CASE Close
    <3>1. \A u \in Threads : ThreadInv(u)'
      BY <2>7 DEF Close, ThreadInv
    <3>2. QuietStart'
      BY <2>7 DEF Close, QuietStart
    <3>3. Stopped'
      BY <2>7 DEF Close, Stopped
    <3>4. AppLocking'
      BY <2>7 DEF Close, AppLocking
    <3>5. Fitting'
      BY <2>7 DEF Close, Fitting
    <3>6. QED
      BY <3>1, <3>2, <3>3, <3>4, <3>5 DEF AllInv
  <2>8. CASE StartIgnored
    <3>1. \A u \in Threads : ThreadInv(u)'
      BY <2>8 DEF StartIgnored, ThreadInv
    <3>2. QuietStart'
      BY <2>8 DEF StartIgnored, QuietStart
    <3>3. Stopped'
      BY <2>8 DEF StartIgnored, Stopped
    <3>4. AppLocking'
      BY <2>8 DEF StartIgnored, AppLocking
    <3>5. Fitting'
      BY <2>8 DEF StartIgnored, Fitting
    <3>6. QED
      BY <3>1, <3>2, <3>3, <3>4, <3>5 DEF AllInv
  <2>9. CASE StartRefused
    <3>1. \A u \in Threads : ThreadInv(u)'
      BY <2>9 DEF StartRefused, ThreadInv
    <3>2. QuietStart'
      BY <2>9 DEF StartRefused, QuietStart
    <3>3. Stopped'
      BY <2>9, RefusedIsStopped
    <3>4. AppLocking'
      BY <2>9 DEF StartRefused, AppLocking
    <3>5. Fitting'
      BY <2>9 DEF StartRefused, Fitting
    <3>6. QED
      BY <3>1, <3>2, <3>3, <3>4, <3>5 DEF AllInv
  <2>10. CASE StartNewStream
    <3>1. \A u \in Threads : ThreadInv(u)'
      BY <2>10 DEF StartNewStream, ThreadInv
    <3>2. QuietStart'
      BY <2>10 DEF StartNewStream, QuietStart, ThreadInv
    <3>3. Stopped'
      BY <2>10 DEF StartNewStream, Stopped
    <3>4. AppLocking'
      BY <2>10 DEF StartNewStream, AppLocking
    <3>5. Fitting'
      BY <2>10 DEF StartNewStream, Fitting
    <3>6. QED
      BY <3>1, <3>2, <3>3, <3>4, <3>5 DEF AllInv
  <2>11. CASE StartStore
    <3>a. UNCHANGED <<lock, io, thr, vio>> /\ io.state \notin {"open", "setup", "closed"} /\ lock # App
      BY <2>11 DEF StartStore, Stopped, AppLocking
    <3>b. vio /\ \A u \in Threads : ~Live(u)
      BY <2>11 DEF StartStore, QuietStart
    <3>c. self'.bufptr \in {0, self.bufptr} /\ call'.pc \in StartPcs
      <4>1. CASE call.pc = "start_opened"
        BY <2>11, <4>1 DEF StartStore
      <4>2. CASE call.pc = "start_bufptr"
        BY <2>11, <4>2 DEF StartStore
      <4>3. CASE call.pc = "start_active"
        BY <2>11, <4>3 DEF StartStore
      <4>4. QED
        BY <2>11, <4>1, <4>2, <4>3 DEF StartStore
    <3>1. \A u \in Threads : ThreadInv(u)'
      BY <3>a, <3>b DEF ThreadInv
    <3>2. QuietStart'
      <4>1. CASE call.pc = "start_opened"
        BY <2>11, <3>a, <3>b, <4>1 DEF StartStore, QuietStart
      <4>2. CASE call.pc = "start_bufptr"
        BY <2>11, <3>a, <3>b, <4>2 DEF StartStore, QuietStart
      <4>3. CASE call.pc = "start_active"
        BY <2>11, <3>a, <3>b, <4>3 DEF StartStore, QuietStart
      <4>4. QED
        BY <2>11, <4>1, <4>2, <4>3 DEF StartStore
    <3>3. Stopped'
      BY <3>a DEF Stopped
    <3>4. AppLocking'
      BY <3>a, <3>c DEF AppLocking
    <3>5. Fitting'
      <4>1. ~env.rehw => self'.bufptr <= BufSize
        <5>1. ~env.rehw => \A b \in {0, self.bufptr} : b <= BufSize
          BY <2>b, SizesAssumption, SMTT(30)
        <5>2. QED
          BY <3>c, <5>1
      <4>2. QED
        BY <2>e, <3>c, <4>1 DEF Fitting
    <3>6. QED
      BY <3>1, <3>2, <3>3, <3>4, <3>5 DEF AllInv
  <2>12. CASE StartThread
    <3>a. PICK t \in Threads : ThrGoto(t, "top") /\ self' = [self EXCEPT !.thread = t]
      BY <2>12 DEF StartThread
    <3>b. self'.thread = t /\ UNCHANGED <<lock, io, vio>> /\ self'.opened = self.opened
          /\ self'.active = self.active /\ self'.bufptr = self.bufptr
      BY <2>12, <3>a DEF StartThread
    <3>c. call.pc = "start_create" /\ call'.pc = call.ret /\ call.ret \in {"idle", "pointer_lock"}
      BY <2>12 DEF StartThread
    <3>d. self.opened /\ self.active /\ vio /\ \A u \in Threads : ~Live(u)
      BY <3>c DEF QuietStart
    <3>e. thr'[t].pc = "top" /\ thr'[t].detached = thr[t].detached
          /\ \A u \in Threads \ {t} : thr'[u] = thr[u]
      BY <3>a
    <3>1. \A u \in Threads : ThreadInv(u)'
      <4>1. ThreadInv(t)'
        BY <2>e, <3>b, <3>d, <3>e DEF ThreadInv
      <4>2. ASSUME NEW u \in Threads \ {t} PROVE ThreadInv(u)'
        BY <2>e, <3>b, <3>d, <3>e DEF ThreadInv
      <4>3. QED
        BY <4>1, <4>2
    <3>2. QuietStart'
      BY <3>c DEF QuietStart
    <3>3. Stopped'
      BY <3>b, <3>c DEF Stopped
    <3>4. AppLocking' /\ Fitting'
      BY <2>e, <3>b, <3>c DEF AppLocking, Fitting
    <3>5. QED
      BY <3>1, <3>2, <3>3, <3>4 DEF AllInv
  <2>13. CASE StartThreadFails
    <3>1. \A u \in Threads : ThreadInv(u)'
      BY <2>13 DEF StartThreadFails, ThreadInv, QuietStart
    <3>2. QuietStart'
      BY <2>13 DEF StartThreadFails, QuietStart
    <3>3. Stopped'
      BY <2>13 DEF StartThreadFails, Stopped
    <3>4. AppLocking'
      BY <2>13 DEF StartThreadFails, AppLocking
    <3>5. Fitting'
      BY <2>13 DEF StartThreadFails, Fitting
    <3>6. QED
      BY <3>1, <3>2, <3>3, <3>4, <3>5 DEF AllInv
  <2>14. CASE StopTest
    <3>1. \A u \in Threads : ThreadInv(u)'
      BY <2>14 DEF StopTest, ThreadInv
    <3>2. QuietStart'
      BY <2>14 DEF StopTest, QuietStart, ThreadInv
    <3>3. Stopped'
      BY <2>14 DEF StopTest, Stopped
    <3>4. AppLocking'
      BY <2>14 DEF StopTest, AppLocking
    <3>5. Fitting'
      BY <2>14 DEF StopTest, Fitting
    <3>6. QED
      BY <3>1, <3>2, <3>3, <3>4, <3>5 DEF AllInv
  <2>15. CASE StopClear
    <3>1. \A u \in Threads : ThreadInv(u)'
      BY <2>15 DEF StopClear, ThreadInv
    <3>2. QuietStart'
      BY <2>15 DEF StopClear, QuietStart
    <3>3. Stopped'
      BY <2>15 DEF StopClear, Stopped
    <3>4. AppLocking'
      BY <2>15 DEF StopClear, AppLocking
    <3>5. Fitting'
      BY <2>15 DEF StopClear, Fitting
    <3>6. QED
      BY <3>1, <3>2, <3>3, <3>4, <3>5 DEF AllInv
  <2>16. CASE StopSignal
    <3>1. \A u \in Threads : ThreadInv(u)'
      BY <2>16 DEF StopSignal, Signal, ThreadInv
    <3>2. QuietStart'
      BY <2>16 DEF StopSignal, Signal, QuietStart
    <3>3. Stopped'
      BY <2>16 DEF StopSignal, Signal, Stopped
    <3>4. AppLocking'
      BY <2>16 DEF StopSignal, Signal, AppLocking
    <3>5. Fitting'
      BY <2>16 DEF StopSignal, Signal, Fitting
    <3>6. QED
      BY <3>1, <3>2, <3>3, <3>4, <3>5 DEF AllInv
  <2>17. CASE StopJoin
    <3>1. \A u \in Threads : ThreadInv(u)'
      BY <2>17 DEF StopJoin, Joined, ThreadInv
    <3>2. QuietStart'
      BY <2>17 DEF StopJoin, Joined, QuietStart, ThreadInv
    <3>3. Stopped'
      BY <2>17 DEF StopJoin, Joined, Stopped
    <3>4. AppLocking'
      BY <2>17 DEF StopJoin, Joined, AppLocking
    <3>5. Fitting'
      BY <2>17 DEF StopJoin, Joined, Fitting
    <3>6. QED
      BY <3>1, <3>2, <3>3, <3>4, <3>5 DEF AllInv
  <2>18. CASE StopReset
    <3>a. PICK q \in ResetPcs \cup {"reset_done"} : Reset(call.pc, q) /\ AppGoto(q)
      BY <2>18 DEF StopReset
    <3>b. call.pc \in ResetPcs /\ call'.pc = q /\ call'.ret = call.ret /\ UNCHANGED <<lock, io, thr>>
      BY <2>18, <3>a DEF Reset, StopReset
    <3>c. \A u \in Threads : ~Live(u)
      BY <3>b DEF QuietStart
    <3>d. self'.bufptr \in {0, self.bufptr}
      BY <3>a, ResetBufptr
    <3>1. \A u \in Threads : ThreadInv(u)'
      BY <3>b, <3>c DEF ThreadInv
    <3>2. QuietStart' /\ Stopped'
      BY <3>b, <3>c DEF QuietStart, Stopped
    <3>3. AppLocking'
      BY <3>b DEF AppLocking
    <3>4. Fitting'
      <4>1. ~env.rehw => self'.bufptr <= BufSize
        <5>1. ~env.rehw => \A b \in {0, self.bufptr} : b <= BufSize
          BY <2>b, SizesAssumption, SMTT(30)
        <5>2. QED
          BY <3>d, <5>1
      <4>2. call'.pc \in ResetPcs \cup {"reset_done"}
        BY <3>b
      <4>3. QED
        BY <2>e, <4>1, <4>2 DEF Fitting
    <3>5. QED
      BY <3>1, <3>2, <3>3, <3>4 DEF AllInv
  <2>19. CASE StopReturn
    <3>1. \A u \in Threads : ThreadInv(u)'
      BY <2>19 DEF StopReturn, ThreadInv
    <3>2. QuietStart'
      BY <2>19 DEF StopReturn, QuietStart
    <3>3. Stopped'
      BY <2>19 DEF StopReturn, Stopped, QuietStart
    <3>4. AppLocking'
      BY <2>19 DEF StopReturn, AppLocking
    <3>5. Fitting'
      BY <2>19 DEF StopReturn, Fitting
    <3>6. QED
      BY <3>1, <3>2, <3>3, <3>4, <3>5 DEF AllInv
  <2>20. CASE Pointer
    <3>1. call.pc = "pointer" /\ call'.pc \in {"stop", "pointer_lock"}
      BY <2>20 DEF Pointer
    <3>2. UNCHANGED <<self, lock, io, thr, vio>>
      BY <2>20 DEF Pointer
    <3>3. io.state \notin {"open", "setup", "closed"}
      BY <3>1 DEF Stopped
    <3>4. \A u \in Threads : ThreadInv(u)'
      BY <2>e, <3>1, <3>2, <3>3 DEF ThreadInv
    <3>5. QuietStart'
      BY <3>1, <3>2, <3>3 DEF QuietStart
    <3>6. Stopped'
      BY <3>1, <3>2, <3>3 DEF Stopped
    <3>7. AppLocking'
      BY <3>1, <3>2, <3>3 DEF AppLocking
    <3>8. Fitting'
      BY <2>e, <3>1, <3>2, <3>3 DEF Fitting
    <3>9. QED
      BY <3>4, <3>5, <3>6, <3>7, <3>8 DEF AllInv
  <2>21. CASE PointerLocked
    <3>a. call.pc = "pointer_lock"
      BY <2>21 DEF PointerLocked
    <3>b. \/ /\ io' = [io EXCEPT !.state = "xrun"]
             /\ call' = [call EXCEPT !.pc = "idle", !.ret = "idle", !.size = 0]
          \/ /\ UNCHANGED io
             /\ \E p \in {"idle", "write"}, m \in Int :
                  call' = [call EXCEPT !.pc = p, !.ret = "idle", !.size = m]
      <4> DEFINE b == Frames(Signed(self.bufptr))
                 q == env.frame * b
                 avail == IF env.gate THEN BufSize - q ELSE BufSize
                 n == IF call.size <= avail THEN call.size ELSE avail
      <4>1. b \in Int /\ env.frame \in Int
        <5>1. Signed(self.bufptr) \in Int
          BY SignedInt
        <5>2. QED
          BY <5>1, FramesInt, EnvType
      <4>a. call.size \in Int
        BY <2>b
      <4>c. BufSize \in Int
        BY SizesAssumption
      <4> HIDE DEF b
      <4>v. avail \in Int
        <5>1. q \in Int
          BY <4>1, ProductInt
        <5> HIDE DEF q
        <5>2. QED
          BY <4>c, <5>1
      <4> HIDE DEF avail
      <4>2. n \in Int
        BY <4>a, <4>v
      <4> USE DEF b
      <4> USE DEF avail
      <4>3. (IF n > 0 THEN n ELSE 0) \in Int /\ (IF n > 0 THEN "write" ELSE "idle") \in {"idle", "write"}
        BY <4>2
      <4>4. IF io.appl - b < 0
            THEN /\ io' = [io EXCEPT !.state = "xrun"]
                 /\ call' = [call EXCEPT !.pc = "idle", !.ret = "idle", !.size = 0]
            ELSE /\ UNCHANGED io
                 /\ call' = [call EXCEPT !.pc = IF n > 0 THEN "write" ELSE "idle",
                                         !.ret = "idle", !.size = IF n > 0 THEN n ELSE 0]
        BY <2>21 DEF PointerLocked
      <4> HIDE DEF n
      <4>5. QED
        BY <4>3, <4>4
    <3>1. call.pc = "pointer_lock" /\ call'.pc \in {"idle", "write"} /\ io'.state \in {io.state, "xrun"}
      BY <3>a, <3>b
    <3>2. self' = [self EXCEPT !.lastPtr = Remembered]
      BY <2>21 DEF PointerLocked
    <3>3. self'.opened = self.opened /\ self'.active = self.active /\ self'.bufptr = self.bufptr /\ self'.thread = self.thread
      BY <3>2
    <3>4. UNCHANGED <<lock, thr, vio>>
      BY <2>21 DEF PointerLocked
    <3>5. io.state \notin {"open", "setup", "closed"}
      BY <3>1 DEF Stopped
    <3>6. \A u \in Threads : ThreadInv(u)'
      BY <2>e, <3>1, <3>2, <3>3, <3>4, <3>5 DEF ThreadInv
    <3>7. QuietStart'
      BY <3>1, <3>2, <3>3, <3>4, <3>5 DEF QuietStart
    <3>8. Stopped'
      BY <3>1, <3>2, <3>3, <3>4, <3>5 DEF Stopped
    <3>9. AppLocking'
      BY <3>1, <3>2, <3>3, <3>4, <3>5 DEF AppLocking
    <3>10. Fitting'
      BY <2>e, <3>1, <3>2, <3>3, <3>4, <3>5 DEF Fitting
    <3>11. QED
      BY <3>6, <3>7, <3>8, <3>9, <3>10 DEF AllInv
  <2>22. CASE WriteTest
    <3>a. TransferReturns \/ (AppGoto("write_room") /\ UNCHANGED io)
      <4>1. self.active => AppGoto("write_room") /\ UNCHANGED io
        BY <2>22 DEF WriteTest
      <4>2. ~self.active => TransferReturns
        BY <2>22 DEF WriteTest
      <4>3. QED
        BY <4>1, <4>2
    <3>b. TransferReturns => call'.pc = "idle" /\ io'.state = io.state
      BY DEF TransferReturns
    <3>c. AppGoto("write_room") => call'.pc = "write_room"
      OBVIOUS
    <3>1. call.pc = "write"
      BY <2>22 DEF WriteTest
    <3>2. call'.pc \in {"idle", "write_room"} /\ io'.state = io.state
      BY <3>a, <3>b, <3>c
    <3>3. UNCHANGED <<self, lock, thr, vio>>
      BY <2>22 DEF WriteTest
    <3>4. io.state \notin {"open", "setup", "closed"}
      BY <3>1 DEF Stopped
    <3>5. \A u \in Threads : ThreadInv(u)'
      BY <2>e, <3>1, <3>2, <3>3, <3>4 DEF ThreadInv
    <3>6. QuietStart'
      BY <3>1, <3>2, <3>3, <3>4 DEF QuietStart
    <3>7. Stopped'
      BY <3>1, <3>2, <3>3, <3>4 DEF Stopped
    <3>8. AppLocking'
      BY <3>1, <3>2, <3>3, <3>4 DEF AppLocking
    <3>9. Fitting'
      BY <2>e, <3>1, <3>2, <3>3, <3>4 DEF Fitting
    <3>10. QED
      BY <3>5, <3>6, <3>7, <3>8, <3>9 DEF AllInv
  <2>23. CASE WriteRoom
    <3>1. call.pc = "write_room" /\ call'.pc \in {"write_copy", "write_full"}
      BY <2>23 DEF WriteRoom
    <3>2. call'.size = call.size
      BY <2>23 DEF WriteRoom
    <3>3. call'.pc = "write_copy" => SizeT(self.bufptr + call.size) <= BufSize
      BY <2>23 DEF WriteRoom, Room
    <3>4. ~env.rehw => self.bufptr + call.size \in SizeTs
      BY <2>b, SumFits
    <3>5. ~env.rehw => SizeT(self.bufptr + call.size) = self.bufptr + call.size
      BY <3>4, SizeTIdentity
    <3>6. UNCHANGED <<self, lock, io, thr, vio>>
      BY <2>23 DEF WriteRoom
    <3>7. io.state \notin {"open", "setup", "closed"}
      BY <3>1 DEF Stopped
    <3>8. \A u \in Threads : ThreadInv(u)'
      BY <2>e, <3>1, <3>2, <3>3, <3>4, <3>5, <3>6, <3>7 DEF ThreadInv
    <3>9. QuietStart'
      BY <3>1, <3>2, <3>3, <3>4, <3>5, <3>6, <3>7 DEF QuietStart
    <3>10. Stopped'
      BY <3>1, <3>2, <3>3, <3>4, <3>5, <3>6, <3>7 DEF Stopped
    <3>11. AppLocking'
      BY <3>1, <3>2, <3>3, <3>4, <3>5, <3>6, <3>7 DEF AppLocking
    <3>12. Fitting'
      BY <2>e, <3>1, <3>2, <3>3, <3>4, <3>5, <3>6, <3>7 DEF Fitting
    <3>13. QED
      BY <3>8, <3>9, <3>10, <3>11, <3>12 DEF AllInv
  <2>24. CASE WriteFull
    <3>1. \A u \in Threads : ThreadInv(u)'
      BY <2>24 DEF WriteFull, Signal, ThreadInv
    <3>2. QuietStart'
      BY <2>24 DEF WriteFull, Signal, QuietStart
    <3>3. Stopped'
      BY <2>24 DEF WriteFull, Signal, Stopped
    <3>4. AppLocking'
      BY <2>24 DEF WriteFull, Signal, AppLocking
    <3>5. Fitting'
      BY <2>24 DEF WriteFull, Signal, Fitting
    <3>6. QED
      BY <3>1, <3>2, <3>3, <3>4, <3>5 DEF AllInv
  <2>25. CASE WriteWait
    <3>1. \A u \in Threads : ThreadInv(u)'
      BY <2>25 DEF WriteWait, ThreadInv
    <3>2. QuietStart'
      BY <2>25 DEF WriteWait, QuietStart
    <3>3. Stopped'
      BY <2>25 DEF WriteWait, Stopped
    <3>4. AppLocking'
      BY <2>25 DEF WriteWait, AppLocking
    <3>5. Fitting'
      BY <2>25 DEF WriteWait, Fitting
    <3>6. QED
      BY <3>1, <3>2, <3>3, <3>4, <3>5 DEF AllInv
  <2>26. CASE WriteAwake
    <3>1. \A u \in Threads : ThreadInv(u)'
      BY <2>26 DEF WriteAwake, ThreadInv
    <3>2. QuietStart'
      BY <2>26 DEF WriteAwake, QuietStart
    <3>3. Stopped'
      BY <2>26 DEF WriteAwake, Stopped
    <3>4. AppLocking'
      BY <2>26 DEF WriteAwake, AppLocking
    <3>5. Fitting'
      BY <2>26 DEF WriteAwake, Fitting
    <3>6. QED
      BY <3>1, <3>2, <3>3, <3>4, <3>5 DEF AllInv
  <2>27. CASE WriteCopy
    <3>1. call.pc = "write_copy" /\ call'.pc = "write_load" /\ call'.size = call.size
      BY <2>27 DEF WriteCopy
    <3>2. lock = Free /\ lock' = App
      BY <2>27 DEF WriteCopy
    <3>3. UNCHANGED <<self, io, thr, vio>>
      BY <2>27 DEF WriteCopy
    <3>4. lock' \notin Threads /\ lock \notin Threads
      BY <3>2, Nobody
    <3>5. io.state \notin {"open", "setup", "closed"}
      BY <3>1 DEF Stopped
    <3>6. \A u \in Threads : ThreadInv(u)'
      BY <2>e, <3>1, <3>2, <3>3, <3>4, <3>5 DEF ThreadInv
    <3>7. QuietStart'
      BY <3>1, <3>2, <3>3, <3>4, <3>5 DEF QuietStart
    <3>8. Stopped'
      BY <3>1, <3>2, <3>3, <3>4, <3>5 DEF Stopped
    <3>9. AppLocking'
      BY <3>1, <3>2, <3>3, <3>4, <3>5 DEF AppLocking
    <3>10. Fitting'
      BY <2>e, <3>1, <3>2, <3>3, <3>4, <3>5 DEF Fitting
    <3>11. QED
      BY <3>6, <3>7, <3>8, <3>9, <3>10 DEF AllInv
  <2>28. CASE WriteLoad
    <3>1. \A u \in Threads : ThreadInv(u)'
      BY <2>28 DEF WriteLoad, ThreadInv
    <3>2. QuietStart'
      BY <2>28 DEF WriteLoad, QuietStart
    <3>3. Stopped'
      BY <2>28 DEF WriteLoad, Stopped
    <3>4. AppLocking'
      BY <2>28 DEF WriteLoad, AppLocking
    <3>5. Fitting'
      BY <2>28 DEF WriteLoad, Fitting
    <3>6. QED
      BY <3>1, <3>2, <3>3, <3>4, <3>5 DEF AllInv
  <2>29. CASE WriteStore
    <3>1. call.pc = "write_store" /\ call'.pc = "write_signal"
      BY <2>29 DEF WriteStore
    <3>2. call.loaded = self.bufptr /\ lock = App
      BY <3>1 DEF AppLocking
    <3>3. call.size \in Nat /\ self.bufptr \in Nat
      BY SizesAssumption DEF SizeTs
    <3>4. self' = [self EXCEPT !.bufptr = SizeT(call.loaded + call.size)]
      BY <2>29 DEF WriteStore
    <3>5. self'.opened = self.opened /\ self'.active = self.active /\ self'.thread = self.thread
      BY <3>4
    <3>6. ASSUME ~env.rehw
          PROVE  self'.bufptr = self.bufptr + call.size /\ self.bufptr + call.size <= BufSize
      <4>1. self.bufptr + call.size <= BufSize
        BY <3>1, <3>6 DEF Fitting
      <4>2. self.bufptr + call.size \in SizeTs
        BY <2>b, <3>6, SumFits
      <4>3. QED
        BY <3>2, <3>4, <4>1, <4>2, SizeTIdentity
    <3>7. lock' = Free /\ UNCHANGED <<io, thr, vio>>
      BY <2>29 DEF WriteStore
    <3>8. lock' \notin Threads /\ lock \notin Threads /\ lock' # App
      BY <3>2, <3>7, Nobody
    <3>9. \A u \in Threads : thr[u].pc # "store"
      BY <3>8 DEF ThreadInv
    <3>10. io.state \notin {"open", "setup", "closed"}
      BY <3>1 DEF Stopped
    <3>11. \A u \in Threads : ThreadInv(u)'
      <4> SUFFICES ASSUME NEW u \in Threads PROVE ThreadInv(u)'
        OBVIOUS
      <4>1. thr[u].rc \in Nat /\ ThreadInv(u)
        BY SizesAssumption
      <4>2. ASSUME ~env.rehw
            PROVE  (thr[u].pc = "vio_write" => self'.bufptr >= Chunk) /\ (Unstored(u) => thr[u].rc <= self'.bufptr)
        <5>1. \A m \in Int : m <= self.bufptr => m <= self'.bufptr
          BY <3>3, <3>6, <4>2, SMTT(30)
        <5>2. Chunk \in Int /\ thr[u].rc \in Int
          BY <4>1, SizesAssumption
        <5>3. self'.bufptr \in Int
          BY <3>3, <3>6, <4>2
        <5>4. QED
          BY <4>1, <4>2, <5>1, <5>2, <5>3, <3>3 DEF ThreadInv
      <4>3. QED
        BY <2>e, <4>1, <4>2, <3>1, <3>5, <3>7, <3>8, <3>9 DEF ThreadInv
    <3>12. QuietStart'
      BY <3>1, <3>5, <3>7 DEF QuietStart
    <3>13. Stopped'
      BY <3>7, <3>10 DEF Stopped
    <3>14. AppLocking'
      BY <3>1, <3>8 DEF AppLocking
    <3>15. Fitting'
      BY <2>e, <3>1, <3>6 DEF Fitting
    <3>16. QED
      BY <3>11, <3>12, <3>13, <3>14, <3>15 DEF AllInv
  <2>30. CASE WriteSignal
    <3>1. call.pc = "write_signal" /\ call'.pc = "idle"
      BY <2>30 DEF WriteSignal, TransferReturns
    <3>2. io'.state = io.state
      BY <2>30 DEF WriteSignal, TransferReturns
    <3>3. UNCHANGED <<self, lock, thr, vio>>
      BY <2>30 DEF WriteSignal, TransferReturns
    <3>4. io.state \notin {"open", "setup", "closed"}
      BY <3>1 DEF Stopped
    <3>5. \A u \in Threads : ThreadInv(u)'
      BY <2>e, <3>1, <3>2, <3>3, <3>4 DEF ThreadInv
    <3>6. QuietStart'
      BY <3>1, <3>2, <3>3, <3>4 DEF QuietStart
    <3>7. Stopped'
      BY <3>1, <3>2, <3>3, <3>4 DEF Stopped
    <3>8. AppLocking'
      BY <3>1, <3>2, <3>3, <3>4 DEF AppLocking
    <3>9. Fitting'
      BY <2>e, <3>1, <3>2, <3>3, <3>4 DEF Fitting
    <3>10. QED
      BY <3>5, <3>6, <3>7, <3>8, <3>9 DEF AllInv
  <2>31. CASE Spurious
    <3>1. \A u \in Threads : ThreadInv(u)'
      BY <2>31 DEF Spurious, ThreadInv
    <3>2. QuietStart'
      BY <2>31 DEF Spurious, QuietStart
    <3>3. Stopped'
      BY <2>31 DEF Spurious, Stopped
    <3>4. AppLocking'
      BY <2>31 DEF Spurious, AppLocking
    <3>5. Fitting'
      BY <2>31 DEF Spurious, Fitting
    <3>6. QED
      BY <3>1, <3>2, <3>3, <3>4, <3>5 DEF AllInv
  <2>32. ASSUME NEW t \in Threads, ThreadTest(t) PROVE AllInv'
    <3>a. PICK q \in {"check", "quit"} : ThrGoto(t, q)
      BY <2>32 DEF ThreadTest
    <3>1. thr[t].pc = "top"
      BY <2>32 DEF ThreadTest
    <3>2. thr'[t].pc \in {"check", "quit"}
      BY <3>a
    <3>3. thr'[t].rc = thr[t].rc /\ thr'[t].loaded = thr[t].loaded /\ thr'[t].detached = thr[t].detached
      BY <3>a
    <3>4. \A u \in Threads \ {t} : thr'[u] = thr[u]
      BY <3>a
    <3>5. UNCHANGED <<self, lock, io, call, vio>>
      BY <2>32 DEF ThreadTest
    <3>6. Live(t)
      BY <3>1
    <3>7. ThreadInv(t)'
      BY <3>1, <3>2, <3>3, <3>4, <3>5, <3>6, Nobody DEF ThreadInv
    <3>8. QED
      BY <3>1, <3>2, <3>3, <3>4, <3>5, <3>6, <3>7, <2>e, ThreadKeeps, Nobody
  <2>33. ASSUME NEW t \in Threads, ThreadCheck(t) PROVE AllInv'
    <3>a. PICK q \in {"vio_write", "quit"} : ThrGoto(t, q)
      BY <2>33 DEF ThreadCheck
    <3>1. thr[t].pc = "check"
      BY <2>33 DEF ThreadCheck
    <3>2. thr'[t].pc \in {"vio_write", "quit"}
      BY <3>a
    <3>3. thr'[t].rc = thr[t].rc /\ thr'[t].loaded = thr[t].loaded /\ thr'[t].detached = thr[t].detached
      BY <3>a
    <3>4. \A u \in Threads \ {t} : thr'[u] = thr[u]
      BY <3>a
    <3>5. UNCHANGED <<self, lock, io, call, vio>>
      BY <2>33 DEF ThreadCheck
    <3>6. Live(t)
      BY <3>1
    <3>7. thr'[t].pc = "vio_write" => self.bufptr >= Chunk
      BY <2>33 DEF ThreadCheck, FullChunk
    <3>8. ThreadInv(t)'
      BY <3>1, <3>2, <3>3, <3>4, <3>5, <3>6, <3>7, Nobody DEF ThreadInv
    <3>9. QED
      BY <3>1, <3>2, <3>3, <3>4, <3>5, <3>6, <3>7, <3>8, <2>e, ThreadKeeps, Nobody
  <2>34. ASSUME NEW t \in Threads, ThreadWrite(t) PROVE AllInv'
    <3>v. vio /\ (~env.rehw => self.bufptr >= Chunk)
      BY <2>34 DEF ThreadWrite, ThreadInv
    <3>f. ~(env.vioFails /\ ThrGoto(t, "cancel"))
      BY FailsAtCancel
    <3>a. PICK n \in 1 .. Chunk : thr' = [thr EXCEPT ![t].rc = n, ![t].pc = "mark"]
      BY <2>34, <3>v, <3>f DEF ThreadWrite
    <3>1. thr[t].pc = "vio_write"
      BY <2>34 DEF ThreadWrite
    <3>2. thr'[t].pc = "mark"
      BY <3>a
    <3>3. thr'[t].rc = n /\ thr'[t].loaded = thr[t].loaded /\ thr'[t].detached = thr[t].detached
      BY <3>a
    <3>4. \A u \in Threads \ {t} : thr'[u] = thr[u]
      BY <3>a
    <3>5. UNCHANGED <<self, lock, io, call, vio>>
      BY <2>34 DEF ThreadWrite
    <3>6. Live(t)
      BY <3>1
    <3>7. n \in Int /\ n <= Chunk /\ self.bufptr \in Int /\ Chunk \in Int
      BY SizesAssumption DEF SizeTs
    <3>8. ~env.rehw => n <= self.bufptr
      BY <3>v, <3>7, SMTT(30)
    <3>9. ThreadInv(t)'
      BY <2>e, <3>1, <3>2, <3>3, <3>4, <3>5, <3>6, <3>7, <3>8, Nobody DEF ThreadInv
    <3>10. QED
      BY <3>1, <3>2, <3>3, <3>4, <3>5, <3>6, <3>7, <3>8, <3>9, <2>e, ThreadKeeps, Nobody
  <2>35. ASSUME NEW t \in Threads, ThreadMark(t) PROVE AllInv'
    <3>1. thr[t].pc = "mark"
      BY <2>35 DEF ThreadMark
    <3>2. thr'[t].pc = "total"
      BY <2>35 DEF ThreadMark
    <3>3. thr'[t].rc = thr[t].rc /\ thr'[t].loaded = thr[t].loaded /\ thr'[t].detached = thr[t].detached
      BY <2>35 DEF ThreadMark
    <3>4. \A u \in Threads \ {t} : thr'[u] = thr[u]
      BY <2>35 DEF ThreadMark
    <3>5. UNCHANGED <<lock, io, call, vio>>
      BY <2>35 DEF ThreadMark
    <3>6. Live(t)
      BY <3>1
    <3>7. self' = [self EXCEPT !.begun = TRUE]
      BY <2>35 DEF ThreadMark
    <3>8. self'.opened = self.opened /\ self'.active = self.active /\ self'.bufptr = self.bufptr /\ self'.thread = self.thread
      BY <3>7
    <3>9. ThreadInv(t)'
      BY <2>e, <3>1, <3>2, <3>3, <3>4, <3>5, <3>6, <3>7, <3>8, Nobody DEF ThreadInv
    <3>10. QED
      BY <3>1, <3>2, <3>3, <3>4, <3>5, <3>6, <3>7, <3>8, <3>9, <2>e, ThreadKeeps, Nobody
  <2>36. ASSUME NEW t \in Threads, ThreadTotal(t) PROVE AllInv'
    <3>1. thr[t].pc = "total"
      BY <2>36 DEF ThreadTotal
    <3>2. thr'[t].pc = "move"
      BY <2>36 DEF ThreadTotal
    <3>3. thr'[t].rc = thr[t].rc /\ thr'[t].loaded = thr[t].loaded /\ thr'[t].detached = thr[t].detached
      BY <2>36 DEF ThreadTotal
    <3>4. \A u \in Threads \ {t} : thr'[u] = thr[u]
      BY <2>36 DEF ThreadTotal
    <3>5. UNCHANGED <<lock, io, call, vio>>
      BY <2>36 DEF ThreadTotal
    <3>6. Live(t)
      BY <3>1
    <3>7. self' = [self EXCEPT !.total = self.total + thr[t].rc]
      BY <2>36 DEF ThreadTotal
    <3>8. self'.opened = self.opened /\ self'.active = self.active /\ self'.bufptr = self.bufptr /\ self'.thread = self.thread
      BY <3>7
    <3>9. ThreadInv(t)'
      BY <2>e, <3>1, <3>2, <3>3, <3>4, <3>5, <3>6, <3>7, <3>8, Nobody DEF ThreadInv
    <3>10. QED
      BY <3>1, <3>2, <3>3, <3>4, <3>5, <3>6, <3>7, <3>8, <3>9, <2>e, ThreadKeeps, Nobody
  <2>37. ASSUME NEW t \in Threads, ThreadMove(t) PROVE AllInv'
    <3>1. thr[t].pc = "move"
      BY <2>37 DEF ThreadMove
    <3>2. thr'[t].pc = "load"
      BY <2>37 DEF ThreadMove
    <3>3. thr'[t].rc = thr[t].rc /\ thr'[t].loaded = thr[t].loaded /\ thr'[t].detached = thr[t].detached
      BY <2>37 DEF ThreadMove
    <3>4. \A u \in Threads \ {t} : thr'[u] = thr[u]
      BY <2>37 DEF ThreadMove
    <3>5. UNCHANGED <<self, io, call, vio>>
      BY <2>37 DEF ThreadMove
    <3>6. Live(t)
      BY <3>1
    <3>7. lock = Free /\ lock' = t
      BY <2>37 DEF ThreadMove
    <3>8. ThreadInv(t)'
      BY <2>e, <3>1, <3>2, <3>3, <3>4, <3>5, <3>6, <3>7, Nobody DEF ThreadInv
    <3>9. QED
      BY <3>1, <3>2, <3>3, <3>4, <3>5, <3>6, <3>7, <3>8, <2>e, ThreadKeeps, Nobody
  <2>38. ASSUME NEW t \in Threads, ThreadLoad(t) PROVE AllInv'
    <3>1. thr[t].pc = "load"
      BY <2>38 DEF ThreadLoad
    <3>2. thr'[t].pc = "store"
      BY <2>38 DEF ThreadLoad
    <3>3. thr'[t].rc = thr[t].rc /\ thr'[t].loaded = self.bufptr /\ thr'[t].detached = thr[t].detached
      BY <2>38 DEF ThreadLoad
    <3>4. \A u \in Threads \ {t} : thr'[u] = thr[u]
      BY <2>38 DEF ThreadLoad
    <3>5. UNCHANGED <<self, lock, io, call, vio>>
      BY <2>38 DEF ThreadLoad
    <3>6. Live(t)
      BY <3>1
    <3>7. ThreadInv(t)'
      BY <2>e, <3>1, <3>2, <3>3, <3>4, <3>5, <3>6, Nobody DEF ThreadInv
    <3>8. QED
      BY <3>1, <3>2, <3>3, <3>4, <3>5, <3>6, <3>7, <2>e, ThreadKeeps, Nobody
  <2>39. ASSUME NEW t \in Threads, ThreadStore(t) PROVE AllInv'
    <3>1. thr[t].pc = "store"
      BY <2>39 DEF ThreadStore
    <3>2. thr'[t].pc = "signal"
      BY <2>39 DEF ThreadStore
    <3>3. thr'[t].rc = thr[t].rc /\ thr'[t].loaded = thr[t].loaded /\ thr'[t].detached = thr[t].detached
      BY <2>39 DEF ThreadStore
    <3>4. \A u \in Threads \ {t} : thr'[u] = thr[u]
      BY <2>39 DEF ThreadStore
    <3>5. UNCHANGED <<io, call, vio>>
      BY <2>39 DEF ThreadStore
    <3>6. Live(t)
      BY <3>1
    <3>7. lock = t /\ lock' = Free
      BY <2>39, <3>1 DEF ThreadInv, ThreadStore
    <3>8. self'.opened = self.opened /\ self'.active = self.active /\ self'.thread = self.thread
          /\ self'.bufptr = SizeT(thr[t].loaded - thr[t].rc)
      BY <2>39 DEF ThreadStore
    <3>9. ASSUME ~env.rehw PROVE self'.bufptr <= self.bufptr
      <4>1. thr[t].loaded = self.bufptr /\ thr[t].rc <= self.bufptr
        BY <3>1, <3>9 DEF ThreadInv
      <4>2. thr[t].rc \in Nat /\ self.bufptr \in Nat
        BY SizesAssumption DEF SizeTs
      <4>3. self.bufptr - thr[t].rc \in SizeTs
        BY <4>1, <4>2, DifferenceFits
      <4>4. self'.bufptr = self.bufptr - thr[t].rc
        BY <3>8, <4>1, <4>3, SizeTIdentity
      <4>5. QED
        BY <4>2, <4>4, SMTT(30)
    <3>10. ThreadInv(t)'
      BY <2>e, <3>1, <3>2, <3>3, <3>4, <3>5, <3>6, <3>7, <3>8, Nobody DEF ThreadInv
    <3>11. QED
      BY <3>1, <3>4, <3>5, <3>6, <3>7, <3>8, <3>9, <3>10, <2>e, ThreadKeeps, Nobody
  <2>40. ASSUME NEW t \in Threads, ThreadSignal(t) PROVE AllInv'
    <3>a. PICK q \in {"top", "wait", "exited"} : ThrGoto(t, q)
      BY <2>40 DEF ThreadSignal
    <3>1. thr[t].pc \in {"signal", "quit"}
      BY <2>40 DEF ThreadSignal
    <3>2. thr'[t].pc \in {"top", "wait", "exited"}
      BY <3>a
    <3>3. thr'[t].rc = thr[t].rc /\ thr'[t].loaded = thr[t].loaded /\ thr'[t].detached = thr[t].detached
      BY <3>a
    <3>4. \A u \in Threads \ {t} : thr'[u] = thr[u]
      BY <3>a
    <3>5. UNCHANGED <<self, lock, io, call, vio>>
      BY <2>40 DEF ThreadSignal
    <3>6. Live(t)
      BY <3>1
    <3>7. ThreadInv(t)'
      BY <3>1, <3>2, <3>3, <3>4, <3>5, <3>6, Nobody DEF ThreadInv
    <3>8. QED
      BY <3>1, <3>2, <3>3, <3>4, <3>5, <3>6, <3>7, <2>e, ThreadKeeps, Nobody
  <2>41. ASSUME NEW t \in Threads, ThreadWait(t) PROVE AllInv'
    <3>1. thr[t].pc = "wait"
      BY <2>41 DEF ThreadWait
    <3>2. thr'[t].pc = "asleep"
      BY <2>41 DEF ThreadWait
    <3>3. thr'[t].rc = thr[t].rc /\ thr'[t].loaded = thr[t].loaded /\ thr'[t].detached = thr[t].detached
      BY <2>41 DEF ThreadWait
    <3>4. \A u \in Threads \ {t} : thr'[u] = thr[u]
      BY <2>41 DEF ThreadWait
    <3>5. UNCHANGED <<self, lock, io, call, vio>>
      BY <2>41 DEF ThreadWait
    <3>6. Live(t)
      BY <3>1
    <3>7. ThreadInv(t)'
      BY <3>1, <3>2, <3>3, <3>4, <3>5, <3>6, Nobody DEF ThreadInv
    <3>8. QED
      BY <3>1, <3>2, <3>3, <3>4, <3>5, <3>6, <3>7, <2>e, ThreadKeeps, Nobody
  <2>42. ASSUME NEW t \in Threads, ThreadAwake(t) PROVE AllInv'
    <3>1. thr[t].pc = "asleep"
      BY <2>42 DEF ThreadAwake
    <3>2. thr'[t].pc = "top"
      BY <2>42 DEF ThreadAwake
    <3>3. thr'[t].rc = thr[t].rc /\ thr'[t].loaded = thr[t].loaded /\ thr'[t].detached = thr[t].detached
      BY <2>42 DEF ThreadAwake
    <3>4. \A u \in Threads \ {t} : thr'[u] = thr[u]
      BY <2>42 DEF ThreadAwake
    <3>5. UNCHANGED <<self, lock, io, call, vio>>
      BY <2>42 DEF ThreadAwake
    <3>6. Live(t)
      BY <3>1
    <3>7. ThreadInv(t)'
      BY <3>1, <3>2, <3>3, <3>4, <3>5, <3>6, Nobody DEF ThreadInv
    <3>8. QED
      BY <3>1, <3>2, <3>3, <3>4, <3>5, <3>6, <3>7, <2>e, ThreadKeeps, Nobody
  <2>43. ASSUME NEW t \in Threads, ThreadCancelTest(t) PROVE AllInv'
    BY <2>43 DEF ThreadCancelTest, ThreadInv
  <2>44. ASSUME NEW t \in Threads, ThreadReset(t) PROVE AllInv'
    BY <2>44 DEF ThreadReset, Reset, ThreadInv
  <2>45. ASSUME NEW t \in Threads, ThreadFailSignal(t) PROVE AllInv'
    BY <2>45 DEF ThreadFailSignal, ThreadInv
  <2>46. ASSUME NEW t \in Threads, ThreadDetach(t) PROVE AllInv'
    BY <2>46 DEF ThreadDetach, ThreadInv
  <2>47. CASE UNCHANGED vars
    BY <2>47 DEF vars, ThreadInv, QuietStart, Stopped, AppLocking, Fitting, Unstored
  <2>48. QED
    BY <2>h, <2>1, <2>2, <2>3, <2>4, <2>5, <2>6, <2>7, <2>8, <2>9, <2>10, <2>11,
       <2>12, <2>13, <2>14, <2>15, <2>16, <2>17, <2>18, <2>19, <2>20, <2>21,
       <2>22, <2>23, <2>24, <2>25, <2>26, <2>27, <2>28, <2>29, <2>30, <2>31,
       <2>32, <2>33, <2>34, <2>35, <2>36, <2>37, <2>38, <2>39, <2>40, <2>41,
       <2>42, <2>43, <2>44, <2>45, <2>46, <2>47
    DEF Next, AppCall, AppStep, ThreadStep

LEMMA InitAllInv == Init => AllInv
<1> SUFFICES ASSUME Init PROVE AllInv
  OBVIOUS
<1> USE DEF Init, Live, Unstored
<1>1. \A t \in Threads : ThreadInv(t)
  BY Nobody DEF ThreadInv, FailPcs, ResetPcs
<1>2. QuietStart /\ Stopped
  BY DEF QuietStart, Stopped, StartPcs, QuietPcs, ResetPcs
<1>3. AppLocking /\ Fitting
  BY SizesAssumption, Nobody DEF AppLocking, Fitting
<1>4. QED
  BY <1>1, <1>2, <1>3 DEF AllInv

(* The inductive invariant holds of every behaviour.                       *)
THEOREM Inductive == Spec => []IInv
<1>1. TypeOK /\ TypeOK' /\ IInv /\ [Next]_vars => IInv'
  <2> SUFFICES ASSUME TypeOK, TypeOK', IInv, [Next]_vars, ~env'.vioFails PROVE AllInv'
    BY DEF IInv, AllInv
  <2>1. ~env.vioFails
    BY EnvFixed
  <2>2. AllInv
    BY <2>1 DEF IInv, AllInv
  <2>3. QED
    BY <2>1, <2>2, IInvStep DEF Unfailing
<1>2. Init => IInv
  BY InitAllInv DEF IInv, AllInv
<1>3. QED
  BY <1>1, <1>2, TypeCorrect, PTL DEF Spec

(* roar_pcm_start, and the roar_reset of roar_pcm_stop, store without the  *)
(* lock only while no background thread lives, and there is never a second *)
(* one.                                                                    *)
THEOREM QuietReset == Spec => []NoThreadAtReset
<1>1. IInv => NoThreadAtReset
  <2> SUFFICES ASSUME IInv, ~env.vioFails
               PROVE  /\ \A t, u \in Threads : Live(t) /\ Live(u) => t = u
                      /\ call.pc \in QuietPcs \/ io.state = "closed" => \A t \in Threads : ~Live(t)
    BY DEF NoThreadAtReset
  <2>1. (\A t \in Threads : ThreadInv(t)) /\ QuietStart /\ Stopped
    BY DEF IInv
  <2>2. \A t, u \in Threads : Live(t) /\ Live(u) => t = u
    BY <2>1 DEF ThreadInv
  <2>3. call.pc \in QuietPcs => \A t \in Threads : ~Live(t)
    BY <2>1 DEF QuietStart
  <2>4. io.state = "closed" => \A t \in Threads : ~Live(t)
    BY <2>1 DEF Stopped, ResetPcs
  <2>5. QED
    BY <2>2, <2>3, <2>4
<1>2. QED
  BY <1>1, Inductive, PTL

-----------------------------------------------------------------------------
(* Where roar_vio_write may fail.  From which program counters a thread    *)
(* may still close the stream, and whether a second one was created.       *)
BeforeReset ==
  {"top", "check", "vio_write", "mark", "total", "move", "load", "store", "signal",
   "quit", "wait", "asleep", "cancel", "reset", "reset_opened"}
Before(t) == thr[t].pc \in BeforeReset
First == thr[1].pc # "none"
Second == 2 \in Threads /\ thr[2].pc # "none"
StopRest == {"stop_signal", "stop_join", "reset_done"} \cup ResetPcs
StartRest == {"start_bufptr", "start_active", "start_create"}

(* The first thread that may still close the stream is the one             *)
(* roar_pcm_stop joins, of a stream nobody else closes.                    *)
FirstAlone ==
  /\ ~First => /\ self.active => call.pc = "start_create"
               /\ call.pc = "start_create" => self.active
  /\ Before(1) => /\ self.opened /\ self.thread = 1 /\ ~thr[1].detached
                  /\ call.pc \notin StartPcs
                  /\ self.active \/ call.pc \in {"stop_signal", "stop_join"}
  /\ First /\ ~Before(1) /\ self.active => call.pc = "start_create" \/ thr[1].pc = "reset_active"
  /\ call.pc \in StartRest => self.opened

(* When there is a second one the first no longer closes the stream, and   *)
(* an active stream is the second's.                                       *)
SecondAlone ==
  /\ First /\ ~Before(1)
  /\ self.active => \/ call.pc = "start_create"
                    \/ Before(2) /\ self.opened
                    \/ thr[2].pc = "reset_active"

Newest ==
  /\ call.pc \in StopRest => ~self.active
  /\ \A t \in Threads : thr[t].pc = "none" => ~thr[t].detached
  /\ ~env.createFails /\ Created(2) => /\ ~Second => FirstAlone
                                       /\ Second => SecondAlone

(* A step of the application's thread that neither stops nor starts the    *)
(* stream.                                                                 *)
LEMMA NewestApp ==
  ASSUME TypeOK, TypeOK', Newest, UNCHANGED <<thr, env>>,
         self'.opened = self.opened, self'.active = self.active, self'.thread = self.thread,
         call.pc \notin StopRest \cup StartPcs, call'.pc \notin StopRest \cup StartPcs
  PROVE  Newest'
  BY DEF Newest, FirstAlone, SecondAlone, First, Second, Before, StartRest, StartPcs, StopRest, Created

(* A step of a background thread outside roar_reset: it gives up the       *)
(* stream only when thread_active is clear.                                *)
LEMMA NewestThread ==
  ASSUME TypeOK, TypeOK', Newest, UNCHANGED <<call, env>>, NEW t \in Threads,
         self'.opened = self.opened, self'.active = self.active, self'.thread = self.thread,
         \A u \in Threads \ {t} : thr'[u] = thr[u],
         Before(t), thr'[t].pc \in BeforeReset \/ (thr'[t].pc = "exited" /\ ~self.active),
         thr'[t].detached = thr[t].detached
  PROVE  Newest'
<1>1. thr[t].pc # "none" /\ thr'[t].pc # "none"
  BY DEF Before, BeforeReset
<1>2. call'.pc \in StopRest => ~self'.active
  BY DEF Newest
<1>3. \A u \in Threads : thr'[u].pc = "none" => ~thr'[u].detached
  BY <1>1 DEF Newest
<1>4. Created(2)' => Created(2)
  BY <1>1 DEF Created
<1>5. 1 \in Threads /\ First' = First /\ Second' = Second
  BY <1>1, SizesAssumption DEF First, Second, Threads
<1>6. ~env.createFails /\ Created(2) /\ ~Second => FirstAlone'
  BY <1>1, <1>5 DEF Newest, FirstAlone, First, Before, BeforeReset
<1>7. ~env.createFails /\ Created(2) /\ Second => SecondAlone'
  BY <1>1, <1>5 DEF Newest, SecondAlone, First, Second, Before, BeforeReset
<1>8. QED
  BY <1>2, <1>3, <1>4, <1>5, <1>6, <1>7 DEF Newest

(* roar_reset never sets thread_active.                                    *)
LEMMA ResetActiveOnly ==
  ASSUME self \in SelfType, NEW p, NEW q, Reset(p, q)
  PROVE  self'.active => self.active
  BY DEF Reset, ResetActive, ResetRest, SelfType

LEMMA ResetThread ==
  ASSUME self \in SelfType, NEW p, NEW q, Reset(p, q) PROVE self'.thread = self.thread
<1>1. ResetActive.thread = self.thread /\ ResetRest.thread = self.thread
  BY DEF ResetActive, ResetRest, SelfType
<1>2. QED
  BY <1>1 DEF Reset, SelfType

(* A step keeps it, whatever fails.                                        *)
LEMMA NewestStep == TypeOK /\ TypeOK' /\ Newest /\ [Next]_vars => Newest'
  <2> SUFFICES ASSUME TypeOK, TypeOK', Newest, [Next]_vars PROVE Newest'
    OBVIOUS
  <2>u. UNCHANGED env /\ 1 \in Threads
    BY EnvFixed, SizesAssumption DEF Threads
  <2>1. CASE HwParams
    BY <2>1, <2>u
    DEF HwParams, Newest, FirstAlone, SecondAlone, First, Second, Before, BeforeReset, StopRest, StartRest,
        StartPcs, Created, ResetPcs, AppGoto, TypeOK, SelfType, CallType
  <2>h. CASE HwBufptr
    BY <2>h, <2>u
    DEF HwBufptr, Newest, FirstAlone, SecondAlone, First, Second, Before, BeforeReset, StopRest, StartRest,
        StartPcs, Created, ResetPcs, AppGoto, TypeOK, SelfType, CallType
  <2>2. CASE Prepare
    BY <2>2, <2>u
    DEF Prepare, Newest, FirstAlone, SecondAlone, First, Second, Before, BeforeReset, StopRest, StartRest,
        StartPcs, Created, ResetPcs, AppGoto, TypeOK, SelfType, CallType
  <2>3. CASE Start
    BY <2>3, <2>u
    DEF Start, Newest, FirstAlone, SecondAlone, First, Second, Before, BeforeReset, StopRest, StartRest,
        StartPcs, Created, ResetPcs, AppGoto, TypeOK, SelfType, CallType
  <2>4. CASE Drop
    BY <2>4, <2>u
    DEF Drop, Newest, FirstAlone, SecondAlone, First, Second, Before, BeforeReset, StopRest, StartRest,
        StartPcs, Created, ResetPcs, AppGoto, TypeOK, SelfType, CallType
  <2>5. CASE Write
    BY <2>5, <2>u
    DEF Write, Newest, FirstAlone, SecondAlone, First, Second, Before, BeforeReset, StopRest, StartRest,
        StartPcs, Created, ResetPcs, AppGoto, TypeOK, SelfType, CallType
  <2>6. CASE Delay
    BY <2>6, <2>u
    DEF Delay, Newest, FirstAlone, SecondAlone, First, Second, Before, BeforeReset, StopRest, StartRest,
        StartPcs, Created, ResetPcs, AppGoto, TypeOK, SelfType, CallType
  <2>7. CASE Close
    BY <2>7, <2>u
    DEF Close, Newest, FirstAlone, SecondAlone, First, Second, Before, BeforeReset, StopRest, StartRest,
        StartPcs, Created, ResetPcs, AppGoto, TypeOK, SelfType, CallType
  <2>8. CASE StartIgnored
    <3>1. call.pc = "start" /\ call'.pc \in {"idle", "pointer_lock"} /\ UNCHANGED <<self, thr>>
      BY <2>8 DEF StartIgnored, AppGoto, TypeOK, CallType
    <3>2. QED
      BY <3>1, <2>u, NewestApp DEF StopRest, ResetPcs, StartPcs
  <2>9. CASE StartRefused
    BY <2>9, <2>u
    DEF StartRefused, Newest, FirstAlone, SecondAlone, First, Second, Before, BeforeReset, StopRest, StartRest,
        StartPcs, Created, ResetPcs, AppGoto, TypeOK, SelfType, CallType
  <2>10. CASE StartNewStream
    BY <2>10, <2>u
    DEF StartNewStream, Newest, FirstAlone, SecondAlone, First, Second, Before, BeforeReset, StopRest, StartRest,
        StartPcs, Created, ResetPcs, AppGoto, TypeOK, SelfType, CallType
  <2>11. CASE StartStore
    <3>1. call.pc \in {"start_opened", "start_bufptr", "start_active"} /\ UNCHANGED thr
      BY <2>11 DEF StartStore
    <3>2. self'.thread = self.thread /\ call'.pc \in StartPcs
      BY <2>11 DEF StartStore, AppGoto, StartPcs, TypeOK, SelfType, CallType
    <3>3. call.pc = "start_opened" => self'.opened /\ self'.active = self.active /\ call'.pc = "start_bufptr"
      BY <2>11 DEF StartStore, AppGoto, TypeOK, SelfType, CallType
    <3>4. call.pc = "start_bufptr" => self'.opened = self.opened /\ self'.active = self.active /\ call'.pc = "start_active"
      BY <2>11 DEF StartStore, AppGoto, TypeOK, SelfType, CallType
    <3>5. call.pc = "start_active" => self'.opened = self.opened /\ self'.active /\ call'.pc = "start_create"
      BY <2>11 DEF StartStore, AppGoto, TypeOK, SelfType, CallType
    <3>6. QED
      BY <2>u, <3>1, <3>2, <3>3, <3>4, <3>5
      DEF Newest, FirstAlone, SecondAlone, First, Second, Before, BeforeReset, StartRest, StartPcs,
          StopRest, ResetPcs, Created
  <2>12. CASE StartThread
    <3>1. PICK t \in Threads : /\ thr[t].pc = "none" /\ \A u \in 1 .. t - 1 : thr[u].pc # "none"
                              /\ ThrGoto(t, "top")
                              /\ self' = [self EXCEPT !.thread = t]
      BY <2>12 DEF StartThread
    <3>2. call.pc = "start_create" /\ call'.pc \in {"idle", "pointer_lock"}
      BY <2>12 DEF StartThread, AppGoto, TypeOK, CallType
    <3>3. thr'[t].pc = "top" /\ thr'[t].detached = thr[t].detached /\ \A u \in Threads \ {t} : thr'[u] = thr[u]
      BY <3>1 DEF ThrGoto, TypeOK, ThrType
    <3>4. self'.opened = self.opened /\ self'.active = self.active /\ self'.thread = t
      BY <3>1 DEF TypeOK, SelfType
    <3>5. t = 1 \/ (First /\ t # 1)
      <4>1. t # 1 => 1 \in 1 .. t - 1
        BY SizesAssumption DEF Threads
      <4>2. QED
        BY <3>1, <4>1 DEF First
    <3>6. CASE t = 1
      <4>1. ~First /\ First' /\ Before(1)' /\ Second' = Second
        BY <2>u, <3>1, <3>3, <3>6 DEF First, Second, Before, BeforeReset
      <4>2. Created(2)' => Created(2)
        BY <3>1, <3>3, <3>6 DEF Created
      <4>3. QED
        BY <2>u, <3>1, <3>2, <3>3, <3>4, <3>6, <4>1, <4>2
        DEF Newest, FirstAlone, SecondAlone, StartRest, StartPcs, StopRest, ResetPcs
    <3>7. CASE First /\ t # 1
      <4>1. SUFFICES ASSUME ~env.createFails, Created(2)' PROVE SecondAlone' /\ Second'
        BY <2>u, <3>1, <3>2, <3>3, <3>7 DEF Newest, StopRest, ResetPcs
      <4>2. t = 2
        <5>1. t > 2 => FALSE
          BY <3>3, <4>1 DEF Created
        <5>2. QED
          BY <3>7, <5>1, SizesAssumption DEF Threads
      <4>3. Created(2) /\ ~Second
        BY <3>1, <3>3, <4>1, <4>2 DEF Created, Second
      <4>4. ~Before(1) /\ self.opened
        BY <2>u, <3>2, <4>1, <4>3 DEF Newest, FirstAlone, StartRest, StartPcs
      <4>5. First' /\ ~Before(1)' /\ Before(2)' /\ Second'
        BY <2>u, <3>3, <3>7, <4>2, <4>4 DEF First, Second, Before, BeforeReset
      <4>6. QED
        BY <3>4, <4>4, <4>5 DEF SecondAlone
    <3>8. QED
      BY <3>5, <3>6, <3>7
  <2>13. CASE StartThreadFails
    BY <2>13, <2>u
    DEF StartThreadFails, Newest, FirstAlone, SecondAlone, First, Second, Before, BeforeReset, StopRest, StartRest,
        StartPcs, Created, ResetPcs, AppGoto, TypeOK, SelfType, CallType
  <2>14. CASE StopTest
    BY <2>14, <2>u
    DEF StopTest, Newest, FirstAlone, SecondAlone, First, Second, Before, BeforeReset, StopRest, StartRest,
        StartPcs, Created, ResetPcs, AppGoto, TypeOK, SelfType, CallType
  <2>15. CASE StopClear
    BY <2>15, <2>u
    DEF StopClear, Newest, FirstAlone, SecondAlone, First, Second, Before, BeforeReset, StopRest, StartRest,
        StartPcs, Created, ResetPcs, AppGoto, TypeOK, SelfType, CallType
  <2>16. CASE StopSignal
    BY <2>16, <2>u
    DEF StopSignal, Newest, FirstAlone, SecondAlone, First, Second, Before, BeforeReset, StopRest, StartRest,
        StartPcs, Created, ResetPcs, AppGoto, TypeOK, SelfType, CallType
  <2>17. CASE StopJoin
    <3>1. call.pc = "stop_join" /\ call'.pc = "reset" /\ UNCHANGED <<self, thr>>
      BY <2>17 DEF StopJoin, AppGoto, TypeOK, CallType
    <3>2. ~self.active
      BY <3>1 DEF Newest, StopRest
    <3>3. Before(1) => ~(self.thread = 1 /\ ~thr[1].detached)
      BY <2>17, <2>u DEF StopJoin, Joined, Before, BeforeReset
    <3>4. QED
      BY <2>u, <3>1, <3>2, <3>3
      DEF Newest, FirstAlone, SecondAlone, First, Second, Before, BeforeReset, StartRest, StartPcs,
          StopRest, ResetPcs, Created
  <2>18. CASE StopReset
    <3>1. PICK q \in ResetPcs \cup {"reset_done"} : Reset(call.pc, q) /\ AppGoto(q)
      BY <2>18 DEF StopReset
    <3>2. call.pc \in ResetPcs /\ call'.pc \in StopRest /\ UNCHANGED thr
      BY <2>18, <3>1 DEF StopReset, Reset, AppGoto, ResetPcs, StopRest, TypeOK, CallType
    <3>3. ~self.active /\ ~self'.active
      BY <3>1, <3>2, ResetActiveOnly DEF Newest, StopRest, TypeOK
    <3>4. QED
      BY <2>u, <3>2, <3>3
      DEF Newest, FirstAlone, SecondAlone, First, Second, Before, BeforeReset, StartRest, StartPcs,
          StopRest, ResetPcs, Created
  <2>19. CASE StopReturn
    BY <2>19, <2>u
    DEF StopReturn, Newest, FirstAlone, SecondAlone, First, Second, Before, BeforeReset, StopRest, StartRest,
        StartPcs, Created, ResetPcs, AppGoto, TypeOK, SelfType, CallType
  <2>20. CASE Pointer
    <3>1. call.pc = "pointer" /\ call'.pc \in {"stop", "pointer_lock"}
      BY <2>20 DEF Pointer, AppGoto, TypeOK, CallType
    <3>2. UNCHANGED <<self, thr, env>>
      BY <2>20 DEF Pointer, counts
    <3>3. QED
      BY <3>1, <3>2, NewestApp DEF StopRest, ResetPcs, StartPcs
  <2>21. CASE PointerLocked
    <3>1. call.pc = "pointer_lock" /\ call'.pc \in {"idle", "write"} /\ UNCHANGED <<thr, env>>
      BY <2>21 DEF PointerLocked, TypeOK, CallType, counts
    <3>2. self'.opened = self.opened /\ self'.active = self.active /\ self'.thread = self.thread
      BY <2>21 DEF PointerLocked, TypeOK, SelfType
    <3>3. QED
      BY <3>1, <3>2, NewestApp DEF StopRest, ResetPcs, StartPcs
  <2>22. CASE WriteTest
    <3>1. call.pc = "write" /\ call'.pc \in {"idle", "write_room"} /\ UNCHANGED <<self, thr>>
      BY <2>22 DEF WriteTest, TransferReturns, AppGoto, TypeOK, CallType
    <3>2. QED
      BY <3>1, <2>u, NewestApp DEF StopRest, ResetPcs, StartPcs
  <2>23. CASE WriteRoom
    BY <2>23, <2>u
    DEF WriteRoom, Newest, FirstAlone, SecondAlone, First, Second, Before, BeforeReset, StopRest, StartRest,
        StartPcs, Created, ResetPcs, AppGoto, TypeOK, SelfType, CallType
  <2>24. CASE WriteFull
    BY <2>24, <2>u
    DEF WriteFull, Newest, FirstAlone, SecondAlone, First, Second, Before, BeforeReset, StopRest, StartRest,
        StartPcs, Created, ResetPcs, AppGoto, TypeOK, SelfType, CallType
  <2>25. CASE WriteWait
    BY <2>25, <2>u
    DEF WriteWait, Newest, FirstAlone, SecondAlone, First, Second, Before, BeforeReset, StopRest, StartRest,
        StartPcs, Created, ResetPcs, AppGoto, TypeOK, SelfType, CallType
  <2>26. CASE WriteAwake
    BY <2>26, <2>u
    DEF WriteAwake, Newest, FirstAlone, SecondAlone, First, Second, Before, BeforeReset, StopRest, StartRest,
        StartPcs, Created, ResetPcs, AppGoto, TypeOK, SelfType, CallType
  <2>27. CASE WriteCopy
    BY <2>27, <2>u
    DEF WriteCopy, Newest, FirstAlone, SecondAlone, First, Second, Before, BeforeReset, StopRest, StartRest,
        StartPcs, Created, ResetPcs, AppGoto, TypeOK, SelfType, CallType
  <2>28. CASE WriteLoad
    BY <2>28, <2>u
    DEF WriteLoad, Newest, FirstAlone, SecondAlone, First, Second, Before, BeforeReset, StopRest, StartRest,
        StartPcs, Created, ResetPcs, AppGoto, TypeOK, SelfType, CallType
  <2>29. CASE WriteStore
    BY <2>29, <2>u
    DEF WriteStore, Newest, FirstAlone, SecondAlone, First, Second, Before, BeforeReset, StopRest, StartRest,
        StartPcs, Created, ResetPcs, AppGoto, TypeOK, SelfType, CallType
  <2>30. CASE WriteSignal
    <3>1. call.pc = "write_signal" /\ call'.pc = "idle" /\ UNCHANGED <<self, thr>>
      BY <2>30 DEF WriteSignal, TransferReturns, TypeOK, CallType
    <3>2. QED
      BY <3>1, <2>u, NewestApp DEF StopRest, ResetPcs, StartPcs
  <2>31. CASE Spurious
    BY <2>31, <2>u
    DEF Spurious, Newest, FirstAlone, SecondAlone, First, Second, Before, BeforeReset, StopRest, StartRest,
        StartPcs, Created, ResetPcs, AppGoto, TypeOK, SelfType, CallType
  <2>32. ASSUME NEW t \in Threads, ThreadTest(t) PROVE Newest'
    <3>1. thr[t].pc = "top" /\ thr'[t].pc \in {"check", "quit"} /\ thr'[t].detached = thr[t].detached
      BY <2>32 DEF ThreadTest, ThrGoto, TypeOK, ThrType
    <3>2. (\A u \in Threads \ {t} : thr'[u] = thr[u]) /\ UNCHANGED call
      BY <2>32 DEF ThreadTest, ThrGoto, TypeOK, ThrType
    <3>3. self'.opened = self.opened /\ self'.active = self.active /\ self'.thread = self.thread
      BY <2>32 DEF ThreadTest, TypeOK, SelfType
    <3>4. QED
      BY <2>u, <3>1, <3>2, <3>3, NewestThread DEF Before, BeforeReset
  <2>33. ASSUME NEW t \in Threads, ThreadCheck(t) PROVE Newest'
    <3>1. thr[t].pc = "check" /\ thr'[t].pc \in {"vio_write", "quit"} /\ thr'[t].detached = thr[t].detached
      BY <2>33 DEF ThreadCheck, ThrGoto, TypeOK, ThrType
    <3>2. (\A u \in Threads \ {t} : thr'[u] = thr[u]) /\ UNCHANGED call
      BY <2>33 DEF ThreadCheck, ThrGoto, TypeOK, ThrType
    <3>3. self'.opened = self.opened /\ self'.active = self.active /\ self'.thread = self.thread
      BY <2>33 DEF ThreadCheck, TypeOK, SelfType
    <3>4. QED
      BY <2>u, <3>1, <3>2, <3>3, NewestThread DEF Before, BeforeReset
  <2>34. ASSUME NEW t \in Threads, ThreadWrite(t) PROVE Newest'
    <3>1. \/ \E n \in 1 .. Chunk : thr' = [thr EXCEPT ![t].rc = n, ![t].pc = "mark"]
          \/ thr' = [thr EXCEPT ![t].pc = "cancel"]
      BY <2>34 DEF ThreadWrite, ThrGoto
    <3>2. thr[t].pc = "vio_write" /\ UNCHANGED <<self, call>>
      BY <2>34 DEF ThreadWrite
    <3>3. /\ thr'[t].pc \in {"mark", "cancel"} /\ thr'[t].detached = thr[t].detached
          /\ \A u \in Threads \ {t} : thr'[u] = thr[u]
      <4>1. CASE \E n \in 1 .. Chunk : thr' = [thr EXCEPT ![t].rc = n, ![t].pc = "mark"]
        <5>1. PICK n \in 1 .. Chunk : thr' = [thr EXCEPT ![t].rc = n, ![t].pc = "mark"]
          BY <4>1
        <5>2. QED
          BY <5>1 DEF TypeOK, ThrType
      <4>2. CASE thr' = [thr EXCEPT ![t].pc = "cancel"]
        BY <4>2 DEF TypeOK, ThrType
      <4>3. QED
        BY <3>1, <4>1, <4>2
    <3>4. QED
      BY <2>u, <3>2, <3>3, NewestThread DEF Before, BeforeReset
  <2>35. ASSUME NEW t \in Threads, ThreadMark(t) PROVE Newest'
    <3>1. thr[t].pc = "mark" /\ thr'[t].pc \in {"total"} /\ thr'[t].detached = thr[t].detached
      BY <2>35 DEF ThreadMark, ThrGoto, TypeOK, ThrType
    <3>2. (\A u \in Threads \ {t} : thr'[u] = thr[u]) /\ UNCHANGED call
      BY <2>35 DEF ThreadMark, ThrGoto, TypeOK, ThrType
    <3>3. self'.opened = self.opened /\ self'.active = self.active /\ self'.thread = self.thread
      BY <2>35 DEF ThreadMark, TypeOK, SelfType
    <3>4. QED
      BY <2>u, <3>1, <3>2, <3>3, NewestThread DEF Before, BeforeReset
  <2>36. ASSUME NEW t \in Threads, ThreadTotal(t) PROVE Newest'
    <3>1. thr[t].pc = "total" /\ thr'[t].pc \in {"move"} /\ thr'[t].detached = thr[t].detached
      BY <2>36 DEF ThreadTotal, ThrGoto, TypeOK, ThrType
    <3>2. (\A u \in Threads \ {t} : thr'[u] = thr[u]) /\ UNCHANGED call
      BY <2>36 DEF ThreadTotal, ThrGoto, TypeOK, ThrType
    <3>3. self'.opened = self.opened /\ self'.active = self.active /\ self'.thread = self.thread
      BY <2>36 DEF ThreadTotal, TypeOK, SelfType
    <3>4. QED
      BY <2>u, <3>1, <3>2, <3>3, NewestThread DEF Before, BeforeReset
  <2>37. ASSUME NEW t \in Threads, ThreadMove(t) PROVE Newest'
    <3>1. thr[t].pc = "move" /\ thr'[t].pc \in {"load"} /\ thr'[t].detached = thr[t].detached
      BY <2>37 DEF ThreadMove, ThrGoto, TypeOK, ThrType
    <3>2. (\A u \in Threads \ {t} : thr'[u] = thr[u]) /\ UNCHANGED call
      BY <2>37 DEF ThreadMove, ThrGoto, TypeOK, ThrType
    <3>3. self'.opened = self.opened /\ self'.active = self.active /\ self'.thread = self.thread
      BY <2>37 DEF ThreadMove, TypeOK, SelfType
    <3>4. QED
      BY <2>u, <3>1, <3>2, <3>3, NewestThread DEF Before, BeforeReset
  <2>38. ASSUME NEW t \in Threads, ThreadLoad(t) PROVE Newest'
    <3>1. thr[t].pc = "load" /\ thr'[t].pc \in {"store"} /\ thr'[t].detached = thr[t].detached
      BY <2>38 DEF ThreadLoad, ThrGoto, TypeOK, ThrType
    <3>2. (\A u \in Threads \ {t} : thr'[u] = thr[u]) /\ UNCHANGED call
      BY <2>38 DEF ThreadLoad, ThrGoto, TypeOK, ThrType
    <3>3. self'.opened = self.opened /\ self'.active = self.active /\ self'.thread = self.thread
      BY <2>38 DEF ThreadLoad, TypeOK, SelfType
    <3>4. QED
      BY <2>u, <3>1, <3>2, <3>3, NewestThread DEF Before, BeforeReset
  <2>39. ASSUME NEW t \in Threads, ThreadStore(t) PROVE Newest'
    <3>1. thr[t].pc = "store" /\ thr'[t].pc \in {"signal"} /\ thr'[t].detached = thr[t].detached
      BY <2>39 DEF ThreadStore, ThrGoto, TypeOK, ThrType
    <3>2. (\A u \in Threads \ {t} : thr'[u] = thr[u]) /\ UNCHANGED call
      BY <2>39 DEF ThreadStore, ThrGoto, TypeOK, ThrType
    <3>3. self'.opened = self.opened /\ self'.active = self.active /\ self'.thread = self.thread
      BY <2>39 DEF ThreadStore, TypeOK, SelfType
    <3>4. QED
      BY <2>u, <3>1, <3>2, <3>3, NewestThread DEF Before, BeforeReset
  <2>40. ASSUME NEW t \in Threads, ThreadSignal(t) PROVE Newest'
    <3>1. thr[t].pc \in {"signal", "quit"} /\ thr'[t].detached = thr[t].detached
      BY <2>40 DEF ThreadSignal, ThrGoto, TypeOK, ThrType
    <3>2. thr'[t].pc \in {"top", "wait"} \/ (thr'[t].pc = "exited" /\ ~self.active)
      BY <2>40 DEF ThreadSignal, ThrGoto, TypeOK, ThrType
    <3>3. (\A u \in Threads \ {t} : thr'[u] = thr[u]) /\ UNCHANGED <<self, call>>
      BY <2>40 DEF ThreadSignal, ThrGoto, TypeOK, ThrType
    <3>4. QED
      BY <2>u, <3>1, <3>2, <3>3, NewestThread DEF Before, BeforeReset
  <2>41. ASSUME NEW t \in Threads, ThreadWait(t) PROVE Newest'
    <3>1. thr[t].pc = "wait" /\ thr'[t].pc \in {"asleep"} /\ thr'[t].detached = thr[t].detached
      BY <2>41 DEF ThreadWait, ThrGoto, TypeOK, ThrType
    <3>2. (\A u \in Threads \ {t} : thr'[u] = thr[u]) /\ UNCHANGED call
      BY <2>41 DEF ThreadWait, ThrGoto, TypeOK, ThrType
    <3>3. self'.opened = self.opened /\ self'.active = self.active /\ self'.thread = self.thread
      BY <2>41 DEF ThreadWait, TypeOK, SelfType
    <3>4. QED
      BY <2>u, <3>1, <3>2, <3>3, NewestThread DEF Before, BeforeReset
  <2>42. ASSUME NEW t \in Threads, ThreadAwake(t) PROVE Newest'
    <3>1. thr[t].pc = "asleep" /\ thr'[t].pc \in {"top"} /\ thr'[t].detached = thr[t].detached
      BY <2>42 DEF ThreadAwake, ThrGoto, TypeOK, ThrType
    <3>2. (\A u \in Threads \ {t} : thr'[u] = thr[u]) /\ UNCHANGED call
      BY <2>42 DEF ThreadAwake, ThrGoto, TypeOK, ThrType
    <3>3. self'.opened = self.opened /\ self'.active = self.active /\ self'.thread = self.thread
      BY <2>42 DEF ThreadAwake, TypeOK, SelfType
    <3>4. QED
      BY <2>u, <3>1, <3>2, <3>3, NewestThread DEF Before, BeforeReset
  <2>43. ASSUME NEW t \in Threads, ThreadCancelTest(t) PROVE Newest'
    <3>1. thr[t].pc = "cancel" /\ thr'[t].pc \in {"reset", "quit"} /\ thr'[t].detached = thr[t].detached
      BY <2>43 DEF ThreadCancelTest, ThrGoto, TypeOK, ThrType
    <3>2. (\A u \in Threads \ {t} : thr'[u] = thr[u]) /\ UNCHANGED call
      BY <2>43 DEF ThreadCancelTest, ThrGoto, TypeOK, ThrType
    <3>3. self'.opened = self.opened /\ self'.active = self.active /\ self'.thread = self.thread
      BY <2>43 DEF ThreadCancelTest, TypeOK, SelfType
    <3>4. QED
      BY <2>u, <3>1, <3>2, <3>3, NewestThread DEF Before, BeforeReset
  <2>44. ASSUME NEW t \in Threads, ThreadReset(t) PROVE Newest'
    <3>1. PICK q \in ResetPcs \cup {"reset_done"} : Reset(thr[t].pc, q) /\ ThrGoto(t, q)
      BY <2>44 DEF ThreadReset
    <3>2. thr[t].pc \in ResetPcs /\ thr'[t].pc = q /\ q # "reset"
      BY <3>1 DEF Reset, ThrGoto, ResetPcs, TypeOK, ThrType
    <3>3. (\A u \in Threads \ {t} : thr'[u] = thr[u]) /\ UNCHANGED call
      BY <2>44, <3>1 DEF ThreadReset, ThrGoto
    <3>4. self'.thread = self.thread /\ thr'[t].detached = thr[t].detached
      <4>1. self'.thread = self.thread
        BY <3>1, ResetThread DEF TypeOK
      <4>2. QED
        BY <3>1, <4>1 DEF ThrGoto, TypeOK, ThrType
    <3>5. /\ thr[t].pc = "reset" => self'.opened = self.opened /\ self'.active = self.active
          /\ thr[t].pc = "reset" /\ self.opened => q = "reset_opened"
      BY <3>1 DEF Reset
    <3>6. thr[t].pc = "reset_opened" => q = "reset_active" /\ self'.active = self.active
      BY <3>1 DEF Reset, TypeOK, SelfType
    <3>7. thr[t].pc = "reset_active" => ~self'.active /\ self'.opened = self.opened
      BY <3>1 DEF Reset, ResetActive, TypeOK, SelfType
    <3>8. thr[t].pc \in {"reset_bufptr", "reset_rest"} => self'.active = self.active /\ self'.opened = self.opened
      BY <3>1 DEF Reset, ResetRest, TypeOK, SelfType
    <3>9. thr[t].pc \in {"reset_active", "reset_bufptr", "reset_rest"} => q \in {"reset_bufptr", "reset_rest", "reset_done"}
      BY <3>1 DEF Reset
    <3>10. (self'.active => self.active) /\ self'.active \in BOOLEAN /\ self.active \in BOOLEAN
      BY <3>2, <3>5, <3>6, <3>7, <3>8 DEF ResetPcs, TypeOK, SelfType
    <3>11. Created(2)' => Created(2)
      BY <3>2, <3>3 DEF Created, ResetPcs
    <3>12. First' = First /\ Second' = Second /\ (t = 1 => First) /\ (t = 2 => Second)
      BY <2>u, <3>2, <3>3 DEF First, Second, ResetPcs
    <3>13. ~env.createFails /\ Created(2) /\ ~Second => FirstAlone'
      <4> SUFFICES ASSUME ~env.createFails, Created(2), ~Second PROVE FirstAlone'
        OBVIOUS
      <4>1. t = 1
        BY <3>2, <3>12 DEF Created, Threads, ResetPcs
      <4>2. FirstAlone /\ First /\ First'
        BY <3>12, <4>1 DEF Newest
      <4>3. CASE thr[t].pc = "reset"
        BY <3>2, <3>3, <3>4, <3>5, <4>1, <4>2, <4>3 DEF FirstAlone, Before, BeforeReset, StartRest, StartPcs
      <4>4. CASE thr[t].pc = "reset_opened"
        BY <3>2, <3>3, <3>4, <3>6, <4>1, <4>2, <4>4 DEF FirstAlone, Before, BeforeReset, StartRest, StartPcs
      <4>5. CASE thr[t].pc \in {"reset_active", "reset_bufptr", "reset_rest"}
        BY <3>2, <3>3, <3>4, <3>7, <3>8, <3>9, <4>1, <4>2, <4>5 DEF FirstAlone, Before, BeforeReset, StartRest, StartPcs
      <4>6. QED
        BY <3>2, <4>3, <4>4, <4>5 DEF ResetPcs
    <3>14. ~env.createFails /\ Created(2) /\ Second => SecondAlone'
      <4> SUFFICES ASSUME ~env.createFails, Created(2), Second PROVE SecondAlone'
        OBVIOUS
      <4>1. t = 1 \/ t = 2
        BY <3>2 DEF Created, Threads, ResetPcs
      <4>2. SecondAlone /\ First'
        BY <3>12 DEF Newest, SecondAlone
      <4>3. CASE t = 1
        BY <3>2, <3>3, <3>6, <3>7, <3>8, <3>9, <3>10, <4>2, <4>3 DEF SecondAlone, Second, Before, BeforeReset, ResetPcs
      <4>4. CASE t = 2
        <5>1. ~Before(1)'
          BY <2>u, <3>3, <4>2, <4>4 DEF SecondAlone, Before
        <5>2. QED
          BY <3>2, <3>3, <3>5, <3>6, <3>7, <3>8, <3>9, <3>10, <4>2, <4>4, <5>1 DEF SecondAlone, Before, BeforeReset, ResetPcs
      <4>5. QED
        BY <4>1, <4>3, <4>4
    <3>15. QED
      BY <2>u, <3>2, <3>3, <3>10, <3>11, <3>12, <3>13, <3>14 DEF Newest, ResetPcs
  <2>45. ASSUME NEW t \in Threads, ThreadFailSignal(t) PROVE Newest'
    <3>1. thr[t].pc = "reset_done" /\ thr'[t].pc = "detach" /\ UNCHANGED <<self, call>>
      BY <2>45 DEF ThreadFailSignal, ThrGoto, TypeOK, ThrType
    <3>2. \A u \in Threads \ {t} : thr'[u] = thr[u]
      BY <2>45 DEF ThreadFailSignal, ThrGoto, TypeOK, ThrType
    <3>3. QED
      BY <2>u, <3>1, <3>2
      DEF Newest, FirstAlone, SecondAlone, First, Second, Before, BeforeReset, StartRest, Created
  <2>46. ASSUME NEW t \in Threads, ThreadDetach(t) PROVE Newest'
    <3>1. thr[t].pc = "detach" /\ thr'[t].pc = "exited" /\ UNCHANGED <<self, call>>
      BY <2>46 DEF ThreadDetach, TypeOK, ThrType
    <3>2. \A u \in Threads \ {t} : thr'[u] = thr[u]
      BY <2>46 DEF ThreadDetach, TypeOK, ThrType
    <3>3. QED
      BY <2>u, <3>1, <3>2
      DEF Newest, FirstAlone, SecondAlone, First, Second, Before, BeforeReset, StartRest, Created
  <2>47. CASE UNCHANGED vars
    BY <2>47 DEF vars, Newest, FirstAlone, SecondAlone, First, Second, Before, Created, counts
  <2>48. QED
    BY <2>h, <2>1, <2>2, <2>3, <2>4, <2>5, <2>6, <2>7, <2>8, <2>9, <2>10, <2>11,
       <2>12, <2>13, <2>14, <2>15, <2>16, <2>17, <2>18, <2>19, <2>20, <2>21, <2>22,
       <2>23, <2>24, <2>25, <2>26, <2>27, <2>28, <2>29, <2>30, <2>31, <2>32, <2>33,
       <2>34, <2>35, <2>36, <2>37, <2>38, <2>39, <2>40, <2>41, <2>42, <2>43, <2>44,
       <2>45, <2>46, <2>47
    DEF Next, AppCall, AppStep, ThreadStep

(* The first and the second thread are the only ones that matter here.     *)
LEMMA NewestAlways == Spec => []Newest
<1>1. Init => Newest
  BY SizesAssumption DEF Init, Newest, FirstAlone, First, Second, Before, BeforeReset, StopRest,
     StartRest, ResetPcs, Threads
<1>2. QED
  BY <1>1, NewestStep, TypeCorrect, PTL DEF Spec

-----------------------------------------------------------------------------
(* Where roar_vio_write does not fail.                                     *)
WritePcs ==
  {"write", "write_room", "write_full", "write_wait", "write_asleep", "write_copy",
   "write_load", "write_store", "write_signal"}
StopPcs == {"stop", "stop_clear", "stop_signal", "stop_join", "reset_done"} \cup ResetPcs
HalfReset == {"reset_active", "reset_bufptr", "reset_rest"}

(* A stream alsa-lib has prepared is open, and one that is open accepts    *)
(* data and is drained; what a transfer hands over is not empty.           *)
Serving ==
  /\ self.opened =>
       self.active \/ call.pc \in {"start_bufptr", "start_active", "stop_signal", "stop_join"} \cup ResetPcs
  /\ call.pc \in WritePcs \cup {"pointer", "pointer_lock"} => self.opened
  /\ call.pc \in {"idle", "hw_bufptr"} /\ io.state \in {"prepared", "running", "xrun"} => self.opened
  /\ call.pc = "hw_bufptr" /\ self.opened => env.rehw
  /\ call.pc \in StopPcs /\ call.ret = "idle" => io.state = "setup"
  /\ call.pc \in WritePcs => call.size >= 1
  /\ self.active /\ ~env.createFails => call.pc = "start_create" \/ \E t \in Threads : Live(t)

(* A new stream starts from nothing.                                       *)
Fresh ==
  /\ ~self.opened /\ call.pc \notin HalfReset => self.total = 0
  /\ call.pc \in StartPcs => self.total = 0 /\ entered = 0 /\ server = <<>>
  /\ call.pc \in {"start_active", "start_create"} => self.bufptr = 0
  /\ call.pc \in HalfReset => ~self.opened

(* What roar_pcm_transfer reports is what entered, but for the units of a  *)
(* transfer that is about to return.                                       *)
Told == accepted + (IF call.pc = "write_signal" THEN call.size ELSE 0) = entered

(* The stream is open and its FIFO is that stream's; the units copied but  *)
(* not counted yet; the thread has moved the FIFO but not counted that.    *)
Streams == ~env.rehw /\ self.opened /\ call.pc # "start_bufptr"
Copied == IF call.pc \in {"write_load", "write_store"} THEN call.size ELSE 0
Moved(t) == thr[t].pc \in {"load", "store"}

(* total_written follows what libroar took.                                *)
Totals ==
  Streams =>
    /\ self.total <= Len(server)
    /\ \A t \in Threads : thr[t].pc \in {"mark", "total"} => self.total + thr[t].rc <= Len(server)

(* What entered is with libroar or in the FIFO, or, for a moment, both.    *)
Counts ==
  Streams =>
    /\ (\A t \in Threads : ~Unstored(t)) => Len(server) = entered - self.bufptr
    /\ \A t \in Threads : Unstored(t) => Len(server) = entered - self.bufptr + thr[t].rc

(* The FIFO holds the last units that entered, in order.                   *)
Contents ==
  Streams =>
    /\ (\A t \in Threads : ~Moved(t)) =>
         \A i \in 0 .. self.bufptr + Copied - 1 : buffer[i] = entered - self.bufptr + 1 + i
    /\ \A t \in Threads : Moved(t) =>
         \A i \in 0 .. self.bufptr - thr[t].rc - 1 :
           buffer[i] = entered - self.bufptr + thr[t].rc + 1 + i

(* libroar got the units from the first on.                                *)
Received == ~env.rehw => \A i \in 1 .. Len(server) : server[i] = i

FifoInv ==
  Serving /\ Fresh /\ Told /\ Totals /\ Counts /\ Contents /\ Received
Flow == Totals /\ Counts /\ Contents /\ Received
SelfKept ==
  /\ self'.opened = self.opened /\ self'.active = self.active
  /\ self'.bufptr = self.bufptr /\ self'.total = self.total

(* A step that touches neither end of the FIFO.                            *)
LEMMA FlowApp ==
  ASSUME Flow, UNCHANGED <<buffer, server, entered, thr, env>>,
         self'.opened = self.opened, self'.bufptr = self.bufptr, self'.total = self.total,
         Copied' = Copied, Streams' => Streams
  PROVE  Flow'
  BY DEF Flow, Totals, Counts, Contents, Received, Unstored, Moved

LEMMA FlowThread ==
  ASSUME Flow, UNCHANGED <<buffer, server, entered, call, env>>,
         self'.opened = self.opened, self'.bufptr = self.bufptr, self'.total = self.total,
         NEW t \in Threads, \A u \in Threads \ {t} : thr'[u] = thr[u],
         thr'[t].rc = thr[t].rc, Unstored(t)' <=> Unstored(t), Moved(t)' <=> Moved(t),
         thr'[t].pc \in {"mark", "total"} => thr[t].pc \in {"mark", "total"}
  PROVE  Flow'
<1>1. Copied' = Copied /\ (Streams' <=> Streams)
  BY DEF Copied, Streams
<1>2. \A u \in Threads : /\ thr'[u].rc = thr[u].rc /\ (Unstored(u)' <=> Unstored(u)) /\ (Moved(u)' <=> Moved(u))
                          /\ thr'[u].pc \in {"mark", "total"} => thr[u].pc \in {"mark", "total"}
  BY DEF Unstored, Moved
<1>3. Totals'
  BY <1>1, <1>2 DEF Flow, Totals
<1>4. Counts'
  BY <1>1, <1>2 DEF Flow, Counts, Unstored
<1>5. Contents'
  BY <1>1, <1>2 DEF Flow, Contents, Moved
<1>6. Received'
  BY DEF Flow, Received
<1>7. QED
  BY <1>3, <1>4, <1>5, <1>6 DEF Flow

(* The accounts of a stream that is not open, or about to be emptied.      *)
LEMMA FlowClosed ==
  ASSUME ~Streams', UNCHANGED <<server, env>>, Received PROVE Flow'
  BY DEF Flow, Totals, Counts, Contents, Received

(* Nothing is claimed where hw_params may empty the FIFO.                  *)
LEMMA FlowFree ==
  ASSUME env.rehw, UNCHANGED env PROVE Flow'
  BY DEF Flow, Totals, Counts, Contents, Received, Streams

(* The next n units after the first k.                                     *)
Sent(n, k) == [i \in 1 .. n |-> k + i]

LEMMA SentKeepsOrder ==
  ASSUME NEW s \in Seq(Int), NEW n \in Nat, \A i \in 1 .. Len(s) : s[i] = i,
         NEW r, r = s \o Sent(n, Len(s))
  PROVE  \A i \in 1 .. Len(r) : r[i] = i
<1>1. Sent(n, Len(s)) \in Seq(Int) /\ Len(Sent(n, Len(s))) = n /\ \A i \in 1 .. n : Sent(n, Len(s))[i] = Len(s) + i
  BY DEF Sent
<1> HIDE DEF Sent
<1>2. QED
  BY <1>1

(* Steps that move between a few program counters.                         *)
LEMMA ServingApp ==
  ASSUME Serving, Fresh, Told, UNCHANGED <<thr, env, server, entered, accepted>>, SelfKept,
         io'.state = io.state, call'.size = call.size,
         call.pc \in WritePcs \ {"write_signal"}, call'.pc \in WritePcs \ {"write_signal"}
  PROVE  Serving' /\ Fresh' /\ Told'
<1>1. Serving'
  BY DEF Serving, SelfKept, WritePcs, StopPcs, ResetPcs, Live
<1>2. Fresh'
  BY DEF Fresh, SelfKept, WritePcs, HalfReset, StartPcs
<1>3. Told'
  BY DEF Told
<1>4. QED
  BY <1>1, <1>2, <1>3

LEMMA ServingThread ==
  ASSUME Serving, Fresh, Told, UNCHANGED <<call, io, env, entered, accepted>>,
         self'.opened = self.opened, self'.active = self.active, self'.bufptr = self.bufptr \/ call.pc \notin StartPcs,
         self'.total = self.total \/ (self.opened /\ call.pc \notin StartPcs), server' = server \/ call.pc \notin StartPcs,
         NEW t \in Threads, \A u \in Threads \ {t} : thr'[u] = thr[u],
         Live(t)' \/ ~self.active
  PROVE  Serving' /\ Fresh' /\ Told'
<1>1. Serving'
  <2>1. self'.active /\ ~env'.createFails => call'.pc = "start_create" \/ \E u \in Threads : Live(u)'
    BY DEF Serving, Live
  <2>2. QED
    BY <2>1 DEF Serving
<1>2. Fresh'
  BY DEF Fresh, StartPcs
<1>3. Told'
  BY DEF Told
<1>4. QED
  BY <1>1, <1>2, <1>3

(* What the thread hands to roar_vio_write is what the server lacks first. *)
LEMMA NextSent ==
  ASSUME Unfailing, TypeOK, AllInv, FifoInv, ~env.rehw, NEW t \in Threads, ThreadWrite(t)
  PROVE  /\ Len(server) = entered - self.bufptr
         /\ \E n \in 1 .. Chunk :
              /\ n <= self.bufptr /\ thr' = [thr EXCEPT ![t].rc = n, ![t].pc = "mark"]
              /\ server' = server \o Sent(n, Len(server))
<1>1. thr[t].pc = "vio_write" /\ ThreadInv(t) /\ Live(t)
  BY DEF ThreadWrite, AllInv, Live
<1>2. Streams /\ \A u \in Threads \ {t} : ~Unstored(u) /\ ~Moved(u)
  BY <1>1 DEF AllInv, ThreadInv, QuietStart, QuietPcs, Streams, StartPcs, Live, Unstored, Moved
<1>3. vio /\ self.bufptr >= Chunk
  BY <1>1 DEF ThreadInv
<1>4. PICK n \in 1 .. Chunk : /\ thr' = [thr EXCEPT ![t].rc = n, ![t].pc = "mark"]
                             /\ server' = server \o [i \in 1 .. n |-> buffer[i - 1]]
  <2>1. ~(env.vioFails /\ ThrGoto(t, "cancel"))
    BY FailsAtCancel
  <2>2. QED
    BY <1>3, <2>1 DEF ThreadWrite
<1>5. /\ Len(server) = entered - self.bufptr
      /\ \A i \in 0 .. self.bufptr + Copied - 1 : buffer[i] = entered - self.bufptr + 1 + i
  BY <1>1, <1>2 DEF FifoInv, Counts, Contents, Unstored, Moved
<1>6. self.bufptr \in Nat /\ Chunk \in Nat /\ entered \in Nat /\ Copied \in Nat
  BY SizesAssumption DEF TypeOK, SelfType, SizeTs, Copied, CallType
<1>7. n <= self.bufptr
  BY <1>3, <1>6
<1>8. \A i \in 1 .. n : buffer[i - 1] = Len(server) + i
  <2>1. SUFFICES ASSUME NEW i \in 1 .. n PROVE buffer[i - 1] = Len(server) + i
    OBVIOUS
  <2>2. i - 1 \in 0 .. self.bufptr + Copied - 1
    BY <1>6, <1>7
  <2>3. buffer[i - 1] = entered - self.bufptr + 1 + (i - 1)
    BY <1>5, <2>2
  <2>4. QED
    BY <1>5, <1>6, <2>3
<1>9. [i \in 1 .. n |-> buffer[i - 1]] = Sent(n, Len(server))
  BY <1>8 DEF Sent
<1>10. QED
  BY <1>4, <1>5, <1>7, <1>9

(* A step keeps the accounts.                                              *)
LEMMA FifoStep ==
  Unfailing /\ ~StartRefused /\ TypeOK /\ TypeOK' /\ AllInv /\ FifoInv /\ [Next]_vars => FifoInv'
  <2> SUFFICES ASSUME Unfailing, ~StartRefused, TypeOK, TypeOK', AllInv, FifoInv, [Next]_vars PROVE FifoInv'
    OBVIOUS
  <2>u. UNCHANGED env
    BY EnvFixed
  <2>1. CASE HwParams
    <3>1. /\ call.pc = "idle" /\ call'.pc = "hw_bufptr" /\ call'.ret = call.ret
          /\ io'.state = (IF io.state = "open" THEN "setup" ELSE io.state)
          /\ UNCHANGED <<thr, server, entered, accepted>>
      BY <2>1 DEF HwParams, counts, AppGoto, TypeOK, IoType, CallType
    <3>2. UNCHANGED self /\ (self.opened => env.rehw)
      BY <2>1 DEF HwParams
    <3>3. Serving'
      BY <2>u, <3>1, <3>2 DEF FifoInv, Serving, WritePcs, StopPcs, ResetPcs, Live
    <3>4. Fresh' /\ Told'
      BY <3>1, <3>2 DEF FifoInv, Fresh, Told, HalfReset, StartPcs
    <3>5. Flow'
      BY <2>u, <3>1, <3>2, FlowClosed DEF FifoInv, Streams, Serving
    <3>6. QED
      BY <3>3, <3>4, <3>5 DEF FifoInv, Flow
  <2>h. CASE HwBufptr
    <3>1. call.pc = "hw_bufptr" /\ call'.pc = "idle" /\ call'.ret = call.ret /\ call'.size = call.size
          /\ UNCHANGED <<io, buffer, thr, server, entered, accepted>>
      BY <2>h DEF HwBufptr, counts, AppGoto, TypeOK, CallType
    <3>2. self'.opened = self.opened /\ self'.active = self.active /\ self'.total = self.total
      BY <2>h DEF HwBufptr, TypeOK, SelfType
    <3>3. Serving'
      BY <2>u, <3>1, <3>2 DEF FifoInv, Serving, WritePcs, StopPcs, ResetPcs, Live
    <3>4. Fresh' /\ Told'
      BY <3>1, <3>2 DEF FifoInv, Fresh, Told, HalfReset, StartPcs
    <3>5. Flow'
      BY <2>u, <3>1, <3>2, FlowClosed DEF FifoInv, Streams, Serving
    <3>6. QED
      BY <3>3, <3>4, <3>5 DEF FifoInv, Flow
  <2>2. CASE Prepare
    <3>1. call.pc = "idle" /\ call'.pc \in {"start"} /\ call'.ret = "idle" /\ io'.state = "prepared"
      BY <2>2 DEF Prepare, AppGoto, TypeOK, SelfType, IoType, CallType
    <3>2. SelfKept
      BY <2>2 DEF Prepare, SelfKept
    <3>3. UNCHANGED <<buffer, thr, server, entered, accepted>>
      BY <2>2 DEF Prepare, counts
    <3>4. Serving'
      BY <2>2, <2>u, <3>1, <3>2, <3>3 DEF Prepare, FifoInv, Serving, SelfKept, WritePcs, StopPcs, ResetPcs, Live
    <3>5. Fresh' /\ Told'
      BY <3>1, <3>2, <3>3 DEF FifoInv, Fresh, Told, SelfKept, HalfReset, StartPcs
    <3>6. Copied' = Copied /\ (Streams' => Streams)
      BY <2>u, <3>1, <3>2 DEF Copied, Streams, SelfKept
    <3>7. Flow'
      BY <2>u, <3>2, <3>3, <3>6, FlowApp DEF FifoInv, Flow, SelfKept
    <3>8. QED
      BY <3>4, <3>5, <3>7 DEF FifoInv, Flow
  <2>3. CASE Start
    <3>1. call.pc = "idle" /\ call'.pc \in {"start"} /\ call'.ret = "idle" /\ io'.state = "running"
      BY <2>3 DEF Start, AppGoto, TypeOK, SelfType, IoType, CallType
    <3>2. SelfKept
      BY <2>3 DEF Start, SelfKept
    <3>3. UNCHANGED <<buffer, thr, server, entered, accepted>>
      BY <2>3 DEF Start, counts
    <3>4. Serving'
      BY <2>3, <2>u, <3>1, <3>2, <3>3 DEF Start, FifoInv, Serving, SelfKept, WritePcs, StopPcs, ResetPcs, Live
    <3>5. Fresh' /\ Told'
      BY <3>1, <3>2, <3>3 DEF FifoInv, Fresh, Told, SelfKept, HalfReset, StartPcs
    <3>6. Copied' = Copied /\ (Streams' => Streams)
      BY <2>u, <3>1, <3>2 DEF Copied, Streams, SelfKept
    <3>7. Flow'
      BY <2>u, <3>2, <3>3, <3>6, FlowApp DEF FifoInv, Flow, SelfKept
    <3>8. QED
      BY <3>4, <3>5, <3>7 DEF FifoInv, Flow
  <2>4. CASE Drop
    <3>1. call.pc = "idle" /\ call'.pc \in {"stop"} /\ call'.ret = "idle" /\ io'.state = "setup"
      BY <2>4 DEF Drop, AppGoto, TypeOK, SelfType, IoType, CallType
    <3>2. SelfKept
      BY <2>4 DEF Drop, SelfKept
    <3>3. UNCHANGED <<buffer, thr, server, entered, accepted>>
      BY <2>4 DEF Drop, counts
    <3>4. Serving'
      BY <2>4, <2>u, <3>1, <3>2, <3>3 DEF Drop, FifoInv, Serving, SelfKept, WritePcs, StopPcs, ResetPcs, Live
    <3>5. Fresh' /\ Told'
      BY <3>1, <3>2, <3>3 DEF FifoInv, Fresh, Told, SelfKept, HalfReset, StartPcs
    <3>6. Copied' = Copied /\ (Streams' => Streams)
      BY <2>u, <3>1, <3>2 DEF Copied, Streams, SelfKept
    <3>7. Flow'
      BY <2>u, <3>2, <3>3, <3>6, FlowApp DEF FifoInv, Flow, SelfKept
    <3>8. QED
      BY <3>4, <3>5, <3>7 DEF FifoInv, Flow
  <2>5. CASE Write
    <3>1. call.pc = "idle" /\ call'.pc \in {"pointer"} /\ io'.state = io.state
      BY <2>5 DEF Write, AppGoto, TypeOK, SelfType, IoType, CallType
    <3>2. SelfKept
      BY <2>5 DEF Write, SelfKept
    <3>3. UNCHANGED <<buffer, thr, server, entered, accepted>>
      BY <2>5 DEF Write, counts
    <3>4. Serving'
      BY <2>5, <2>u, <3>1, <3>2, <3>3 DEF Write, FifoInv, Serving, SelfKept, WritePcs, StopPcs, ResetPcs, Live
    <3>5. Fresh' /\ Told'
      BY <3>1, <3>2, <3>3 DEF FifoInv, Fresh, Told, SelfKept, HalfReset, StartPcs
    <3>6. Copied' = Copied /\ (Streams' => Streams)
      BY <2>u, <3>1, <3>2 DEF Copied, Streams, SelfKept
    <3>7. Flow'
      BY <2>u, <3>2, <3>3, <3>6, FlowApp DEF FifoInv, Flow, SelfKept
    <3>8. QED
      BY <3>4, <3>5, <3>7 DEF FifoInv, Flow
  <2>6. CASE Delay
    BY <2>6, <2>u DEF Delay, FifoInv, Serving, Fresh, Told, Totals, Counts, Contents, Received,
      Streams, Copied, Unstored, Moved, Live
  <2>7. CASE Close
    <3>1. call.pc = "idle" /\ io'.state = "closed" /\ UNCHANGED <<self, buffer, call, thr, server, entered, accepted>>
      BY <2>7 DEF Close, counts, TypeOK, SelfType, IoType, CallType
    <3>2. Serving'
      BY <2>u, <3>1 DEF FifoInv, Serving, WritePcs, StopPcs, ResetPcs, Live
    <3>3. Fresh' /\ Told'
      BY <3>1 DEF FifoInv, Fresh, Told
    <3>4. Flow'
      BY <2>u, <3>1, FlowApp DEF FifoInv, Flow, Copied, Streams
    <3>5. QED
      BY <3>2, <3>3, <3>4 DEF FifoInv, Flow
  <2>8. CASE StartIgnored
    <3>1. call.pc = "start" /\ call'.pc \in {"idle", "pointer_lock"} /\ self.opened /\ io'.state = io.state /\ call'.ret = call.ret
      BY <2>8 DEF StartIgnored, AppGoto, TypeOK, SelfType, IoType, CallType
    <3>2. SelfKept
      BY <2>8 DEF StartIgnored, SelfKept
    <3>3. UNCHANGED <<buffer, thr, server, entered, accepted>>
      BY <2>8 DEF StartIgnored, counts
    <3>4. Serving'
      BY <2>8, <2>u, <3>1, <3>2, <3>3 DEF StartIgnored, FifoInv, Serving, SelfKept, WritePcs, StopPcs, ResetPcs, Live
    <3>5. Fresh' /\ Told'
      BY <3>1, <3>2, <3>3 DEF FifoInv, Fresh, Told, SelfKept, HalfReset, StartPcs
    <3>6. Copied' = Copied /\ (Streams' => Streams)
      BY <2>u, <3>1, <3>2 DEF Copied, Streams, SelfKept
    <3>7. Flow'
      BY <2>u, <3>2, <3>3, <3>6, FlowApp DEF FifoInv, Flow, SelfKept
    <3>8. QED
      BY <3>4, <3>5, <3>7 DEF FifoInv, Flow
  <2>9. CASE StartRefused
    BY <2>9
  <2>10. CASE StartNewStream
    <3>1. call.pc = "start" /\ call'.pc = "start_opened" /\ call'.ret = call.ret
      BY <2>10 DEF StartNewStream, AppGoto, TypeOK, SelfType, IoType, CallType
    <3>2. ~self.opened /\ server' = <<>> /\ entered' = 0 /\ accepted' = 0 /\ UNCHANGED <<self, io, thr>>
      BY <2>10 DEF StartNewStream
    <3>3. Serving'
      BY <2>u, <3>1, <3>2 DEF FifoInv, Serving, WritePcs, StopPcs, ResetPcs, Live
    <3>4. Fresh' /\ Told'
      BY <3>1, <3>2 DEF FifoInv, Fresh, Told, HalfReset, StartPcs
    <3>5. Flow'
      BY <2>u, <3>2 DEF Flow, Totals, Counts, Contents, Received, Streams
    <3>6. QED
      BY <3>3, <3>4, <3>5 DEF FifoInv, Flow
  <2>11. CASE StartStore
    <3>1. UNCHANGED <<buffer, io, thr, server, entered, accepted>>
      BY <2>11 DEF StartStore, counts
    <3>2. entered = 0 /\ accepted = 0 /\ server = <<>> /\ \A t \in Threads : ~Live(t)
      <4>1. call.pc \in StartPcs
        BY <2>11 DEF StartStore, StartPcs
      <4>2. accepted = entered
        BY <4>1 DEF FifoInv, Told, StartPcs, TypeOK
      <4>3. QED
        BY <4>1, <4>2 DEF FifoInv, Fresh, AllInv, QuietStart, QuietPcs
    <3>3. \A t \in Threads : ~Unstored(t)' /\ ~Moved(t)' /\ thr'[t].pc \notin {"mark", "total"}
      BY <3>1, <3>2 DEF Live, Unstored, Moved
    <3>4. Received'
      BY <2>u, <3>1, <3>2 DEF Received
    <3>5. CASE call.pc = "start_opened"
      <4>1. call'.pc = "start_bufptr" /\ self'.opened /\ self'.active = self.active /\ self'.total = self.total
        BY <2>11, <3>5 DEF StartStore, AppGoto, TypeOK, SelfType, IoType, CallType
      <4>2. Serving'
        BY <2>u, <3>1, <3>5, <4>1 DEF FifoInv, Serving, WritePcs, StopPcs, ResetPcs, Live
      <4>3. Fresh' /\ Told'
        BY <3>1, <3>2, <3>5, <4>1 DEF FifoInv, Fresh, Told, StartPcs, HalfReset
      <4>4. Flow'
        BY <2>u, <3>4, <4>1 DEF Flow, Totals, Counts, Contents, Streams
      <4>5. QED
        BY <4>2, <4>3, <4>4 DEF FifoInv, Flow
    <3>6. CASE call.pc = "start_bufptr"
      <4>1. call'.pc = "start_active" /\ self'.opened = self.opened /\ self'.active = self.active
            /\ self'.total = self.total /\ self'.bufptr = 0
        BY <2>11, <3>6 DEF StartStore, AppGoto, TypeOK, SelfType, IoType, CallType
      <4>2. Serving'
        BY <2>u, <3>1, <3>6, <4>1 DEF FifoInv, Serving, WritePcs, StopPcs, ResetPcs, Live
      <4>3. Fresh' /\ Told'
        BY <3>1, <3>2, <3>6, <4>1 DEF FifoInv, Fresh, Told, StartPcs, HalfReset
      <4>4. self.total = 0
        BY <3>6 DEF FifoInv, Fresh, StartPcs
      <4>5. Flow'
        BY <2>u, <3>1, <3>2, <3>3, <3>4, <4>1, <4>4 DEF Flow, Totals, Counts, Contents, Copied
      <4>6. QED
        BY <4>2, <4>3, <4>5 DEF FifoInv, Flow
    <3>7. CASE call.pc = "start_active"
      <4>1. call'.pc = "start_create" /\ self'.opened = self.opened /\ self'.active
            /\ self'.total = self.total /\ self'.bufptr = self.bufptr
        BY <2>11, <3>7 DEF StartStore, AppGoto, TypeOK, SelfType, IoType, CallType
      <4>2. Serving'
        BY <2>u, <3>1, <3>7, <4>1 DEF FifoInv, Serving, WritePcs, StopPcs, ResetPcs, Live
      <4>3. Fresh' /\ Told'
        BY <3>1, <3>2, <3>7, <4>1 DEF FifoInv, Fresh, Told, StartPcs, HalfReset
      <4>4. Copied' = Copied /\ (Streams' => Streams)
        BY <2>u, <3>7, <4>1 DEF Copied, Streams
      <4>5. Flow'
        BY <2>u, <3>1, <4>1, <4>4, FlowApp DEF FifoInv, Flow
      <4>6. QED
        BY <4>2, <4>3, <4>5 DEF FifoInv, Flow
    <3>8. QED
      BY <2>11, <3>5, <3>6, <3>7 DEF StartStore
  <2>12. CASE StartThread
    <3>1. PICK t \in Threads : /\ thr[t].pc = "none" /\ ThrGoto(t, "top")
                              /\ self' = [self EXCEPT !.thread = t]
      BY <2>12 DEF StartThread
    <3>2. call.pc = "start_create" /\ call'.pc \in {"idle", "pointer_lock"}
      BY <2>12 DEF StartThread, AppGoto, TypeOK, SelfType, IoType, CallType
    <3>3. /\ thr'[t].pc = "top" /\ thr'[t].rc = thr[t].rc
          /\ \A u \in Threads \ {t} : thr'[u] = thr[u]
      BY <3>1 DEF ThrGoto, TypeOK, ThrType
    <3>4. SelfKept /\ UNCHANGED <<buffer, io, server, entered, accepted>>
      BY <2>12, <3>1 DEF StartThread, SelfKept, counts, TypeOK, SelfType
    <3>5. self.opened /\ self.active
      BY <3>2 DEF AllInv, QuietStart, StartPcs
    <3>6. Serving'
      BY <3>2, <3>3, <3>4, <3>5 DEF Serving, SelfKept, WritePcs, StopPcs, ResetPcs, Live
    <3>7. Fresh' /\ Told'
      BY <3>2, <3>4, <3>5 DEF FifoInv, Fresh, Told, SelfKept, StartPcs, HalfReset
    <3>8. Copied' = Copied /\ (Streams' <=> Streams)
      BY <2>u, <3>2, <3>4 DEF Copied, Streams, SelfKept
    <3>9. \A u \in Threads : /\ (Unstored(u)' <=> Unstored(u)) /\ (Moved(u)' <=> Moved(u)) /\ thr'[u].rc = thr[u].rc
                             /\ thr'[u].pc \in {"mark", "total"} => thr[u].pc \in {"mark", "total"}
      BY <3>1, <3>3 DEF Unstored, Moved
    <3>10. Totals' /\ Counts' /\ Contents' /\ Received'
      BY <2>u, <3>4, <3>8, <3>9 DEF FifoInv, Totals, Counts, Contents, Received, SelfKept
    <3>11. QED
      BY <3>6, <3>7, <3>10 DEF FifoInv
  <2>13. CASE StartThreadFails
    <3>1. call.pc = "start_create" /\ call'.pc \in {"idle", "pointer_lock"} /\ env.createFails
      BY <2>13 DEF StartThreadFails, AppGoto, TypeOK, SelfType, IoType, CallType
    <3>2. SelfKept /\ UNCHANGED <<buffer, io, thr, server, entered, accepted>>
      BY <2>13 DEF StartThreadFails, SelfKept, counts, TypeOK, SelfType, IoType, CallType
    <3>3. self.opened /\ self.active
      BY <3>1 DEF AllInv, QuietStart, StartPcs
    <3>4. Serving'
      BY <2>u, <3>1, <3>2, <3>3 DEF Serving, SelfKept, WritePcs, StopPcs, ResetPcs
    <3>5. Fresh' /\ Told'
      BY <3>1, <3>2, <3>3 DEF FifoInv, Fresh, Told, SelfKept, StartPcs, HalfReset
    <3>6. Copied' = Copied /\ (Streams' => Streams)
      BY <2>u, <3>1, <3>2 DEF Copied, Streams, SelfKept
    <3>7. Flow'
      BY <2>u, <3>2, <3>6, FlowApp DEF FifoInv, Flow, SelfKept
    <3>8. QED
      BY <3>4, <3>5, <3>7 DEF FifoInv, Flow
  <2>14. CASE StopTest
    <3>1. call.pc = "stop" /\ call'.pc \in {"stop_clear", "reset"} /\ io'.state = io.state /\ call'.ret = call.ret /\ (call'.pc = "reset" => ~self.active)
      BY <2>14 DEF StopTest, AppGoto, TypeOK, SelfType, IoType, CallType
    <3>2. SelfKept
      BY <2>14 DEF StopTest, SelfKept
    <3>3. UNCHANGED <<buffer, thr, server, entered, accepted>>
      BY <2>14 DEF StopTest, counts
    <3>4. Serving'
      BY <2>14, <2>u, <3>1, <3>2, <3>3 DEF StopTest, FifoInv, Serving, SelfKept, WritePcs, StopPcs, ResetPcs, Live
    <3>5. Fresh' /\ Told'
      BY <3>1, <3>2, <3>3 DEF FifoInv, Fresh, Told, SelfKept, HalfReset, StartPcs
    <3>6. Copied' = Copied /\ (Streams' => Streams)
      BY <2>u, <3>1, <3>2 DEF Copied, Streams, SelfKept
    <3>7. Flow'
      BY <2>u, <3>2, <3>3, <3>6, FlowApp DEF FifoInv, Flow, SelfKept
    <3>8. QED
      BY <3>4, <3>5, <3>7 DEF FifoInv, Flow
  <2>15. CASE StopClear
    <3>1. call.pc = "stop_clear" /\ call'.pc \in {"stop_signal"} /\ io'.state = io.state /\ call'.ret = call.ret
      BY <2>15 DEF StopClear, AppGoto, TypeOK, SelfType, IoType, CallType
    <3>2. self'.opened = self.opened /\ ~self'.active /\ self'.bufptr = self.bufptr /\ self'.total = self.total
      BY <2>15 DEF StopClear, TypeOK, SelfType
    <3>3. UNCHANGED <<buffer, thr, server, entered, accepted>>
      BY <2>15 DEF StopClear, counts
    <3>4. Serving'
      BY <2>15, <2>u, <3>1, <3>2, <3>3 DEF StopClear, FifoInv, Serving, SelfKept, WritePcs, StopPcs, ResetPcs, Live
    <3>5. Fresh' /\ Told'
      BY <3>1, <3>2, <3>3 DEF FifoInv, Fresh, Told, SelfKept, HalfReset, StartPcs
    <3>6. Copied' = Copied /\ (Streams' => Streams)
      BY <2>u, <3>1, <3>2 DEF Copied, Streams, SelfKept
    <3>7. Flow'
      BY <2>u, <3>2, <3>3, <3>6, FlowApp DEF FifoInv, Flow, SelfKept
    <3>8. QED
      BY <3>4, <3>5, <3>7 DEF FifoInv, Flow
  <2>16. CASE StopSignal
    <3>1. call.pc = "stop_signal" /\ call'.pc \in {"stop_join"} /\ io'.state = io.state /\ call'.ret = call.ret
      BY <2>16 DEF StopSignal, AppGoto, TypeOK, SelfType, IoType, CallType
    <3>2. SelfKept
      BY <2>16 DEF StopSignal, SelfKept
    <3>3. UNCHANGED <<buffer, thr, server, entered, accepted>>
      BY <2>16 DEF StopSignal, counts
    <3>4. Serving'
      BY <2>16, <2>u, <3>1, <3>2, <3>3 DEF StopSignal, FifoInv, Serving, SelfKept, WritePcs, StopPcs, ResetPcs, Live
    <3>5. Fresh' /\ Told'
      BY <3>1, <3>2, <3>3 DEF FifoInv, Fresh, Told, SelfKept, HalfReset, StartPcs
    <3>6. Copied' = Copied /\ (Streams' => Streams)
      BY <2>u, <3>1, <3>2 DEF Copied, Streams, SelfKept
    <3>7. Flow'
      BY <2>u, <3>2, <3>3, <3>6, FlowApp DEF FifoInv, Flow, SelfKept
    <3>8. QED
      BY <3>4, <3>5, <3>7 DEF FifoInv, Flow
  <2>17. CASE StopJoin
    <3>1. call.pc = "stop_join" /\ call'.pc \in {"reset"} /\ io'.state = io.state /\ call'.ret = call.ret
      BY <2>17 DEF StopJoin, AppGoto, TypeOK, SelfType, IoType, CallType
    <3>2. SelfKept
      BY <2>17 DEF StopJoin, SelfKept
    <3>3. UNCHANGED <<buffer, thr, server, entered, accepted>>
      BY <2>17 DEF StopJoin, counts
    <3>4. Serving'
      BY <2>17, <2>u, <3>1, <3>2, <3>3 DEF StopJoin, FifoInv, Serving, SelfKept, WritePcs, StopPcs, ResetPcs, Live
    <3>5. Fresh' /\ Told'
      BY <3>1, <3>2, <3>3 DEF FifoInv, Fresh, Told, SelfKept, HalfReset, StartPcs
    <3>6. Copied' = Copied /\ (Streams' => Streams)
      BY <2>u, <3>1, <3>2 DEF Copied, Streams, SelfKept
    <3>7. Flow'
      BY <2>u, <3>2, <3>3, <3>6, FlowApp DEF FifoInv, Flow, SelfKept
    <3>8. QED
      BY <3>4, <3>5, <3>7 DEF FifoInv, Flow
  <2>18. CASE StopReset
    <3>1. PICK q \in ResetPcs \cup {"reset_done"} : Reset(call.pc, q) /\ AppGoto(q)
      BY <2>18 DEF StopReset
    <3>2. call.pc \in ResetPcs /\ call'.pc = q /\ call'.ret = call.ret /\ UNCHANGED <<buffer, io, thr, server, entered, accepted>>
      BY <2>18, <3>1 DEF StopReset, Reset, AppGoto, ResetPcs, counts, TypeOK, SelfType, IoType, CallType
    <3>3. self'.active => self.active
      BY <3>1, ResetActiveOnly DEF TypeOK
    <3>4. CASE call.pc = "reset"
      <4>1. self' = self /\ q = IF self.opened THEN "reset_opened" ELSE "reset_done"
        BY <3>1, <3>4 DEF Reset, TypeOK, SelfType, IoType, CallType
      <4>2. Serving'
        BY <2>u, <3>2, <3>4, <4>1 DEF FifoInv, Serving, WritePcs, StopPcs, ResetPcs, Live
      <4>3. Fresh' /\ Told'
        BY <3>2, <3>4, <4>1 DEF FifoInv, Fresh, Told, HalfReset, StartPcs
      <4>4. Copied' = Copied /\ (Streams' => Streams)
        BY <2>u, <3>2, <3>4, <4>1 DEF Copied, Streams
      <4>5. Flow'
        BY <2>u, <3>2, <4>1, <4>4, FlowApp DEF FifoInv, Flow
      <4>6. QED
        BY <4>2, <4>3, <4>5 DEF FifoInv, Flow
    <3>5. CASE call.pc \in ResetPcs \ {"reset"}
      <4>1. ~self'.opened /\ q \in HalfReset \cup {"reset_done"} /\ (q = "reset_done" => self'.total = 0)
        <5>1. CASE call.pc = "reset_opened"
          BY <3>1, <5>1 DEF Reset, HalfReset, TypeOK, SelfType, IoType, CallType
        <5>2. CASE call.pc = "reset_active"
          BY <3>1, <5>2 DEF Reset, ResetActive, HalfReset, TypeOK, SelfType, IoType, CallType, FifoInv, Fresh
        <5>3. CASE call.pc = "reset_bufptr"
          BY <3>1, <5>3 DEF Reset, HalfReset, TypeOK, SelfType, IoType, CallType, FifoInv, Fresh
        <5>4. CASE call.pc = "reset_rest"
          BY <3>1, <5>4 DEF Reset, ResetRest, HalfReset, TypeOK, SelfType, IoType, CallType, FifoInv, Fresh
        <5>5. QED
          BY <3>5, <5>1, <5>2, <5>3, <5>4 DEF ResetPcs
      <4>2. Serving'
        BY <2>u, <3>2, <3>3, <3>5, <4>1 DEF FifoInv, Serving, WritePcs, StopPcs, ResetPcs, Live, HalfReset
      <4>3. Fresh' /\ Told'
        BY <3>2, <3>5, <4>1 DEF FifoInv, Fresh, Told, HalfReset, StartPcs, ResetPcs
      <4>4. Flow'
        BY <2>u, <3>2, <4>1, FlowClosed DEF FifoInv, Streams
      <4>5. QED
        BY <4>2, <4>3, <4>4 DEF FifoInv, Flow
    <3>6. QED
      BY <3>2, <3>4, <3>5
  <2>19. CASE StopReturn
    <3>1. call.pc = "reset_done" /\ call'.pc \in {"idle", "start"} /\ io'.state = io.state /\ call'.ret = call.ret /\ (call'.pc = "idle" => call.ret = "idle")
      BY <2>19 DEF StopReturn, AppGoto, TypeOK, SelfType, IoType, CallType
    <3>2. SelfKept
      BY <2>19 DEF StopReturn, SelfKept
    <3>3. UNCHANGED <<buffer, thr, server, entered, accepted>>
      BY <2>19 DEF StopReturn, counts
    <3>4. Serving'
      BY <2>19, <2>u, <3>1, <3>2, <3>3 DEF StopReturn, FifoInv, Serving, SelfKept, WritePcs, StopPcs, ResetPcs, Live
    <3>5. Fresh' /\ Told'
      BY <3>1, <3>2, <3>3 DEF FifoInv, Fresh, Told, SelfKept, HalfReset, StartPcs
    <3>6. Copied' = Copied /\ (Streams' => Streams)
      BY <2>u, <3>1, <3>2 DEF Copied, Streams, SelfKept
    <3>7. Flow'
      BY <2>u, <3>2, <3>3, <3>6, FlowApp DEF FifoInv, Flow, SelfKept
    <3>8. QED
      BY <3>4, <3>5, <3>7 DEF FifoInv, Flow
  <2>20. CASE Pointer
    <3>1. call.pc = "pointer" /\ UNCHANGED <<self, buffer, io, thr, server, entered, accepted>>
      BY <2>20 DEF Pointer, counts
    <3>2. call'.pc = "pointer_lock" \/ (call'.pc = "stop" /\ call'.ret = "pointer_lock")
      <4>1. CASE io.appl < self.lastPtr
        BY <2>20, <4>1 DEF Pointer, TypeOK, SelfType, IoType, CallType
      <4>2. CASE ~(io.appl < self.lastPtr)
        BY <2>20, <4>2 DEF Pointer, AppGoto, TypeOK, SelfType, IoType, CallType
      <4>3. QED
        BY <4>1, <4>2
    <3>3. Serving'
      BY <2>u, <3>1, <3>2 DEF FifoInv, Serving, WritePcs, StopPcs, ResetPcs, Live
    <3>4. Fresh' /\ Told'
      BY <3>1, <3>2 DEF FifoInv, Fresh, Told, HalfReset, StartPcs
    <3>5. Copied' = Copied /\ (Streams' => Streams)
      BY <2>u, <3>1, <3>2 DEF Copied, Streams
    <3>6. Flow'
      BY <2>u, <3>1, <3>5, FlowApp DEF FifoInv, Flow
    <3>7. QED
      BY <3>3, <3>4, <3>6 DEF FifoInv, Flow
  <2>21. CASE PointerLocked
    <3>1. call.pc = "pointer_lock" /\ UNCHANGED <<buffer, thr, server, entered, accepted>>
      BY <2>21 DEF PointerLocked, counts
    <3>2. SelfKept
      BY <2>21 DEF PointerLocked, SelfKept, TypeOK, SelfType, IoType, CallType
    <3>3. call'.pc \in {"idle", "write"} /\ (call'.pc = "write" => call'.size >= 1)
      <4> DEFINE b == Frames(Signed(self.bufptr))
                 q == env.frame * b
                 avail == IF env.gate THEN BufSize - q ELSE BufSize
                 n == IF call.size <= avail THEN call.size ELSE avail
      <4>1. n \in Int
        <5>1. Signed(self.bufptr) \in Int
          BY SignedInt DEF TypeOK, SelfType
        <5>2. b \in Int /\ env.frame \in Int
          BY <5>1, FramesInt, EnvType DEF TypeOK
        <5> HIDE DEF b
        <5>3. q \in Int
          BY <5>2, ProductInt
        <5>4. BufSize \in Int /\ call.size \in Int
          BY SizesAssumption DEF TypeOK, CallType
        <5> HIDE DEF q
        <5>5. QED
          BY <5>3, <5>4
      <4>2. \/ call' = [call EXCEPT !.pc = "idle", !.ret = "idle", !.size = 0]
            \/ call' = [call EXCEPT !.pc = IF n > 0 THEN "write" ELSE "idle",
                                    !.ret = "idle", !.size = IF n > 0 THEN n ELSE 0]
        BY <2>21 DEF PointerLocked
      <4> HIDE DEF n
      <4>3. n > 0 => n >= 1
        BY <4>1
      <4>4. QED
        BY <4>2, <4>3 DEF TypeOK, CallType
    <3>4. Serving'
      BY <2>u, <3>1, <3>2, <3>3 DEF FifoInv, Serving, SelfKept, WritePcs, StopPcs, ResetPcs, Live
    <3>5. Fresh' /\ Told'
      BY <3>1, <3>2, <3>3 DEF FifoInv, Fresh, Told, SelfKept, HalfReset, StartPcs
    <3>6. Copied' = Copied /\ (Streams' => Streams)
      BY <2>u, <3>1, <3>2, <3>3 DEF Copied, Streams, SelfKept
    <3>7. Flow'
      BY <2>u, <3>1, <3>2, <3>6, FlowApp DEF FifoInv, Flow, SelfKept
    <3>8. QED
      BY <3>4, <3>5, <3>7 DEF FifoInv, Flow
  <2>22. CASE WriteTest
    <3>1. call.pc = "write" /\ UNCHANGED <<self, buffer, thr, server, entered>>
      BY <2>22 DEF WriteTest
    <3>2. self.active
      BY <3>1 DEF FifoInv, Serving, WritePcs, ResetPcs
    <3>3. call'.pc = "write_room" /\ call'.size = call.size /\ UNCHANGED <<io, accepted>>
      BY <2>22, <3>2 DEF WriteTest, AppGoto, TypeOK, SelfType, IoType, CallType
    <3>4. Serving' /\ Fresh' /\ Told'
      BY <2>u, <3>1, <3>3, ServingApp DEF FifoInv, WritePcs, SelfKept
    <3>5. Copied' = Copied /\ (Streams' => Streams)
      BY <2>u, <3>1, <3>3 DEF Copied, Streams
    <3>6. Flow'
      BY <2>u, <3>1, <3>5, FlowApp DEF FifoInv, Flow
    <3>7. QED
      BY <3>4, <3>6 DEF FifoInv, Flow
  <2>23. CASE WriteRoom
    <3>1. call.pc = "write_room" /\ call'.pc \in {"write_copy", "write_full"} /\ call'.size = call.size
      BY <2>23 DEF WriteRoom, AppGoto, TypeOK, SelfType, IoType, CallType
    <3>2. UNCHANGED <<self, buffer, io, thr, server, entered, accepted>>
      BY <2>23 DEF WriteRoom, counts
    <3>3. Serving' /\ Fresh' /\ Told'
      BY <2>u, <3>1, <3>2, ServingApp DEF FifoInv, WritePcs, SelfKept
    <3>4. Copied' = Copied /\ (Streams' => Streams)
      BY <2>u, <3>1, <3>2 DEF Copied, Streams
    <3>5. Flow'
      BY <2>u, <3>2, <3>4, FlowApp DEF FifoInv, Flow
    <3>6. QED
      BY <3>3, <3>5 DEF FifoInv, Flow
  <2>24. CASE WriteFull
    <3>1. call.pc = "write_full" /\ call'.pc \in {"write_wait"} /\ call'.size = call.size
      BY <2>24 DEF WriteFull, AppGoto, TypeOK, SelfType, IoType, CallType
    <3>2. UNCHANGED <<self, buffer, io, thr, server, entered, accepted>>
      BY <2>24 DEF WriteFull, counts
    <3>3. Serving' /\ Fresh' /\ Told'
      BY <2>u, <3>1, <3>2, ServingApp DEF FifoInv, WritePcs, SelfKept
    <3>4. Copied' = Copied /\ (Streams' => Streams)
      BY <2>u, <3>1, <3>2 DEF Copied, Streams
    <3>5. Flow'
      BY <2>u, <3>2, <3>4, FlowApp DEF FifoInv, Flow
    <3>6. QED
      BY <3>3, <3>5 DEF FifoInv, Flow
  <2>25. CASE WriteWait
    <3>1. call.pc = "write_wait" /\ call'.pc \in {"write_asleep"} /\ call'.size = call.size
      BY <2>25 DEF WriteWait, AppGoto, TypeOK, SelfType, IoType, CallType
    <3>2. UNCHANGED <<self, buffer, io, thr, server, entered, accepted>>
      BY <2>25 DEF WriteWait, counts
    <3>3. Serving' /\ Fresh' /\ Told'
      BY <2>u, <3>1, <3>2, ServingApp DEF FifoInv, WritePcs, SelfKept
    <3>4. Copied' = Copied /\ (Streams' => Streams)
      BY <2>u, <3>1, <3>2 DEF Copied, Streams
    <3>5. Flow'
      BY <2>u, <3>2, <3>4, FlowApp DEF FifoInv, Flow
    <3>6. QED
      BY <3>3, <3>5 DEF FifoInv, Flow
  <2>26. CASE WriteAwake
    <3>1. call.pc = "write_asleep" /\ call'.pc \in {"write"} /\ call'.size = call.size
      BY <2>26 DEF WriteAwake, AppGoto, TypeOK, SelfType, IoType, CallType
    <3>2. UNCHANGED <<self, buffer, io, thr, server, entered, accepted>>
      BY <2>26 DEF WriteAwake, counts
    <3>3. Serving' /\ Fresh' /\ Told'
      BY <2>u, <3>1, <3>2, ServingApp DEF FifoInv, WritePcs, SelfKept
    <3>4. Copied' = Copied /\ (Streams' => Streams)
      BY <2>u, <3>1, <3>2 DEF Copied, Streams
    <3>5. Flow'
      BY <2>u, <3>2, <3>4, FlowApp DEF FifoInv, Flow
    <3>6. QED
      BY <3>3, <3>5 DEF FifoInv, Flow
  <2>27. CASE WriteCopy
    <3>1. call.pc = "write_copy" /\ call'.pc = "write_load" /\ call'.size = call.size /\ lock = Free
      BY <2>27 DEF WriteCopy, AppGoto, TypeOK, SelfType, IoType, CallType
    <3>2. UNCHANGED <<self, io, thr, server, entered, accepted>>
      BY <2>27 DEF WriteCopy, counts
    <3>3. Serving' /\ Fresh' /\ Told'
      BY <2>u, <3>1, <3>2, ServingApp DEF FifoInv, WritePcs, SelfKept
    <3> SUFFICES ASSUME ~env.rehw PROVE Flow'
      BY <2>u, <3>3, FlowFree DEF FifoInv, Flow
    <3>4. Totals' /\ Counts' /\ Received'
      BY <2>u, <3>1, <3>2 DEF FifoInv, Totals, Counts, Received, Streams, Unstored
    <3>5. \A t \in Threads : ~Moved(t)
      BY <3>1, Nobody DEF AllInv, ThreadInv, Moved
    <3>6. self.opened
      BY <3>1 DEF FifoInv, Serving, WritePcs
    <3>7. Streams
      BY <2>u, <3>1, <3>6 DEF Streams
    <3>8. \A i \in 0 .. self.bufptr - 1 : buffer[i] = entered - self.bufptr + 1 + i
      <4>1. Copied = 0 /\ self.bufptr \in Int
        BY <3>1, SizesAssumption DEF Copied, TypeOK, SelfType, SizeTs
      <4>2. self.bufptr + Copied - 1 = self.bufptr - 1
        BY <4>1
      <4>3. QED
        BY <3>5, <3>7, <4>2 DEF FifoInv, Contents
    <3>9. Copied' = call.size
      BY <3>1 DEF Copied
    <3>10. \A i \in 0 .. self.bufptr + call.size - 1 : buffer'[i] = entered - self.bufptr + 1 + i
      <4>1. self.bufptr \in Nat /\ call.size \in Nat /\ entered \in Nat /\ self.bufptr + call.size <= BufSize /\ BufSize \in Nat
        BY <3>1, SizesAssumption DEF TypeOK, SelfType, CallType, SizeTs, AllInv, Fitting
      <4>2. DOMAIN buffer = 0 .. BufSize - 1
        BY DEF TypeOK
      <4>3. SUFFICES ASSUME NEW i \in 0 .. self.bufptr + call.size - 1 PROVE buffer'[i] = entered - self.bufptr + 1 + i
        OBVIOUS
      <4>4. i \in DOMAIN buffer
        BY <4>1, <4>2
      <4>5. buffer'[i] = IF i \in self.bufptr .. self.bufptr + call.size - 1
                         THEN entered + 1 + i - self.bufptr ELSE buffer[i]
        BY <2>27, <4>4 DEF WriteCopy
      <4>6. CASE i \in self.bufptr .. self.bufptr + call.size - 1
        BY <4>1, <4>5, <4>6
      <4>7. CASE i \notin self.bufptr .. self.bufptr + call.size - 1
        <5>1. i \in 0 .. self.bufptr - 1
          BY <4>1, <4>7
        <5>2. QED
          BY <3>8, <4>5, <4>7, <5>1
      <4>8. QED
        BY <4>6, <4>7
    <3>11. Contents'
      <4>1. \A t \in Threads : ~Moved(t)'
        BY <3>2, <3>5 DEF Moved
      <4>2. QED
        BY <3>2, <3>9, <3>10, <4>1 DEF Contents
    <3>12. QED
      BY <3>4, <3>11 DEF Flow
  <2>28. CASE WriteLoad
    <3>1. call.pc = "write_load" /\ call'.pc = "write_store" /\ call'.size = call.size
      BY <2>28 DEF WriteLoad, TypeOK, SelfType, IoType, CallType
    <3>2. UNCHANGED <<self, buffer, io, thr, server, entered, accepted>>
      BY <2>28 DEF WriteLoad, counts
    <3>3. Serving' /\ Fresh' /\ Told'
      BY <2>u, <3>1, <3>2, ServingApp DEF FifoInv, WritePcs, SelfKept
    <3>4. Copied' = Copied /\ (Streams' => Streams)
      BY <2>u, <3>1, <3>2 DEF Copied, Streams
    <3>5. Flow'
      BY <2>u, <3>2, <3>4, FlowApp DEF FifoInv, Flow
    <3>6. QED
      BY <3>3, <3>5 DEF FifoInv, Flow
  <2>29. CASE WriteStore
    <3>1. call.pc = "write_store" /\ call'.pc = "write_signal" /\ call'.size = call.size
      BY <2>29 DEF WriteStore, AppGoto, TypeOK, SelfType, IoType, CallType
    <3>2. call.loaded = self.bufptr /\ lock = App
      BY <3>1 DEF AllInv, AppLocking
    <3>6. entered' = entered + call.size /\ UNCHANGED <<buffer, io, thr, server, accepted>>
      BY <2>29 DEF WriteStore
    <3>9. Serving' /\ Fresh' /\ Told'
      <4>1. self'.opened = self.opened /\ self'.active = self.active /\ self'.total = self.total
        BY <2>29 DEF WriteStore, TypeOK, SelfType
      <4>2. Serving'
        BY <2>u, <3>1, <3>6, <4>1 DEF FifoInv, Serving, WritePcs, StopPcs, ResetPcs, Live
      <4>3. Fresh'
        BY <3>1, <3>6, <4>1 DEF FifoInv, Fresh, HalfReset, StartPcs
      <4>4. accepted = entered
        BY <3>1 DEF FifoInv, Told, TypeOK
      <4>5. Told'
        BY <3>1, <3>6, <4>4 DEF Told
      <4>6. QED
        BY <4>2, <4>3, <4>5
    <3> SUFFICES ASSUME ~env.rehw PROVE Flow'
      BY <2>u, <3>9, FlowFree DEF FifoInv, Flow
    <3>3. call.size \in Nat /\ self.bufptr \in Nat /\ entered \in Nat /\ self.bufptr + call.size \in SizeTs
      <4>1. call.size \in Nat /\ self.bufptr \in Nat /\ entered \in Nat /\ call.size <= BufSize /\ self.bufptr <= BufSize
        BY SizesAssumption DEF TypeOK, SelfType, CallType, SizeTs, AllInv, Fitting
      <4>2. QED
        BY <4>1, SumFits
    <3>4. self' = [self EXCEPT !.bufptr = self.bufptr + call.size]
      BY <2>29, <3>2, <3>3, SizeTIdentity DEF WriteStore
    <3>5. self'.opened = self.opened /\ self'.active = self.active /\ self'.bufptr = self.bufptr + call.size /\ self'.total = self.total
      BY <3>4 DEF TypeOK, SelfType
    <3>10. \A t \in Threads : ~Moved(t) /\ ~Moved(t)'
      BY <3>2, <3>6, Nobody DEF AllInv, ThreadInv, Moved
    <3>11. entered' - self'.bufptr = entered - self.bufptr /\ self'.bufptr + Copied' = self.bufptr + Copied
      <4>1. Copied = call.size /\ Copied' = 0
        BY <3>1 DEF Copied
      <4>2. QED
        BY <3>3, <3>5, <3>6, <4>1
    <3>12. Streams /\ Streams'
      BY <2>u, <3>1, <3>5 DEF FifoInv, Serving, Streams, WritePcs
    <3>13. Totals' /\ Received'
      BY <2>u, <3>5, <3>6, <3>12 DEF FifoInv, Totals, Received
    <3>14. Counts'
      BY <3>6, <3>11, <3>12 DEF FifoInv, Counts, Unstored
    <3>15. Contents'
      <4>1. \A i \in 0 .. self.bufptr + Copied - 1 : buffer[i] = entered - self.bufptr + 1 + i
        BY <3>10, <3>12 DEF FifoInv, Contents, Moved
      <4>2. \A i \in 0 .. self'.bufptr + Copied' - 1 : buffer'[i] = entered' - self'.bufptr + 1 + i
        <5> DEFINE last == self.bufptr + (Copied - 1)
                   first == entered - self.bufptr
                   last1 == self'.bufptr + (Copied' - 1)
                   first1 == entered' - self'.bufptr
        <5>1. buffer' = buffer /\ first1 = first
          BY <3>6, <3>11
        <5>2. last1 = last
          <6>1. Copied = call.size /\ Copied' = 0
            BY <3>1 DEF Copied
          <6>2. QED
            BY <3>3, <3>5, <6>1
        <5>3. \A i \in 0 .. last : buffer[i] = first + 1 + i
          BY <4>1
        <5> HIDE DEF last, first, last1, first1
        <5>4. \A i \in 0 .. last1 : buffer'[i] = first1 + 1 + i
          BY ONLY <5>1, <5>2, <5>3
        <5>5. QED
          BY <5>4 DEF last1, first1
      <4>3. QED
        BY <3>10, <4>2 DEF Contents, Moved
    <3>16. QED
      BY <3>13, <3>14, <3>15 DEF Flow
  <2>30. CASE WriteSignal
    <3>1. call.pc = "write_signal" /\ call'.pc = "idle" /\ call'.ret = call.ret /\ io'.state = io.state
      BY <2>30 DEF WriteSignal, TransferReturns, TypeOK, SelfType, IoType, CallType
    <3>2. accepted' = accepted + call.size /\ UNCHANGED <<self, buffer, thr, server, entered>>
      BY <2>30 DEF WriteSignal, TransferReturns
    <3>3. Serving'
      BY <2>u, <3>1, <3>2 DEF FifoInv, Serving, WritePcs, StopPcs, ResetPcs, Live
    <3>4. Fresh'
      BY <3>1, <3>2 DEF FifoInv, Fresh, HalfReset, StartPcs
    <3>5. Told'
      BY <3>1, <3>2 DEF FifoInv, Told, TypeOK
    <3>6. Copied' = Copied /\ (Streams' => Streams)
      BY <2>u, <3>1, <3>2 DEF Copied, Streams
    <3>7. Flow'
      BY <2>u, <3>2, <3>6, FlowApp DEF FifoInv, Flow
    <3>8. QED
      BY <3>3, <3>4, <3>5, <3>7 DEF FifoInv, Flow
  <2>31. CASE Spurious
    BY <2>31, <2>u DEF Spurious, counts, FifoInv, Serving, Fresh, Told, Totals, Counts, Contents, Received,
      Streams, Copied, Unstored, Moved, Live
  <2>32. ASSUME NEW t \in Threads, ThreadTest(t) PROVE FifoInv'
    <3>1. thr[t].pc = "top" /\ thr'[t].pc \in {"check", "quit"} /\ thr'[t].rc = thr[t].rc
      BY <2>32 DEF ThreadTest, ThrGoto, TypeOK, ThrType
    <3>2. (\A u \in Threads \ {t} : thr'[u] = thr[u]) /\ UNCHANGED <<call, io, buffer, server, entered, accepted>>
      BY <2>32 DEF ThreadTest, ThrGoto, TypeOK, ThrType, counts
    <3>3. SelfKept
      BY <2>32 DEF ThreadTest, TypeOK, SelfType, SelfKept
    <3>4. Serving' /\ Fresh' /\ Told'
      BY <2>u, <3>1, <3>2, <3>3, ServingThread DEF FifoInv, SelfKept, Live
    <3>5. Flow'
      BY <2>u, <3>1, <3>2, <3>3, FlowThread DEF FifoInv, Flow, SelfKept, Unstored, Moved
    <3>6. QED
      BY <3>4, <3>5 DEF FifoInv, Flow
  <2>33. ASSUME NEW t \in Threads, ThreadCheck(t) PROVE FifoInv'
    <3>1. thr[t].pc = "check" /\ thr'[t].pc \in {"vio_write", "quit"} /\ thr'[t].rc = thr[t].rc
      BY <2>33 DEF ThreadCheck, ThrGoto, TypeOK, ThrType
    <3>2. (\A u \in Threads \ {t} : thr'[u] = thr[u]) /\ UNCHANGED <<call, io, buffer, server, entered, accepted>>
      BY <2>33 DEF ThreadCheck, ThrGoto, TypeOK, ThrType, counts
    <3>3. SelfKept
      BY <2>33 DEF ThreadCheck, TypeOK, SelfType, SelfKept
    <3>4. Serving' /\ Fresh' /\ Told'
      BY <2>u, <3>1, <3>2, <3>3, ServingThread DEF FifoInv, SelfKept, Live
    <3>5. Flow'
      BY <2>u, <3>1, <3>2, <3>3, FlowThread DEF FifoInv, Flow, SelfKept, Unstored, Moved
    <3>6. QED
      BY <3>4, <3>5 DEF FifoInv, Flow
  <2>34. ASSUME NEW t \in Threads, ThreadWrite(t) PROVE FifoInv'
    <3>1. thr[t].pc = "vio_write" /\ ThreadInv(t) /\ Live(t)
      BY <2>34 DEF ThreadWrite, AllInv, Live
    <3>2. /\ self.opened /\ call.pc \notin StartPcs
          /\ \A u \in Threads \ {t} : ~Unstored(u) /\ ~Moved(u)
      BY <3>1 DEF AllInv, ThreadInv, QuietStart, QuietPcs, Live, Unstored, Moved
    <3>3. thr'[t].pc = "mark" /\ \A u \in Threads \ {t} : thr'[u] = thr[u]
      <4>1. ~(env.vioFails /\ ThrGoto(t, "cancel")) /\ vio
        BY <3>1, FailsAtCancel DEF ThreadInv
      <4>2. PICK n \in 1 .. Chunk : thr' = [thr EXCEPT ![t].rc = n, ![t].pc = "mark"]
        BY <2>34, <4>1 DEF ThreadWrite
      <4>3. QED
        BY <4>2 DEF TypeOK, ThrType
    <3>5. UNCHANGED <<self, buffer, io, call, entered, accepted>>
      BY <2>34 DEF ThreadWrite, counts
    <3>7. Serving' /\ Fresh' /\ Told'
      BY <2>u, <3>2, <3>3, <3>5, ServingThread DEF FifoInv, Live
    <3> SUFFICES ASSUME ~env.rehw PROVE Flow'
      BY <2>u, <3>7, FlowFree DEF FifoInv, Flow
    <3>s. Streams
      BY <3>2 DEF Streams, StartPcs
    <3>4. PICK n \in 1 .. Chunk : /\ n <= self.bufptr /\ thr' = [thr EXCEPT ![t].rc = n, ![t].pc = "mark"]
                                 /\ server' = server \o Sent(n, Len(server))
      BY <2>34, NextSent
    <3>6. thr'[t].pc = "mark" /\ thr'[t].rc = n /\ \A u \in Threads \ {t} : thr'[u] = thr[u]
      BY <3>4 DEF TypeOK, ThrType
    <3>8. /\ Len(server) = entered - self.bufptr
          /\ \A i \in 0 .. self.bufptr + Copied - 1 : buffer[i] = entered - self.bufptr + 1 + i
      BY <3>1, <3>2, <3>s DEF FifoInv, Counts, Contents, Unstored, Moved
    <3>9. /\ n \in Nat /\ n <= self.bufptr /\ self.bufptr \in Nat /\ Len(server) \in Nat
          /\ entered \in Nat /\ self.total \in Nat /\ server \in Seq(Int)
      <4>1. n \in Nat /\ self.bufptr \in Nat
        BY DEF TypeOK, SelfType, SizeTs
      <4>2. QED
        BY <3>4, <4>1 DEF TypeOK, SelfType
    <3>10. Len(server') = Len(server) + n
      <4>1. Sent(n, Len(server)) \in Seq(Int) /\ Len(Sent(n, Len(server))) = n
        BY <3>9 DEF Sent
      <4>2. \A s, r \in Seq(Int) : Len(s \o r) = Len(s) + Len(r)
        OBVIOUS
      <4>3. QED
        BY <3>4, <3>9, <4>1, <4>2
    <3>11. Received'
      <4>1. \A i \in 1 .. Len(server) : server[i] = i
        BY <2>u DEF FifoInv, Received
      <4>2. \A i \in 1 .. Len(server') : server'[i] = i
        BY <3>4, <3>9, <4>1, SentKeepsOrder
      <4>3. QED
        BY <2>u, <4>2 DEF Received
    <3>12. Totals'
      <4>1. self.total <= Len(server)
        BY <3>s DEF FifoInv, Totals
      <4>2. self.total <= Len(server') /\ self.total + n <= Len(server')
        BY <3>9, <3>10, <4>1
      <4>3. \A u \in Threads : thr'[u].pc \in {"mark", "total"} => u = t
        BY <3>2, <3>6 DEF Unstored
      <4>4. QED
        BY <2>u, <3>5, <3>6, <4>2, <4>3 DEF Totals
    <3>13. Counts'
      <4>1. Len(server') = entered - self.bufptr + n
        BY <3>8, <3>9, <3>10
      <4>2. \A u \in Threads : Unstored(u)' <=> u = t
        BY <3>2, <3>6 DEF Unstored
      <4>3. QED
        BY <3>5, <3>6, <4>1, <4>2 DEF Counts
    <3>14. Contents'
      <4>1. \A u \in Threads : ~Moved(u)' /\ ~Moved(u)
        BY <3>1, <3>2, <3>6 DEF Moved
      <4>2. Copied' = Copied
        BY <3>5 DEF Copied
      <4>3. QED
        BY <3>5, <3>8, <4>1, <4>2 DEF Contents
    <3>15. QED
      BY <3>11, <3>12, <3>13, <3>14 DEF Flow
  <2>35. ASSUME NEW t \in Threads, ThreadMark(t) PROVE FifoInv'
    <3>1. thr[t].pc = "mark" /\ thr'[t].pc \in {"total"} /\ thr'[t].rc = thr[t].rc
      BY <2>35 DEF ThreadMark, ThrGoto, TypeOK, ThrType
    <3>2. (\A u \in Threads \ {t} : thr'[u] = thr[u]) /\ UNCHANGED <<call, io, buffer, server, entered, accepted>>
      BY <2>35 DEF ThreadMark, ThrGoto, TypeOK, ThrType, counts
    <3>3. SelfKept
      BY <2>35 DEF ThreadMark, TypeOK, SelfType, SelfKept
    <3>4. Serving' /\ Fresh' /\ Told'
      BY <2>u, <3>1, <3>2, <3>3, ServingThread DEF FifoInv, SelfKept, Live
    <3>5. Flow'
      BY <2>u, <3>1, <3>2, <3>3, FlowThread DEF FifoInv, Flow, SelfKept, Unstored, Moved
    <3>6. QED
      BY <3>4, <3>5 DEF FifoInv, Flow
  <2>36. ASSUME NEW t \in Threads, ThreadTotal(t) PROVE FifoInv'
    <3>1. thr[t].pc = "total" /\ ThreadInv(t) /\ Live(t)
      BY <2>36 DEF ThreadTotal, AllInv, Live
    <3>2. /\ self.opened /\ call.pc \notin StartPcs
          /\ \A u \in Threads \ {t} : ~Unstored(u) /\ ~Moved(u)
      BY <3>1 DEF AllInv, ThreadInv, QuietStart, QuietPcs, Live, Unstored, Moved
    <3>3. /\ thr'[t].pc = "move" /\ thr'[t].rc = thr[t].rc
          /\ \A u \in Threads \ {t} : thr'[u] = thr[u]
      BY <2>36 DEF ThreadTotal, ThrGoto, TypeOK, ThrType
    <3>4. UNCHANGED <<buffer, io, call, server, entered, accepted>>
      BY <2>36 DEF ThreadTotal, counts
    <3>5. /\ self'.opened = self.opened /\ self'.active = self.active /\ self'.bufptr = self.bufptr
          /\ self'.total = self.total + thr[t].rc
      BY <2>36 DEF ThreadTotal, TypeOK, SelfType
    <3>6. Serving' /\ Fresh' /\ Told'
      BY <2>u, <3>2, <3>3, <3>4, <3>5, ServingThread DEF FifoInv, Live
    <3> SUFFICES ASSUME ~env.rehw PROVE Flow'
      BY <2>u, <3>6, FlowFree DEF FifoInv, Flow
    <3>s. Streams
      BY <3>2 DEF Streams, StartPcs
    <3>7. Totals'
      <4>1. self.total + thr[t].rc <= Len(server)
        BY <3>1, <3>s DEF FifoInv, Totals
      <4>2. \A u \in Threads : thr'[u].pc \notin {"mark", "total"}
        BY <3>2, <3>3 DEF Unstored
      <4>3. QED
        BY <2>u, <3>4, <3>5, <4>1, <4>2 DEF Totals
    <3>8. Copied' = Copied /\ (Streams' <=> Streams)
      BY <2>u, <3>4, <3>5 DEF Copied, Streams
    <3>9. \A u \in Threads : (Unstored(u)' <=> Unstored(u)) /\ (Moved(u)' <=> Moved(u)) /\ thr'[u].rc = thr[u].rc
      BY <3>1, <3>3 DEF Unstored, Moved
    <3>10. Counts' /\ Contents' /\ Received'
      BY <2>u, <3>4, <3>5, <3>8, <3>9 DEF FifoInv, Counts, Contents, Received
    <3>11. QED
      BY <3>7, <3>10 DEF Flow
  <2>37. ASSUME NEW t \in Threads, ThreadMove(t) PROVE FifoInv'
    <3>1. thr[t].pc = "move" /\ ThreadInv(t) /\ Live(t) /\ lock = Free
      BY <2>37 DEF ThreadMove, AllInv, Live
    <3>2. /\ self.opened /\ call.pc \notin StartPcs
          /\ \A u \in Threads \ {t} : ~Unstored(u) /\ ~Moved(u)
      BY <3>1 DEF AllInv, ThreadInv, QuietStart, QuietPcs, Live, Unstored, Moved
    <3>3. /\ thr'[t].pc = "load" /\ thr'[t].rc = thr[t].rc
          /\ \A u \in Threads \ {t} : thr'[u] = thr[u]
      BY <2>37 DEF ThreadMove, ThrGoto, TypeOK, ThrType
    <3>4. UNCHANGED <<self, io, call, server, entered, accepted>>
      BY <2>37 DEF ThreadMove, counts
    <3>5. Serving' /\ Fresh' /\ Told'
      BY <2>u, <3>2, <3>3, <3>4, ServingThread DEF FifoInv, Live
    <3> SUFFICES ASSUME ~env.rehw PROVE Flow'
      BY <2>u, <3>5, FlowFree DEF FifoInv, Flow
    <3>s. Streams
      BY <3>2 DEF Streams, StartPcs
    <3>6. Totals' /\ Received'
      BY <2>u, <3>1, <3>2, <3>3, <3>4, <3>s DEF FifoInv, Totals, Received, Unstored
    <3>7. \A u \in Threads : (Unstored(u)' <=> Unstored(u)) /\ (Moved(u)' <=> u = t) /\ ~Moved(u) /\ thr'[u].rc = thr[u].rc
      BY <3>1, <3>2, <3>3 DEF Unstored, Moved
    <3>8. Counts'
      BY <3>4, <3>7, <3>s DEF FifoInv, Counts
    <3>9. Copied = 0
      <4>1. lock # App
        BY <3>1, Nobody
      <4>2. QED
        BY <4>1 DEF AllInv, AppLocking, Copied
    <3>10. /\ self.bufptr \in Nat /\ entered \in Nat /\ thr[t].rc \in Nat /\ thr[t].rc <= self.bufptr
           /\ self.bufptr <= BufSize /\ BufSize \in Nat
      <4>1. self.bufptr \in Nat /\ entered \in Nat /\ thr[t].rc \in Nat /\ BufSize \in Nat
        BY SizesAssumption DEF TypeOK, SelfType, ThrType, SizeTs
      <4>2. thr[t].rc <= self.bufptr /\ self.bufptr <= BufSize
        BY <3>1 DEF ThreadInv, Unstored, AllInv, Fitting
      <4>3. QED
        BY <4>1, <4>2
    <3>11. \A i \in 0 .. self.bufptr - thr[t].rc - 1 : buffer'[i] = entered - self.bufptr + thr[t].rc + 1 + i
      <4>1. SUFFICES ASSUME NEW i \in 0 .. self.bufptr - thr[t].rc - 1
                     PROVE  buffer'[i] = entered - self.bufptr + thr[t].rc + 1 + i
        OBVIOUS
      <4>2. i \in DOMAIN buffer /\ i + thr[t].rc < BufSize
        <5>1. i \in 0 .. BufSize - 1 /\ i + thr[t].rc < BufSize
          BY <3>10
        <5>2. QED
          BY <5>1 DEF TypeOK
      <4>3. buffer'[i] = buffer[i + thr[t].rc]
        BY <2>37, <4>2 DEF ThreadMove, Consumed
      <4>4. i + thr[t].rc \in 0 .. self.bufptr + Copied - 1
        BY <3>9, <3>10
      <4>5. buffer[i + thr[t].rc] = entered - self.bufptr + 1 + (i + thr[t].rc)
        BY <3>7, <3>s, <4>4 DEF FifoInv, Contents
      <4>6. QED
        BY <3>10, <4>3, <4>5
    <3>12. Contents'
      BY <3>3, <3>4, <3>7, <3>11 DEF Contents
    <3>13. QED
      BY <3>6, <3>8, <3>12 DEF Flow
  <2>38. ASSUME NEW t \in Threads, ThreadLoad(t) PROVE FifoInv'
    <3>1. thr[t].pc = "load" /\ thr'[t].pc \in {"store"} /\ thr'[t].rc = thr[t].rc
      BY <2>38 DEF ThreadLoad, ThrGoto, TypeOK, ThrType
    <3>2. (\A u \in Threads \ {t} : thr'[u] = thr[u]) /\ UNCHANGED <<call, io, buffer, server, entered, accepted>>
      BY <2>38 DEF ThreadLoad, ThrGoto, TypeOK, ThrType, counts
    <3>3. SelfKept
      BY <2>38 DEF ThreadLoad, TypeOK, SelfType, SelfKept
    <3>4. Serving' /\ Fresh' /\ Told'
      BY <2>u, <3>1, <3>2, <3>3, ServingThread DEF FifoInv, SelfKept, Live
    <3>5. Flow'
      BY <2>u, <3>1, <3>2, <3>3, FlowThread DEF FifoInv, Flow, SelfKept, Unstored, Moved
    <3>6. QED
      BY <3>4, <3>5 DEF FifoInv, Flow
  <2>39. ASSUME NEW t \in Threads, ThreadStore(t) PROVE FifoInv'
    <3>1. thr[t].pc = "store" /\ ThreadInv(t) /\ Live(t)
      BY <2>39 DEF ThreadStore, AllInv, Live
    <3>2. /\ self.opened /\ call.pc \notin StartPcs
          /\ \A u \in Threads \ {t} : ~Unstored(u) /\ ~Moved(u)
      BY <3>1 DEF AllInv, ThreadInv, QuietStart, QuietPcs, Live, Unstored, Moved
    <3>7. /\ thr'[t].pc = "signal" /\ thr'[t].rc = thr[t].rc
          /\ \A u \in Threads \ {t} : thr'[u] = thr[u]
      BY <2>39 DEF ThreadStore, TypeOK, ThrType
    <3>8. UNCHANGED <<buffer, io, call, server, entered, accepted>>
      BY <2>39 DEF ThreadStore, counts
    <3>9. Serving' /\ Fresh' /\ Told'
      <4>1. self'.opened = self.opened /\ self'.active = self.active /\ self'.total = self.total
        BY <2>39 DEF ThreadStore, TypeOK, SelfType
      <4>2. QED
        BY <2>u, <3>2, <3>7, <3>8, <4>1, ServingThread DEF FifoInv, Live
    <3> SUFFICES ASSUME ~env.rehw PROVE Flow'
      BY <2>u, <3>9, FlowFree DEF FifoInv, Flow
    <3>s. Streams
      BY <3>2 DEF Streams, StartPcs
    <3>3. lock = t /\ thr[t].loaded = self.bufptr /\ thr[t].rc <= self.bufptr
      BY <3>1 DEF ThreadInv, Unstored
    <3>4. thr[t].rc \in Nat /\ self.bufptr \in Nat /\ self.bufptr \in SizeTs /\ entered \in Nat /\ Len(server) \in Nat
      <4>1. thr[t].rc \in Nat /\ self.bufptr \in SizeTs
        BY SizesAssumption DEF TypeOK, SelfType, ThrType
      <4>2. self.bufptr \in Nat
        BY <4>1, SizesAssumption DEF SizeTs
      <4>3. QED
        BY <4>1, <4>2 DEF TypeOK
    <3>5. self' = [self EXCEPT !.bufptr = self.bufptr - thr[t].rc]
      BY <2>39, <3>3, <3>4, DifferenceFits, SizeTIdentity DEF ThreadStore
    <3>6. /\ self'.opened = self.opened /\ self'.active = self.active /\ self'.total = self.total
          /\ self'.bufptr = self.bufptr - thr[t].rc
      BY <3>5 DEF TypeOK, SelfType
    <3>10. \A u \in Threads : ~Unstored(u)' /\ ~Moved(u)' /\ thr'[u].pc \notin {"mark", "total"}
      BY <3>2, <3>7 DEF Unstored, Moved
    <3>11. Totals' /\ Received'
      BY <2>u, <3>6, <3>8, <3>10, <3>s DEF FifoInv, Totals, Received
    <3>12. entered' - self'.bufptr = entered - self.bufptr + thr[t].rc
      BY <3>4, <3>6, <3>8
    <3>13. Counts'
      <4>1. Len(server) = entered - self.bufptr + thr[t].rc
        BY <3>1, <3>s DEF FifoInv, Counts, Unstored
      <4>2. QED
        BY <3>8, <3>10, <3>12, <4>1 DEF Counts
    <3>14. Contents'
      <4>1. Copied' = 0
        <5>1. lock # App
          BY <3>3, Nobody
        <5>2. QED
          BY <3>8, <5>1 DEF AllInv, AppLocking, Copied
      <4>2. self'.bufptr + Copied' - 1 = self.bufptr - thr[t].rc - 1
        BY <3>4, <3>6, <4>1
      <4>3. \A i \in 0 .. self.bufptr - thr[t].rc - 1 : buffer[i] = entered - self.bufptr + thr[t].rc + 1 + i
        BY <3>1, <3>s DEF FifoInv, Contents, Moved
      <4>4. QED
        BY <3>8, <3>10, <3>12, <4>2, <4>3 DEF Contents
    <3>15. QED
      BY <3>11, <3>13, <3>14 DEF Flow
  <2>40. ASSUME NEW t \in Threads, ThreadSignal(t) PROVE FifoInv'
    <3>1. thr[t].pc \in {"signal", "quit"} /\ thr'[t].rc = thr[t].rc
      BY <2>40 DEF ThreadSignal, ThrGoto, TypeOK, ThrType
    <3>2. thr'[t].pc \in {"top", "wait"} \/ (thr'[t].pc = "exited" /\ ~self.active)
      BY <2>40 DEF ThreadSignal, ThrGoto, TypeOK, ThrType
    <3>3. (\A u \in Threads \ {t} : thr'[u] = thr[u]) /\ UNCHANGED <<self, call, io, buffer, server, entered, accepted>>
      BY <2>40 DEF ThreadSignal, ThrGoto, TypeOK, ThrType, counts
    <3>4. Serving' /\ Fresh' /\ Told'
      BY <2>u, <3>1, <3>2, <3>3, ServingThread DEF FifoInv, Live
    <3>5. Flow'
      BY <2>u, <3>1, <3>2, <3>3, FlowThread DEF FifoInv, Flow, Unstored, Moved
    <3>6. QED
      BY <3>4, <3>5 DEF FifoInv, Flow
  <2>41. ASSUME NEW t \in Threads, ThreadWait(t) PROVE FifoInv'
    <3>1. thr[t].pc = "wait" /\ thr'[t].pc \in {"asleep"} /\ thr'[t].rc = thr[t].rc
      BY <2>41 DEF ThreadWait, ThrGoto, TypeOK, ThrType
    <3>2. (\A u \in Threads \ {t} : thr'[u] = thr[u]) /\ UNCHANGED <<call, io, buffer, server, entered, accepted>>
      BY <2>41 DEF ThreadWait, ThrGoto, TypeOK, ThrType, counts
    <3>3. SelfKept
      BY <2>41 DEF ThreadWait, TypeOK, SelfType, SelfKept
    <3>4. Serving' /\ Fresh' /\ Told'
      BY <2>u, <3>1, <3>2, <3>3, ServingThread DEF FifoInv, SelfKept, Live
    <3>5. Flow'
      BY <2>u, <3>1, <3>2, <3>3, FlowThread DEF FifoInv, Flow, SelfKept, Unstored, Moved
    <3>6. QED
      BY <3>4, <3>5 DEF FifoInv, Flow
  <2>42. ASSUME NEW t \in Threads, ThreadAwake(t) PROVE FifoInv'
    <3>1. thr[t].pc = "asleep" /\ thr'[t].pc \in {"top"} /\ thr'[t].rc = thr[t].rc
      BY <2>42 DEF ThreadAwake, ThrGoto, TypeOK, ThrType
    <3>2. (\A u \in Threads \ {t} : thr'[u] = thr[u]) /\ UNCHANGED <<call, io, buffer, server, entered, accepted>>
      BY <2>42 DEF ThreadAwake, ThrGoto, TypeOK, ThrType, counts
    <3>3. SelfKept
      BY <2>42 DEF ThreadAwake, TypeOK, SelfType, SelfKept
    <3>4. Serving' /\ Fresh' /\ Told'
      BY <2>u, <3>1, <3>2, <3>3, ServingThread DEF FifoInv, SelfKept, Live
    <3>5. Flow'
      BY <2>u, <3>1, <3>2, <3>3, FlowThread DEF FifoInv, Flow, SelfKept, Unstored, Moved
    <3>6. QED
      BY <3>4, <3>5 DEF FifoInv, Flow
  <2>43. ASSUME NEW t \in Threads, ThreadCancelTest(t) PROVE FifoInv'
    BY <2>43 DEF ThreadCancelTest, Reset, AllInv, ThreadInv, FailPcs, ResetPcs
  <2>44. ASSUME NEW t \in Threads, ThreadReset(t) PROVE FifoInv'
    BY <2>44 DEF ThreadReset, Reset, AllInv, ThreadInv, FailPcs, ResetPcs
  <2>45. ASSUME NEW t \in Threads, ThreadFailSignal(t) PROVE FifoInv'
    BY <2>45 DEF ThreadFailSignal, Reset, AllInv, ThreadInv, FailPcs, ResetPcs
  <2>46. ASSUME NEW t \in Threads, ThreadDetach(t) PROVE FifoInv'
    BY <2>46 DEF ThreadDetach, Reset, AllInv, ThreadInv, FailPcs, ResetPcs
  <2>47. CASE UNCHANGED vars
    BY <2>u, <2>47 DEF vars, counts, FifoInv, Serving, Fresh, Told, Totals, Counts, Contents, Received,
      Streams, Copied, Unstored, Moved, Live
  <2>48. QED
    BY <2>h, <2>1, <2>2, <2>3, <2>4, <2>5, <2>6, <2>7, <2>8, <2>9, <2>10, <2>11,
       <2>12, <2>13, <2>14, <2>15, <2>16, <2>17, <2>18, <2>19, <2>20, <2>21, <2>22,
       <2>23, <2>24, <2>25, <2>26, <2>27, <2>28, <2>29, <2>30, <2>31, <2>32, <2>33,
       <2>34, <2>35, <2>36, <2>37, <2>38, <2>39, <2>40, <2>41, <2>42, <2>43, <2>44,
       <2>45, <2>46, <2>47
    DEF Next, AppCall, AppStep, ThreadStep

-----------------------------------------------------------------------------
LEMMA FifoAlways == Spec => [](~env.vioFails => FifoInv)
<1>1. Init => FifoInv
  <2> SUFFICES ASSUME Init PROVE FifoInv
    OBVIOUS
  <2> USE DEF Init
  <2>1. Serving
    BY DEF Serving, WritePcs, StopPcs, ResetPcs
  <2>2. Fresh /\ Told
    BY DEF Fresh, Told, HalfReset, StartPcs
  <2>3. Flow
    BY DEF Flow, Totals, Counts, Contents, Received, Streams
  <2>4. QED
    BY <2>1, <2>2, <2>3 DEF FifoInv, Flow
<1>2. TypeOK /\ TypeOK' /\ IInv /\ (~env.vioFails => FifoInv) /\ [Next]_vars
        => (~env.vioFails => FifoInv)'
  <2> SUFFICES ASSUME TypeOK, TypeOK', IInv, ~env.vioFails => FifoInv, [Next]_vars, ~env'.vioFails
               PROVE  FifoInv'
    OBVIOUS
  <2>1. ~env.vioFails
    BY EnvFixed
  <2>2. AllInv
    BY <2>1 DEF IInv, AllInv
  <2>3. Unfailing /\ ~StartRefused
    BY <2>1 DEF Unfailing, StartRefused
  <2>4. QED
    BY <2>1, <2>2, <2>3, FifoStep
<1>3. QED
  BY <1>1, <1>2, TypeCorrect, Inductive, PTL DEF Spec

(* The unlocked stores of roar_pcm_start and of the roar_reset of either   *)
(* thread leave no stream active without a thread to drain it: for any     *)
(* number of streams where roar_vio_write does not fail, and up to the     *)
(* second one where it does.                                               *)
THEOREM ActiveIsDrained == Spec => []ActiveHasThread
<1>1. Newest /\ (~env.vioFails => FifoInv) => ActiveHasThread
  <2> SUFFICES ASSUME Newest, ~env.vioFails => FifoInv, env.vioFails => Created(2),
                      call.pc = "idle", self.active, ~env.createFails
               PROVE  \E t \in Threads : Live(t)
    BY DEF ActiveHasThread, ActiveAlwaysHasThread
  <2>1. CASE ~env.vioFails
    BY <2>1 DEF FifoInv, Serving
  <2>2. CASE env.vioFails
    <3>1. (~Second => FirstAlone) /\ (Second => SecondAlone)
      BY <2>2 DEF Newest
    <3>2. CASE ~Second
      <4>1. 1 \in Threads
        BY SizesAssumption DEF Threads
      <4>2. First /\ (Before(1) \/ thr[1].pc = "reset_active")
        BY <3>1, <3>2 DEF FirstAlone
      <4>3. QED
        BY <4>1, <4>2 DEF Before, BeforeReset, Live
    <3>3. CASE Second
      <4>1. Before(2) \/ thr[2].pc = "reset_active"
        BY <3>1, <3>3 DEF SecondAlone
      <4>2. QED
        BY <3>3, <4>1 DEF Second, Before, BeforeReset, Live
    <3>4. QED
      BY <3>2, <3>3
  <2>3. QED
    BY <2>1, <2>2
<1>2. QED
  BY <1>1, NewestAlways, FifoAlways, PTL

(* A transfer reports what it has queued: the early returns of roar_write  *)
(* and the waits that roar_reset cuts short lose nothing that              *)
(* roar_pcm_transfer counts as written, as long as writes succeed.         *)
THEOREM ReportsAreTrue == Spec => []ReportedIsQueued
<1>1. TypeOK /\ (~env.vioFails => FifoInv) => ReportedIsQueued
  BY DEF ReportedIsQueued, FifoInv, Told, TypeOK
<1>2. QED
  BY <1>1, TypeCorrect, FifoAlways, PTL

-----------------------------------------------------------------------------
(* A stream that is started once and may fail, of a caller that hands over *)
(* no more than fits and leaves hw_params alone, in frames of one byte:    *)
(* until roar_vio_write fails it is as where writes     *)
(* succeed; then it is given up.                                           *)
Once == env.vioFails /\ env.gate /\ env.threads = 1 /\ ~env.rehw /\ env.frame = 1

(* Nothing starts a second thread, not even roar_pcm_pointer.              *)
NoRestart ==
  /\ Created(1)
  /\ First => /\ call.pc \notin StartPcs \cup {"start"}
              /\ call.ret = "idle" \/ call.pc = "pointer_lock"
              /\ call.pc = "pointer" => io.appl >= self.lastPtr

(* An active stream is one alsa-lib has prepared, and nobody is stopping   *)
(* it, but for the first steps of that.                                    *)
ActiveIn ==
  self.active =>
    /\ call.pc = "hw_bufptr" => env.rehw
    /\ call.pc \notin {"stop_signal", "stop_join", "reset_done"} \cup ResetPcs
    /\ io.state \in {"prepared", "running", "xrun"} \/ call.pc \in {"stop", "stop_clear"}

(* The units that entered and libroar has not got.  A transfer hands over  *)
(* no more than there is room for beside them, or finds the stream closed. *)
Owing == entered - Len(server)
Fits ==
  /\ call.pc \in WritePcs => call.size >= 1
  /\ \/ call.pc = "write" /\ self.active
     \/ call.pc \in WritePcs \ {"write", "write_signal"}
     => Owing + call.size <= BufSize

(* No stream was opened, or the server refused the last one.               *)
Refused ==
  /\ ~First /\ ~self.opened /\ ~self.active /\ self.total = 0 /\ self.bufptr = 0
  /\ call.pc \in {"idle", "hw_bufptr", "start", "stop", "reset", "reset_done", "pointer", "pointer_lock",
                   "write"}

(* A stream is open, or is being opened or closed.                         *)
Opening ==
  /\ self.active => self.opened
  /\ ~self.opened /\ call.pc \notin {"reset_active", "reset_bufptr"} => self.bufptr = 0
Going == FifoInv /\ Opening /\ Fits

(* roar_vio_write failed.  While the thread goes through roar_reset, or    *)
(* finds itself cancelled, the application may still be in roar_write.     *)
Abandoned ==
  /\ First /\ thr[1].pc \in FailPcs \cup {"quit", "exited"}
  /\ thr[1].pc \in {"cancel", "reset"} => (self.active => self.opened)
  /\ thr[1].pc \in {"quit", "reset_bufptr", "reset_rest", "reset_done", "detach", "exited"} =>
       ~self.active
  /\ lock \in {Free, App} /\ (lock = App <=> call.pc \in {"write_load", "write_store"})
  /\ self.total <= Len(server)
  /\ self.bufptr <= BufSize /\ self.bufptr <= Owing /\ (self.active => self.bufptr = Owing)
  /\ call.pc = "write_store" => call.loaded <= Owing /\ (self.active => call.loaded = Owing)
GivenUp == Abandoned /\ Fits

OnceInv == Once => NoRestart /\ ActiveIn /\ ((AllInv /\ (Refused \/ Going)) \/ GivenUp)

(* What roar_pcm_pointer and alsa-lib make of the FIFO.                    *)
LEMMA Pointed ==
  ASSUME TypeOK, PointerLocked
  PROVE  /\ call.pc = "pointer_lock" /\ call'.pc \in {"idle", "write"} /\ call'.ret = "idle"
         /\ io'.state \in {io.state, "xrun"}
         /\ SelfKept /\ UNCHANGED <<lock, thr, server, entered>>
         /\ call'.pc = "write" =>
              call'.size \in Nat /\ call'.size >= 1
              /\ (env.gate /\ env.frame = 1 => call'.size <= BufSize - Signed(self.bufptr))
<1> DEFINE b == Signed(self.bufptr)
           q == env.frame * Frames(b)
           avail == IF env.gate THEN BufSize - q ELSE BufSize
           n == IF call.size <= avail THEN call.size ELSE avail
<1>0. b \in Int /\ q \in Int
  <2>1. b \in Int
    BY SignedInt DEF TypeOK, SelfType
  <2>2. Frames(b) \in Int /\ env.frame \in Int
    BY <2>1, FramesInt, EnvType DEF TypeOK
  <2>3. QED
    BY <2>1, <2>2
<1>00. env.frame = 1 => q = b
  <2> SUFFICES ASSUME env.frame = 1 PROVE q = b
    OBVIOUS
  <2>1. \A m \in Int : m \div 1 = m
    OBVIOUS
  <2>2. b \div 1 = b /\ -((-b) \div 1) = b
    BY <1>0, <2>1
  <2>3. Frames(b) = b
    BY <2>2 DEF Frames
  <2>4. QED
    BY <1>0, <2>3
<1>1. b \in Int /\ q \in Int /\ call.size \in Int /\ BufSize \in Int
  BY <1>0, SizesAssumption DEF TypeOK, SelfType, CallType
<1> HIDE DEF q, b
<1>2. n \in Int /\ (env.gate /\ env.frame = 1 => n <= BufSize - b)
  BY <1>1, <1>00
<1>3. \/ /\ call' = [call EXCEPT !.pc = "idle", !.ret = "idle", !.size = 0]
         /\ io' = [io EXCEPT !.state = "xrun"]
      \/ /\ call' = [call EXCEPT !.pc = IF n > 0 THEN "write" ELSE "idle",
                                 !.ret = "idle", !.size = IF n > 0 THEN n ELSE 0]
         /\ io' = io
  BY DEF PointerLocked, q, b
<1>4. call.pc = "pointer_lock" /\ SelfKept /\ UNCHANGED <<lock, thr, server, entered>>
  BY DEF PointerLocked, SelfKept, counts, TypeOK, SelfType
<1> HIDE DEF n
<1>5. CASE n > 0
  <2>1. call'.pc \in {"idle", "write"} /\ call'.ret = "idle" /\ io'.state \in {io.state, "xrun"}
        /\ (call'.pc = "write" => call'.size = n)
    BY <1>3, <1>5 DEF TypeOK, CallType, IoType
  <2>2. n \in Nat /\ n >= 1 /\ (env.gate /\ env.frame = 1 => n <= BufSize - Signed(self.bufptr))
    BY <1>1, <1>2, <1>5 DEF b
  <2>3. QED
    BY <1>4, <2>1, <2>2
<1>6. CASE ~(n > 0)
  BY <1>1, <1>2, <1>3, <1>4, <1>6 DEF TypeOK, CallType, IoType
<1>7. QED
  BY <1>2, <1>5, <1>6

(* What roar_pcm_pointer finds before it takes the lock, and the first     *)
(* test of roar_pcm_transfer.                                              *)
LEMMA Pointing ==
  ASSUME TypeOK, Pointer
  PROVE  /\ call.pc = "pointer" /\ call'.size = call.size
         /\ \/ call'.pc = "pointer_lock" /\ call'.ret = call.ret
            \/ call'.pc = "stop" /\ call'.ret = "pointer_lock" /\ io.appl < self.lastPtr
         /\ UNCHANGED <<self, lock, io, thr, server, entered>>
  BY DEF Pointer, AppGoto, TypeOK, CallType, counts

LEMMA Testing ==
  ASSUME TypeOK, WriteTest
  PROVE  /\ call.pc = "write" /\ call'.ret = call.ret /\ io'.state = io.state
         /\ \/ self.active /\ call'.pc = "write_room" /\ call'.size = call.size
            \/ ~self.active /\ call'.pc = "idle"
         /\ UNCHANGED <<self, lock, thr, server, entered>>
  BY DEF WriteTest, TransferReturns, AppGoto, TypeOK, CallType, IoType

LEMMA Writing ==
  ASSUME TypeOK, NEW t \in Threads, ThreadWrite(t)
  PROVE  /\ thr[t].pc = "vio_write" /\ thr'[t].pc \in {"mark", "cancel"}
         /\ \A u \in Threads \ {t} : thr'[u] = thr[u]
         /\ UNCHANGED <<self, lock, io, call, entered>>
  BY DEF ThreadWrite, ThrGoto, TypeOK, ThrType, counts

LEMMA ThrGoes ==
  ASSUME TypeOK, NEW t \in Threads, NEW q, ThrGoto(t, q)
  PROVE  /\ thr'[t].pc = q /\ thr'[t].detached = thr[t].detached
         /\ \A u \in Threads \ {t} : thr'[u] = thr[u]
  BY DEF ThrGoto, TypeOK, ThrType

LEMMA CancelOnly ==
  ASSUME TypeOK, AllInv, [Next]_vars, ~\E t \in Threads : ThreadWrite(t) /\ ThrGoto(t, "cancel")
  PROVE  Unfailing
<1> SUFFICES ASSUME NEW u \in Threads PROVE thr'[u].pc # "cancel"
  BY DEF Unfailing
<1>0. thr[u].pc # "cancel" /\ thr \in [Threads -> ThrType]
  BY DEF AllInv, ThreadInv, FailPcs, TypeOK
<1>1. CASE AppCall
  BY <1>0, <1>1 DEF AppCall, HwParams, Prepare, Start, Drop, Write, Delay, Close
<1>2. CASE StartThread
  BY <1>0, <1>2 DEF StartThread, ThrGoto, ThrType
<1>3. CASE AppStep /\ ~StartThread
  BY <1>0, <1>3 DEF AppStep, HwBufptr, StartIgnored, StartRefused, StartNewStream, StartStore, StartThread,
     StartThreadFails, StopTest, StopClear, StopSignal, StopJoin, StopReset, StopReturn,
     Pointer, PointerLocked, WriteTest, WriteRoom, WriteFull, WriteWait, WriteAwake,
     WriteCopy, WriteLoad, WriteStore, WriteSignal
<1>4. ASSUME NEW t \in Threads, ThreadWrite(t) PROVE thr'[u].pc # "cancel"
  BY <1>0, <1>4 DEF ThreadWrite, ThrType
<1>5. ASSUME NEW t \in Threads, ThreadStep(t), ~ThreadWrite(t) PROVE thr'[u].pc # "cancel"
  <2>1. thr[t].pc \notin FailPcs
    BY DEF AllInv, ThreadInv
  <2>2. CASE ThreadReset(t)
    BY <2>1, <2>2 DEF ThreadReset, Reset, FailPcs, ResetPcs
  <2>3. CASE ~ThreadReset(t)
    BY <1>0, <1>5, <2>1, <2>3 DEF ThreadStep, ThreadTest, ThreadCheck, ThreadMark, ThreadTotal,
       ThreadMove, ThreadLoad, ThreadStore, ThreadSignal, ThreadWait, ThreadAwake,
       ThreadCancelTest, ThreadFailSignal, ThreadDetach, ThrGoto, ThrType, FailPcs
  <2>4. QED
    BY <2>2, <2>3
<1>6. CASE Spurious \/ UNCHANGED vars
  BY <1>0, <1>6 DEF Spurious, vars
<1>7. QED
  BY <1>1, <1>2, <1>3, <1>4, <1>5, <1>6 DEF Next

(* Neither a thread that goes on nor a call that keeps out of start.       *)
LEMMA ThreadNoRestart ==
  ASSUME TypeOK, NoRestart, NEW t \in Threads, thr[t].pc # "none", thr'[t].pc # "none",
         \A u \in Threads \ {t} : thr'[u] = thr[u], UNCHANGED <<io, call>>,
         self'.lastPtr \in {0, self.lastPtr}
  PROVE  NoRestart'
<1>1. Created(1)'
  BY DEF NoRestart, Created
<1>2. First' => First
  <2>1. t = 1 \/ (1 \in Threads \ {t})
    BY SizesAssumption DEF Threads
  <2>2. QED
    BY <2>1 DEF First
<1>3. io.appl \in Nat
  BY DEF TypeOK, IoType
<1>4. QED
  BY <1>1, <1>2, <1>3 DEF NoRestart

LEMMA NoRestartStep == TypeOK /\ TypeOK' /\ Once /\ NoRestart /\ [Next]_vars => NoRestart'
  <2> SUFFICES ASSUME TypeOK, TypeOK', Once, NoRestart, [Next]_vars PROVE NoRestart'
    OBVIOUS
  <2>a. 1 \in Threads /\ \A u \in Threads : u \in Nat /\ (u > 1 \/ u = 1)
    BY SizesAssumption DEF Threads
  <2>s. Spare => ~First
    BY DEF Spare, First, Once
  <2> USE DEF TypeOK, SelfType, IoType, CallType, ThrType, AppGoto, ThrGoto, StartPcs
  <2>1. CASE HwParams
    BY <2>1, <2>a, <2>s DEF HwParams, NoRestart, First, Created
  <2>h. CASE HwBufptr
    BY <2>h, <2>a, <2>s DEF HwBufptr, NoRestart, First, Created
  <2>2. CASE Prepare
    BY <2>2, <2>a, <2>s DEF Prepare, NoRestart, First, Created
  <2>3. CASE Start
    BY <2>3, <2>a, <2>s DEF Start, NoRestart, First, Created
  <2>4. CASE Drop
    BY <2>4, <2>a, <2>s DEF Drop, NoRestart, First, Created
  <2>5. CASE Write
    BY <2>5, <2>a, <2>s DEF Write, NoRestart, First, Created
  <2>6. CASE Delay
    BY <2>6, <2>a, <2>s DEF Delay, NoRestart, First, Created
  <2>7. CASE Close
    BY <2>7, <2>a, <2>s DEF Close, NoRestart, First, Created
  <2>8. CASE StartIgnored
    BY <2>8, <2>a, <2>s DEF StartIgnored, NoRestart, First, Created
  <2>9. CASE StartRefused
    BY <2>9, <2>a, <2>s DEF StartRefused, NoRestart, First, Created
  <2>10. CASE StartNewStream
    BY <2>10, <2>a, <2>s DEF StartNewStream, NoRestart, First, Created
  <2>11. CASE StartStore
    BY <2>11, <2>a, <2>s DEF StartStore, NoRestart, First, Created
  <2>12. CASE StartThread
    <3>1. PICK t \in Threads : /\ thr[t].pc = "none" /\ \A u \in 1 .. t - 1 : thr[u].pc # "none"
                               /\ ThrGoto(t, "top")
      BY <2>12 DEF StartThread
    <3>2. ~First /\ 1 \in Threads
      BY <2>12, <2>a DEF StartThread, NoRestart
    <3>3. t = 1
      <4>1. t \in Nat /\ t >= 1 /\ thr[1].pc = "none"
        BY <3>2 DEF First, Threads
      <4>2. t > 1 => 1 \in 1 .. t - 1
        BY <4>1
      <4>3. ~(t > 1)
        BY <3>1, <4>1, <4>2
      <4>4. QED
        BY <4>1, <4>3
    <3>4. Created(1)'
      BY <3>1, <3>3 DEF NoRestart, Created, Threads
    <3>5. call'.pc = call.ret /\ call'.ret = call.ret /\ call.ret \in {"idle", "pointer_lock"}
      BY <2>12 DEF StartThread
    <3>6. QED
      BY <3>4, <3>5 DEF NoRestart
  <2>13. CASE StartThreadFails
    BY <2>13, <2>a, <2>s DEF StartThreadFails, NoRestart, First, Created
  <2>14. CASE StopTest
    BY <2>14, <2>a, <2>s DEF StopTest, NoRestart, First, Created
  <2>15. CASE StopClear
    BY <2>15, <2>a, <2>s DEF StopClear, NoRestart, First, Created
  <2>16. CASE StopSignal
    BY <2>16, <2>a, <2>s DEF StopSignal, NoRestart, First, Created
  <2>17. CASE StopJoin
    BY <2>17, <2>a, <2>s DEF StopJoin, NoRestart, First, Created
  <2>18. CASE StopReset
    BY <2>18, <2>a, <2>s DEF StopReset, Reset, ResetPcs, ResetRest, ResetActive, NoRestart, First,
      Created
  <2>19. CASE StopReturn
    BY <2>19, <2>a, <2>s DEF StopReturn, NoRestart, First, Created
  <2>20. CASE Pointer
    <3>1. /\ call.pc = "pointer" /\ UNCHANGED <<self, io, thr>>
          /\ \/ call'.pc = "pointer_lock" /\ call'.ret = call.ret
             \/ call'.pc = "stop" /\ io.appl < self.lastPtr
      BY <2>20, Pointing
    <3>2. First => io.appl >= self.lastPtr
      BY <3>1 DEF NoRestart
    <3>3. io.appl \in Int /\ self.lastPtr \in Int
      BY SizesAssumption DEF SizeTs
    <3>4. First => call'.pc = "pointer_lock"
      BY <3>1, <3>2, <3>3
    <3>5. QED
      BY <3>1, <3>4 DEF NoRestart, First, Created
  <2>21. CASE PointerLocked
    <3>1. call'.pc \in {"idle", "write"} /\ call'.ret = "idle" /\ thr' = thr
      BY <2>21, Pointed
    <3>2. QED
      BY <3>1 DEF NoRestart, First, Created
  <2>22. CASE WriteTest
    <3>1. call'.pc \in {"idle", "write_room"} /\ call.pc = "write" /\ call'.ret = call.ret /\ thr' = thr
      BY <2>22, Testing
    <3>2. QED
      BY <3>1 DEF NoRestart, First, Created
  <2>23. CASE WriteRoom
    BY <2>23, <2>a, <2>s DEF WriteRoom, NoRestart, First, Created
  <2>24. CASE WriteFull
    BY <2>24, <2>a, <2>s DEF WriteFull, NoRestart, First, Created
  <2>25. CASE WriteWait
    BY <2>25, <2>a, <2>s DEF WriteWait, NoRestart, First, Created
  <2>26. CASE WriteAwake
    BY <2>26, <2>a, <2>s DEF WriteAwake, NoRestart, First, Created
  <2>27. CASE WriteCopy
    BY <2>27, <2>a, <2>s DEF WriteCopy, NoRestart, First, Created
  <2>28. CASE WriteLoad
    BY <2>28, <2>a, <2>s DEF WriteLoad, NoRestart, First, Created
  <2>29. CASE WriteStore
    BY <2>29, <2>a, <2>s DEF WriteStore, NoRestart, First, Created
  <2>30. CASE WriteSignal
    BY <2>30, <2>a, <2>s DEF WriteSignal, TransferReturns, NoRestart, First, Created
  <2>31. CASE Spurious
    BY <2>31, <2>a, <2>s DEF Spurious, NoRestart, First, Created
  <2>32. ASSUME NEW t \in Threads, ThreadTest(t) PROVE NoRestart'
    BY <2>32, <2>a, <2>s DEF ThreadTest, NoRestart, First, Created
  <2>33. ASSUME NEW t \in Threads, ThreadCheck(t) PROVE NoRestart'
    BY <2>33, <2>a, <2>s DEF ThreadCheck, NoRestart, First, Created
  <2>34. ASSUME NEW t \in Threads, ThreadWrite(t) PROVE NoRestart'
    <3>1. /\ thr[t].pc = "vio_write" /\ thr'[t].pc # "none" /\ UNCHANGED <<io, call, self>>
          /\ \A u \in Threads \ {t} : thr'[u] = thr[u]
      BY <2>34, Writing
    <3>2. QED
      BY <3>1, ThreadNoRestart
  <2>35. ASSUME NEW t \in Threads, ThreadMark(t) PROVE NoRestart'
    BY <2>35, <2>a, <2>s DEF ThreadMark, NoRestart, First, Created
  <2>36. ASSUME NEW t \in Threads, ThreadTotal(t) PROVE NoRestart'
    BY <2>36, <2>a, <2>s DEF ThreadTotal, NoRestart, First, Created
  <2>37. ASSUME NEW t \in Threads, ThreadMove(t) PROVE NoRestart'
    BY <2>37, <2>a, <2>s DEF ThreadMove, NoRestart, First, Created
  <2>38. ASSUME NEW t \in Threads, ThreadLoad(t) PROVE NoRestart'
    BY <2>38, <2>a, <2>s DEF ThreadLoad, NoRestart, First, Created
  <2>39. ASSUME NEW t \in Threads, ThreadStore(t) PROVE NoRestart'
    BY <2>39, <2>a, <2>s DEF ThreadStore, NoRestart, First, Created
  <2>40. ASSUME NEW t \in Threads, ThreadSignal(t) PROVE NoRestart'
    <3>1. /\ thr[t].pc \in {"signal", "quit"} /\ UNCHANGED <<io, call, self>>
          /\ \E q \in {"top", "wait", "exited"} : ThrGoto(t, q)
      BY <2>40 DEF ThreadSignal
    <3>2. thr'[t].pc # "none" /\ \A u \in Threads \ {t} : thr'[u] = thr[u]
      BY <3>1, ThrGoes
    <3>3. QED
      BY <3>1, <3>2, ThreadNoRestart
  <2>41. ASSUME NEW t \in Threads, ThreadWait(t) PROVE NoRestart'
    BY <2>41, <2>a, <2>s DEF ThreadWait, NoRestart, First, Created
  <2>42. ASSUME NEW t \in Threads, ThreadAwake(t) PROVE NoRestart'
    BY <2>42, <2>a, <2>s DEF ThreadAwake, NoRestart, First, Created
  <2>43. ASSUME NEW t \in Threads, ThreadCancelTest(t) PROVE NoRestart'
    BY <2>43, <2>a, <2>s DEF ThreadCancelTest, NoRestart, First, Created
  <2>44. ASSUME NEW t \in Threads, ThreadReset(t) PROVE NoRestart'
    <3>1. PICK q \in ResetPcs \cup {"reset_done"} : Reset(thr[t].pc, q) /\ ThrGoto(t, q)
      BY <2>44 DEF ThreadReset
    <3>2. self'.lastPtr \in {0, self.lastPtr}
      BY <3>1 DEF Reset, ResetActive, ResetRest
    <3>3. thr[t].pc # "none" /\ UNCHANGED <<io, call>>
      BY <2>44, <3>1 DEF ThreadReset, Reset
    <3>4. thr'[t].pc # "none" /\ \A u \in Threads \ {t} : thr'[u] = thr[u]
      <4>1. thr'[t].pc = q /\ \A u \in Threads \ {t} : thr'[u] = thr[u]
        BY <3>1, ThrGoes
      <4>2. q # "none"
        BY DEF ResetPcs
      <4>3. QED
        BY <4>1, <4>2
    <3>5. QED
      BY <3>2, <3>3, <3>4, ThreadNoRestart
  <2>45. ASSUME NEW t \in Threads, ThreadFailSignal(t) PROVE NoRestart'
    BY <2>45, <2>a, <2>s DEF ThreadFailSignal, NoRestart, First, Created
  <2>46. ASSUME NEW t \in Threads, ThreadDetach(t) PROVE NoRestart'
    BY <2>46, <2>a, <2>s DEF ThreadDetach, NoRestart, First, Created
  <2>47. CASE UNCHANGED vars
    BY <2>47, <2>a, <2>s DEF vars, NoRestart, First, Created
  <2>48. QED
    BY <2>h, <2>1, <2>2, <2>3, <2>4, <2>5, <2>6, <2>7, <2>8, <2>9, <2>10, <2>11, <2>12, <2>13, <2>14,
       <2>15, <2>16, <2>17, <2>18, <2>19, <2>20, <2>21, <2>22, <2>23, <2>24, <2>25, <2>26, <2>27,
       <2>28, <2>29, <2>30, <2>31, <2>32, <2>33, <2>34, <2>35, <2>36, <2>37, <2>38, <2>39, <2>40,
       <2>41, <2>42, <2>43, <2>44, <2>45, <2>46, <2>47
    DEF Next, AppCall, AppStep, ThreadStep

(* In "start" and its stores alsa-lib has prepared the stream.             *)
Startable ==
  call.pc \in StartPcs \cup {"start"} =>
    /\ io.state \in {"prepared", "running", "xrun"}
    /\ call.pc = "start" /\ ~self.opened => ~self.active

LEMMA ActiveInStep == TypeOK /\ TypeOK' /\ Startable /\ ActiveIn /\ [Next]_vars => ActiveIn'
  <2> SUFFICES ASSUME TypeOK, TypeOK', Startable, ActiveIn, [Next]_vars PROVE ActiveIn'
    OBVIOUS
  <2>u. env' = env
    BY EnvFixed
  <2> USE <2>u DEF TypeOK, SelfType, IoType, CallType, AppGoto, StartPcs, ResetPcs
  <2>1. CASE HwParams
    BY <2>1 DEF HwParams, ActiveIn, Startable
  <2>h. CASE HwBufptr
    BY <2>h DEF HwBufptr, ActiveIn, Startable
  <2>2. CASE Prepare
    BY <2>2 DEF Prepare, ActiveIn, Startable
  <2>3. CASE Start
    BY <2>3 DEF Start, ActiveIn, Startable
  <2>4. CASE Drop
    BY <2>4 DEF Drop, ActiveIn, Startable
  <2>5. CASE Write
    BY <2>5 DEF Write, ActiveIn, Startable
  <2>6. CASE Delay
    BY <2>6 DEF Delay, ActiveIn, Startable
  <2>7. CASE Close
    BY <2>7 DEF Close, ActiveIn, Startable
  <2>8. CASE StartIgnored
    BY <2>8 DEF StartIgnored, ActiveIn, Startable
  <2>9. CASE StartRefused
    BY <2>9 DEF StartRefused, ActiveIn, Startable
  <2>10. CASE StartNewStream
    BY <2>10 DEF StartNewStream, ActiveIn, Startable
  <2>11. CASE StartStore
    BY <2>11 DEF StartStore, ActiveIn, Startable
  <2>12. CASE StartThread
    BY <2>12 DEF StartThread, ActiveIn, Startable
  <2>13. CASE StartThreadFails
    BY <2>13 DEF StartThreadFails, ActiveIn, Startable
  <2>14. CASE StopTest
    BY <2>14 DEF StopTest, ActiveIn, Startable
  <2>15. CASE StopClear
    BY <2>15 DEF StopClear, ActiveIn, Startable
  <2>16. CASE StopSignal
    BY <2>16 DEF StopSignal, ActiveIn, Startable
  <2>17. CASE StopJoin
    BY <2>17 DEF StopJoin, ActiveIn, Startable
  <2>18. CASE StopReset
    <3>1. call.pc \in ResetPcs /\ self'.active => self.active
      BY <2>18 DEF StopReset, Reset, ResetRest, ResetActive
    <3>2. call.pc \in ResetPcs
      BY <2>18 DEF StopReset, Reset
    <3>3. QED
      BY <3>1, <3>2 DEF ActiveIn
  <2>19. CASE StopReturn
    BY <2>19 DEF StopReturn, ActiveIn, Startable
  <2>20. CASE Pointer
    <3>1. /\ call'.pc \in {"pointer_lock", "stop"} /\ call.pc = "pointer"
          /\ UNCHANGED <<self, io>>
      BY <2>20, Pointing
    <3>2. QED
      BY <3>1 DEF ActiveIn
  <2>21. CASE PointerLocked
    BY <2>21, Pointed DEF ActiveIn, SelfKept
  <2>22. CASE WriteTest
    BY <2>22 DEF WriteTest, TransferReturns, ActiveIn, Startable
  <2>23. CASE WriteRoom
    BY <2>23 DEF WriteRoom, ActiveIn, Startable
  <2>24. CASE WriteFull
    BY <2>24 DEF WriteFull, ActiveIn, Startable
  <2>25. CASE WriteWait
    BY <2>25 DEF WriteWait, ActiveIn, Startable
  <2>26. CASE WriteAwake
    BY <2>26 DEF WriteAwake, ActiveIn, Startable
  <2>27. CASE WriteCopy
    BY <2>27 DEF WriteCopy, ActiveIn, Startable
  <2>28. CASE WriteLoad
    BY <2>28 DEF WriteLoad, ActiveIn, Startable
  <2>29. CASE WriteStore
    BY <2>29 DEF WriteStore, ActiveIn, Startable
  <2>30. CASE WriteSignal
    BY <2>30 DEF WriteSignal, TransferReturns, ActiveIn, Startable
  <2>31. CASE Spurious
    BY <2>31 DEF Spurious, ActiveIn, Startable
  <2>32. ASSUME NEW t \in Threads, ThreadTest(t) PROVE ActiveIn'
    BY <2>32 DEF ThreadTest, ActiveIn, Startable
  <2>33. ASSUME NEW t \in Threads, ThreadCheck(t) PROVE ActiveIn'
    BY <2>33 DEF ThreadCheck, ActiveIn, Startable
  <2>34. ASSUME NEW t \in Threads, ThreadWrite(t) PROVE ActiveIn'
    BY <2>34 DEF ThreadWrite, ActiveIn, Startable
  <2>35. ASSUME NEW t \in Threads, ThreadMark(t) PROVE ActiveIn'
    BY <2>35 DEF ThreadMark, ActiveIn, Startable
  <2>36. ASSUME NEW t \in Threads, ThreadTotal(t) PROVE ActiveIn'
    BY <2>36 DEF ThreadTotal, ActiveIn, Startable
  <2>37. ASSUME NEW t \in Threads, ThreadMove(t) PROVE ActiveIn'
    BY <2>37 DEF ThreadMove, ActiveIn, Startable
  <2>38. ASSUME NEW t \in Threads, ThreadLoad(t) PROVE ActiveIn'
    BY <2>38 DEF ThreadLoad, ActiveIn, Startable
  <2>39. ASSUME NEW t \in Threads, ThreadStore(t) PROVE ActiveIn'
    BY <2>39 DEF ThreadStore, ActiveIn, Startable
  <2>40. ASSUME NEW t \in Threads, ThreadSignal(t) PROVE ActiveIn'
    BY <2>40 DEF ThreadSignal, ActiveIn, Startable
  <2>41. ASSUME NEW t \in Threads, ThreadWait(t) PROVE ActiveIn'
    BY <2>41 DEF ThreadWait, ActiveIn, Startable
  <2>42. ASSUME NEW t \in Threads, ThreadAwake(t) PROVE ActiveIn'
    BY <2>42 DEF ThreadAwake, ActiveIn, Startable
  <2>43. ASSUME NEW t \in Threads, ThreadCancelTest(t) PROVE ActiveIn'
    BY <2>43 DEF ThreadCancelTest, ActiveIn, Startable
  <2>44. ASSUME NEW t \in Threads, ThreadReset(t) PROVE ActiveIn'
    BY <2>44 DEF ThreadReset, Reset, ResetRest, ResetActive, ActiveIn, Startable
  <2>45. ASSUME NEW t \in Threads, ThreadFailSignal(t) PROVE ActiveIn'
    BY <2>45 DEF ThreadFailSignal, ActiveIn, Startable
  <2>46. ASSUME NEW t \in Threads, ThreadDetach(t) PROVE ActiveIn'
    BY <2>46 DEF ThreadDetach, ActiveIn, Startable
  <2>47. CASE UNCHANGED vars
    BY <2>47 DEF vars, ActiveIn, Startable
  <2>48. QED
    BY <2>h, <2>1, <2>2, <2>3, <2>4, <2>5, <2>6, <2>7, <2>8, <2>9, <2>10, <2>11, <2>12, <2>13, <2>14,
       <2>15, <2>16, <2>17, <2>18, <2>19, <2>20, <2>21, <2>22, <2>23, <2>24, <2>25, <2>26, <2>27,
       <2>28, <2>29, <2>30, <2>31, <2>32, <2>33, <2>34, <2>35, <2>36, <2>37, <2>38, <2>39, <2>40,
       <2>41, <2>42, <2>43, <2>44, <2>45, <2>46, <2>47
    DEF Next, AppCall, AppStep, ThreadStep

(* A stream that is not open stays like that until one is opened.          *)
LEMMA RefusedStep ==
  TypeOK /\ TypeOK' /\ NoRestart /\ Refused /\ [Next]_vars /\ ~StartNewStream
  => Refused' /\ UNCHANGED <<thr, entered, server>>
  <2> DEFINE Same == Refused' /\ UNCHANGED <<thr, entered, server>>
  <2> SUFFICES ASSUME TypeOK, TypeOK', NoRestart, Refused, [Next]_vars, ~StartNewStream PROVE Same
    OBVIOUS
  <2>a. 1 \in Threads /\ \A u \in Threads : thr[u].pc = "none"
    BY SizesAssumption DEF Threads, NoRestart, Created, Refused, First
  <2> USE DEF TypeOK, SelfType, IoType, CallType, AppGoto, counts, ResetPcs
  <2>1. CASE HwParams
    BY <2>1, <2>a DEF HwParams, Refused, First
  <2>h. CASE HwBufptr
    BY <2>h, <2>a DEF HwBufptr, Refused, First
  <2>2. CASE Prepare
    BY <2>2, <2>a DEF Prepare, Refused, First
  <2>3. CASE Start
    BY <2>3, <2>a DEF Start, Refused, First
  <2>4. CASE Drop
    BY <2>4, <2>a DEF Drop, Refused, First
  <2>5. CASE Write
    BY <2>5, <2>a DEF Write, Refused, First
  <2>6. CASE Delay
    BY <2>6, <2>a DEF Delay, Refused, First
  <2>7. CASE Close
    BY <2>7, <2>a DEF Close, Refused, First
  <2>8. CASE StartIgnored
    BY <2>8, <2>a DEF StartIgnored, Refused, First
  <2>9. CASE StartRefused
    BY <2>9, <2>a DEF StartRefused, Refused, First
  <2>10. CASE StartNewStream
    BY <2>10, <2>a DEF StartNewStream, Refused, First
  <2>11. CASE StartStore
    BY <2>11, <2>a DEF StartStore, Refused, First
  <2>12. CASE StartThread
    BY <2>12, <2>a DEF StartThread, Refused, First
  <2>13. CASE StartThreadFails
    BY <2>13, <2>a DEF StartThreadFails, Refused, First
  <2>14. CASE StopTest
    BY <2>14, <2>a DEF StopTest, Refused, First
  <2>15. CASE StopClear
    BY <2>15, <2>a DEF StopClear, Refused, First
  <2>16. CASE StopSignal
    BY <2>16, <2>a DEF StopSignal, Refused, First
  <2>17. CASE StopJoin
    BY <2>17, <2>a DEF StopJoin, Refused, First
  <2>18. CASE StopReset
    BY <2>18, <2>a DEF StopReset, Reset, Refused, First
  <2>19. CASE StopReturn
    BY <2>19, <2>a DEF StopReturn, Refused, First
  <2>20. CASE Pointer
    BY <2>20, <2>a DEF Pointer, Refused, First
  <2>21. CASE PointerLocked
    <3>1. call'.pc \in {"idle", "write"} /\ SelfKept /\ UNCHANGED <<thr, entered, server>>
      BY <2>21, Pointed
    <3>2. QED
      BY <3>1 DEF Refused, First, SelfKept
  <2>22. CASE WriteTest
    BY <2>22, <2>a DEF WriteTest, TransferReturns, Refused, First
  <2>23. CASE WriteRoom
    BY <2>23, <2>a DEF WriteRoom, Refused, First
  <2>24. CASE WriteFull
    BY <2>24, <2>a DEF WriteFull, Refused, First
  <2>25. CASE WriteWait
    BY <2>25, <2>a DEF WriteWait, Refused, First
  <2>26. CASE WriteAwake
    BY <2>26, <2>a DEF WriteAwake, Refused, First
  <2>27. CASE WriteCopy
    BY <2>27, <2>a DEF WriteCopy, Refused, First
  <2>28. CASE WriteLoad
    BY <2>28, <2>a DEF WriteLoad, Refused, First
  <2>29. CASE WriteStore
    BY <2>29, <2>a DEF WriteStore, Refused, First
  <2>30. CASE WriteSignal
    BY <2>30, <2>a DEF WriteSignal, Refused, First
  <2>31. CASE Spurious
    BY <2>31, <2>a DEF Spurious, Refused, First
  <2>32. ASSUME NEW t \in Threads, ThreadTest(t) PROVE Same
    BY <2>32, <2>a DEF ThreadTest, Refused, First
  <2>33. ASSUME NEW t \in Threads, ThreadCheck(t) PROVE Same
    BY <2>33, <2>a DEF ThreadCheck, Refused, First
  <2>34. ASSUME NEW t \in Threads, ThreadWrite(t) PROVE Same
    BY <2>34, <2>a DEF ThreadWrite, Refused, First
  <2>35. ASSUME NEW t \in Threads, ThreadMark(t) PROVE Same
    BY <2>35, <2>a DEF ThreadMark, Refused, First
  <2>36. ASSUME NEW t \in Threads, ThreadTotal(t) PROVE Same
    BY <2>36, <2>a DEF ThreadTotal, Refused, First
  <2>37. ASSUME NEW t \in Threads, ThreadMove(t) PROVE Same
    BY <2>37, <2>a DEF ThreadMove, Refused, First
  <2>38. ASSUME NEW t \in Threads, ThreadLoad(t) PROVE Same
    BY <2>38, <2>a DEF ThreadLoad, Refused, First
  <2>39. ASSUME NEW t \in Threads, ThreadStore(t) PROVE Same
    BY <2>39, <2>a DEF ThreadStore, Refused, First
  <2>40. ASSUME NEW t \in Threads, ThreadSignal(t) PROVE Same
    BY <2>40, <2>a DEF ThreadSignal, Refused, First
  <2>41. ASSUME NEW t \in Threads, ThreadWait(t) PROVE Same
    BY <2>41, <2>a DEF ThreadWait, Refused, First
  <2>42. ASSUME NEW t \in Threads, ThreadAwake(t) PROVE Same
    BY <2>42, <2>a DEF ThreadAwake, Refused, First
  <2>43. ASSUME NEW t \in Threads, ThreadCancelTest(t) PROVE Same
    BY <2>43, <2>a DEF ThreadCancelTest, Refused, First
  <2>44. ASSUME NEW t \in Threads, ThreadReset(t) PROVE Same
    BY <2>44, <2>a DEF ThreadReset, Reset, Refused, First
  <2>45. ASSUME NEW t \in Threads, ThreadFailSignal(t) PROVE Same
    BY <2>45, <2>a DEF ThreadFailSignal, Refused, First
  <2>46. ASSUME NEW t \in Threads, ThreadDetach(t) PROVE Same
    BY <2>46, <2>a DEF ThreadDetach, Refused, First
  <2>47. CASE UNCHANGED vars
    BY <2>47, <2>a DEF vars, Refused, First
  <2>48. QED
    BY <2>h, <2>1, <2>2, <2>3, <2>4, <2>5, <2>6, <2>7, <2>8, <2>9, <2>10, <2>11, <2>12, <2>13, <2>14,
       <2>15, <2>16, <2>17, <2>18, <2>19, <2>20, <2>21, <2>22, <2>23, <2>24, <2>25, <2>26, <2>27,
       <2>28, <2>29, <2>30, <2>31, <2>32, <2>33, <2>34, <2>35, <2>36, <2>37, <2>38, <2>39, <2>40,
       <2>41, <2>42, <2>43, <2>44, <2>45, <2>46, <2>47
    DEF Next, AppCall, AppStep, ThreadStep

LEMMA RefusedOpens ==
  ASSUME TypeOK, Refused, StartNewStream PROVE FifoInv' /\ Opening' /\ Fits'
<1>1. /\ call'.pc = "start_opened" /\ server' = <<>> /\ entered' = 0 /\ accepted' = 0
      /\ UNCHANGED <<self, thr>> /\ ~self.opened /\ ~self.active
  BY DEF StartNewStream, AppGoto, TypeOK, CallType, Refused
<1>2. Serving' /\ Fresh' /\ Told'
  BY <1>1 DEF Refused, Serving, Fresh, Told, WritePcs, StopPcs, ResetPcs, HalfReset
<1>3. Flow'
  BY <1>1 DEF Flow, Totals, Counts, Contents, Received, Streams
<1>4. Opening' /\ Fits'
  BY <1>1 DEF Opening, Fits, Refused, WritePcs
<1>5. QED
  BY <1>2, <1>3, <1>4 DEF FifoInv, Flow

(* A refused start leaves no stream, nor anything of an earlier one.       *)
LEMMA GoingRefused ==
  ASSUME TypeOK, NoRestart, FifoInv, Opening, StartRefused PROVE Refused'
<1>1. /\ call.pc = "start" /\ call'.pc \in {"idle", "pointer_lock"} /\ ~self.opened
      /\ UNCHANGED <<self, thr>>
  BY DEF StartRefused, AppGoto, TypeOK, CallType
<1>2. ~First
  BY <1>1 DEF NoRestart
<1>3. self.total = 0 /\ self.bufptr = 0 /\ ~self.active
  BY <1>1 DEF FifoInv, Fresh, HalfReset, Opening
<1>4. QED
  BY <1>1, <1>2, <1>3 DEF Refused, First

(* A transfer goes on fitting while the thread takes units away; it is     *)
(* given a size when roar_pcm_pointer has shown no more room than there is. *)
Seen == call.pc = "pointer_lock" /\ self.active => self.bufptr <= BufSize /\ Owing <= self.bufptr

LEMMA FitsStep == TypeOK /\ TypeOK' /\ Once /\ Seen /\ Fits /\ [Next]_vars => Fits'
  <2> SUFFICES ASSUME TypeOK, TypeOK', Once, Seen, Fits, [Next]_vars PROVE Fits'
    OBVIOUS
  <2>n. /\ Len(server) \in Nat /\ entered \in Nat /\ BufSize \in Nat /\ call.size \in Nat
        /\ self.bufptr \in Nat /\ server \in Seq(Int)
    BY SizesAssumption DEF TypeOK, SelfType, CallType, SizeTs
  <2> USE DEF AppGoto, counts, WritePcs, StartPcs, ResetPcs

  <2>1. CASE HwParams
    BY <2>1, <2>n DEF HwParams, TypeOK, SelfType, CallType, Fits, Owing
  <2>h. CASE HwBufptr
    BY <2>h, <2>n DEF HwBufptr, TypeOK, SelfType, CallType, Fits, Owing
  <2>2. CASE Prepare
    BY <2>2, <2>n DEF Prepare, TypeOK, SelfType, CallType, Fits, Owing
  <2>3. CASE Start
    BY <2>3, <2>n DEF Start, TypeOK, SelfType, CallType, Fits, Owing
  <2>4. CASE Drop
    BY <2>4, <2>n DEF Drop, TypeOK, SelfType, CallType, Fits, Owing
  <2>5. CASE Write
    BY <2>5, <2>n DEF Write, TypeOK, SelfType, CallType, Fits, Owing
  <2>6. CASE Delay
    BY <2>6, <2>n DEF Delay, TypeOK, SelfType, CallType, Fits, Owing
  <2>7. CASE Close
    BY <2>7, <2>n DEF Close, TypeOK, SelfType, CallType, Fits, Owing
  <2>8. CASE StartIgnored
    BY <2>8, <2>n DEF StartIgnored, TypeOK, SelfType, CallType, Fits, Owing
  <2>9. CASE StartRefused
    BY <2>9, <2>n DEF StartRefused, TypeOK, SelfType, CallType, Fits, Owing
  <2>10. CASE StartNewStream
    BY <2>10, <2>n DEF StartNewStream, TypeOK, SelfType, CallType, Fits, Owing
  <2>11. CASE StartStore
    BY <2>11, <2>n DEF StartStore, TypeOK, SelfType, CallType, Fits, Owing
  <2>12. CASE StartThread
    BY <2>12, <2>n DEF StartThread, TypeOK, SelfType, CallType, Fits, Owing
  <2>13. CASE StartThreadFails
    BY <2>13, <2>n DEF StartThreadFails, TypeOK, SelfType, CallType, Fits, Owing
  <2>14. CASE StopTest
    BY <2>14, <2>n DEF StopTest, TypeOK, SelfType, CallType, Fits, Owing
  <2>15. CASE StopClear
    BY <2>15, <2>n DEF StopClear, TypeOK, SelfType, CallType, Fits, Owing
  <2>16. CASE StopSignal
    BY <2>16, <2>n DEF StopSignal, TypeOK, SelfType, CallType, Fits, Owing
  <2>17. CASE StopJoin
    BY <2>17, <2>n DEF StopJoin, TypeOK, SelfType, CallType, Fits, Owing
  <2>18. CASE StopReset
    BY <2>18, <2>n DEF StopReset, TypeOK, SelfType, CallType, Reset, ResetRest, ResetActive, Fits,
      Owing
  <2>19. CASE StopReturn
    BY <2>19, <2>n DEF StopReturn, TypeOK, SelfType, CallType, Fits, Owing
  <2>20. CASE Pointer
    <3>1. /\ call'.pc \in {"pointer_lock", "stop"} /\ UNCHANGED <<self, server, entered>>
      BY <2>20, Pointing
    <3>2. QED
      BY <3>1 DEF Fits, Owing
  <2>21. CASE PointerLocked
    <3>1. call'.pc = "write" => call'.size \in Nat /\ call'.size >= 1
                              /\ call'.size <= BufSize - Signed(self.bufptr)
      <4>1. env.gate /\ env.frame = 1
        BY DEF Once
      <4>2. call'.pc = "write" =>
              call'.size \in Nat /\ call'.size >= 1
              /\ (env.gate => call'.size <= BufSize - Signed(self.bufptr))
        BY <2>21, <4>1, Pointed
      <4>3. QED
        BY <4>1, <4>2
    <3>2. call.pc = "pointer_lock" /\ call'.pc \in {"idle", "write"} /\ self'.active = self.active
      BY <2>21, Pointed DEF SelfKept
    <3>3. Owing' = Owing /\ Owing \in Int
      BY <2>21, <2>n DEF PointerLocked, Owing
    <3>4. self.bufptr <= BufSize => Signed(self.bufptr) = self.bufptr
      BY <2>n, SizesAssumption DEF Signed
    <3>5. self.active => Owing + call'.size <= BufSize \/ call'.pc = "idle"
      <4>1. CASE call'.pc = "write" /\ self.active
        <5>1. self.bufptr <= BufSize /\ Owing <= self.bufptr
          BY <3>2, <4>1 DEF Seen
        <5>2. QED
          BY <3>1, <3>3, <3>4, <4>1, <5>1, <2>n
      <4>2. QED
        BY <3>2, <4>1
    <3>6. QED
      BY <3>1, <3>2, <3>3, <3>5 DEF Fits
  <2>22. CASE WriteTest
    BY <2>22, <2>n DEF WriteTest, TypeOK, SelfType, CallType, TransferReturns, Fits, Owing
  <2>23. CASE WriteRoom
    BY <2>23, <2>n DEF WriteRoom, TypeOK, SelfType, CallType, Fits, Owing
  <2>24. CASE WriteFull
    BY <2>24, <2>n DEF WriteFull, TypeOK, SelfType, CallType, Fits, Owing
  <2>25. CASE WriteWait
    BY <2>25, <2>n DEF WriteWait, TypeOK, SelfType, CallType, Fits, Owing
  <2>26. CASE WriteAwake
    BY <2>26, <2>n DEF WriteAwake, TypeOK, SelfType, CallType, Fits, Owing
  <2>27. CASE WriteCopy
    BY <2>27, <2>n DEF WriteCopy, TypeOK, SelfType, CallType, Fits, Owing
  <2>28. CASE WriteLoad
    BY <2>28, <2>n DEF WriteLoad, TypeOK, SelfType, CallType, Fits, Owing
  <2>29. CASE WriteStore
    BY <2>29, <2>n DEF WriteStore, TypeOK, SelfType, CallType, Fits, Owing
  <2>30. CASE WriteSignal
    BY <2>30, <2>n DEF WriteSignal, TypeOK, SelfType, CallType, TransferReturns, Fits, Owing
  <2>31. CASE Spurious
    BY <2>31, <2>n DEF Spurious, TypeOK, SelfType, CallType, Fits, Owing
  <2>32. ASSUME NEW t \in Threads, ThreadTest(t) PROVE Fits'
    BY <2>32, <2>n DEF ThreadTest, TypeOK, SelfType, CallType, Fits, Owing
  <2>33. ASSUME NEW t \in Threads, ThreadCheck(t) PROVE Fits'
    BY <2>33, <2>n DEF ThreadCheck, TypeOK, SelfType, CallType, Fits, Owing
  <2>34. ASSUME NEW t \in Threads, ThreadWrite(t) PROVE Fits'
    <3>1. /\ UNCHANGED <<self, call, entered>>
          /\ \/ server' = server
             \/ \E k \in 1 .. Chunk : server' = server \o [i \in 1 .. k |-> buffer[i - 1]]
      BY <2>34 DEF ThreadWrite
    <3>2. Len(server') \in Nat /\ Len(server') >= Len(server)
      <4>1. CASE server' = server
        BY <4>1, <2>n
      <4>2. ASSUME NEW k \in 1 .. Chunk, server' = server \o [i \in 1 .. k |-> buffer[i - 1]]
            PROVE  Len(server') \in Nat /\ Len(server') >= Len(server)
        <5>1. k \in Nat /\ server' \in Seq(Int)
          BY SizesAssumption DEF TypeOK
        <5>2. /\ [i \in 1 .. k |-> buffer[i - 1]] \in Seq(Int)
              /\ Len([i \in 1 .. k |-> buffer[i - 1]]) = k
          BY SizesAssumption DEF TypeOK
        <5>3. \A u \in Seq(Int) : Len(server \o u) = Len(server) + Len(u)
          BY <2>n
        <5>5. Len(server') = Len(server) + k
          BY <4>2, <5>2, <5>3
        <5>6. QED
          BY <5>1, <5>5, <2>n
      <4>3. QED
        BY <3>1, <4>1, <4>2
    <3>3. Owing' <= Owing /\ Owing' \in Int /\ Owing \in Int
      BY <3>1, <3>2, <2>n DEF Owing
    <3>4. QED
      BY <3>1, <3>3, <2>n DEF Fits
  <2>35. ASSUME NEW t \in Threads, ThreadMark(t) PROVE Fits'
    BY <2>35, <2>n DEF ThreadMark, TypeOK, SelfType, CallType, Fits, Owing
  <2>36. ASSUME NEW t \in Threads, ThreadTotal(t) PROVE Fits'
    BY <2>36, <2>n DEF ThreadTotal, TypeOK, SelfType, CallType, Fits, Owing
  <2>37. ASSUME NEW t \in Threads, ThreadMove(t) PROVE Fits'
    BY <2>37, <2>n DEF ThreadMove, TypeOK, SelfType, CallType, Fits, Owing
  <2>38. ASSUME NEW t \in Threads, ThreadLoad(t) PROVE Fits'
    BY <2>38, <2>n DEF ThreadLoad, TypeOK, SelfType, CallType, Fits, Owing
  <2>39. ASSUME NEW t \in Threads, ThreadStore(t) PROVE Fits'
    BY <2>39, <2>n DEF ThreadStore, TypeOK, SelfType, CallType, Fits, Owing
  <2>40. ASSUME NEW t \in Threads, ThreadSignal(t) PROVE Fits'
    BY <2>40, <2>n DEF ThreadSignal, TypeOK, SelfType, CallType, Fits, Owing
  <2>41. ASSUME NEW t \in Threads, ThreadWait(t) PROVE Fits'
    BY <2>41, <2>n DEF ThreadWait, TypeOK, SelfType, CallType, Fits, Owing
  <2>42. ASSUME NEW t \in Threads, ThreadAwake(t) PROVE Fits'
    BY <2>42, <2>n DEF ThreadAwake, TypeOK, SelfType, CallType, Fits, Owing
  <2>43. ASSUME NEW t \in Threads, ThreadCancelTest(t) PROVE Fits'
    BY <2>43, <2>n DEF ThreadCancelTest, TypeOK, SelfType, CallType, Fits, Owing
  <2>44. ASSUME NEW t \in Threads, ThreadReset(t) PROVE Fits'
    <3>1. UNCHANGED <<call, entered, server>> /\ (self'.active => self.active)
      BY <2>44 DEF ThreadReset, Reset, ResetActive, ResetRest, TypeOK, SelfType
    <3>2. QED
      BY <3>1 DEF Fits, Owing
  <2>45. ASSUME NEW t \in Threads, ThreadFailSignal(t) PROVE Fits'
    BY <2>45, <2>n DEF ThreadFailSignal, TypeOK, SelfType, CallType, Fits, Owing
  <2>46. ASSUME NEW t \in Threads, ThreadDetach(t) PROVE Fits'
    BY <2>46, <2>n DEF ThreadDetach, TypeOK, SelfType, CallType, Fits, Owing
  <2>47. CASE UNCHANGED vars
    BY <2>47 DEF vars, Fits, Owing
  <2>48. QED
    BY <2>h, <2>1, <2>2, <2>3, <2>4, <2>5, <2>6, <2>7, <2>8, <2>9, <2>10, <2>11, <2>12, <2>13, <2>14,
       <2>15, <2>16, <2>17, <2>18, <2>19, <2>20, <2>21, <2>22, <2>23, <2>24, <2>25, <2>26, <2>27,
       <2>28, <2>29, <2>30, <2>31, <2>32, <2>33, <2>34, <2>35, <2>36, <2>37, <2>38, <2>39, <2>40,
       <2>41, <2>42, <2>43, <2>44, <2>45, <2>46, <2>47
    DEF Next, AppCall, AppStep, ThreadStep

LEMMA OpeningStep ==
  TypeOK /\ TypeOK' /\ Unfailing /\ AllInv /\ FifoInv /\ ActiveIn /\ Opening /\ [Next]_vars
  => Opening'
  <2> SUFFICES ASSUME TypeOK, TypeOK', Unfailing, AllInv, FifoInv, ActiveIn, Opening, [Next]_vars
               PROVE  Opening'
    OBVIOUS
  <2>l. \A t \in Threads : /\ Live(t) => self.opened
                           /\ thr[t].pc \notin FailPcs
    BY DEF AllInv, ThreadInv
  <2>q. call.pc = "start_active" => self.opened
    BY DEF AllInv, QuietStart, StartPcs
  <2>w. call.pc \in WritePcs => self.opened
    BY DEF FifoInv, Serving
  <2>a. self.active => call.pc \notin ResetPcs
    BY DEF ActiveIn
  <2> USE DEF TypeOK, SelfType, CallType, AppGoto, ResetPcs, WritePcs

  <2>1. CASE HwParams
    BY <2>1, <2>l, <2>q, <2>w, <2>a DEF HwParams, Opening
  <2>h. CASE HwBufptr
    BY <2>h, <2>l, <2>q, <2>w, <2>a DEF HwBufptr, Opening
  <2>2. CASE Prepare
    BY <2>2, <2>l, <2>q, <2>w, <2>a DEF Prepare, Opening
  <2>3. CASE Start
    BY <2>3, <2>l, <2>q, <2>w, <2>a DEF Start, Opening
  <2>4. CASE Drop
    BY <2>4, <2>l, <2>q, <2>w, <2>a DEF Drop, Opening
  <2>5. CASE Write
    BY <2>5, <2>l, <2>q, <2>w, <2>a DEF Write, Opening
  <2>6. CASE Delay
    BY <2>6, <2>l, <2>q, <2>w, <2>a DEF Delay, Opening
  <2>7. CASE Close
    BY <2>7, <2>l, <2>q, <2>w, <2>a DEF Close, Opening
  <2>8. CASE StartIgnored
    BY <2>8, <2>l, <2>q, <2>w, <2>a DEF StartIgnored, Opening
  <2>9. CASE StartRefused
    BY <2>9, <2>l, <2>q, <2>w, <2>a DEF StartRefused, Opening
  <2>10. CASE StartNewStream
    BY <2>10, <2>l, <2>q, <2>w, <2>a DEF StartNewStream, Opening
  <2>11. CASE StartStore
    BY <2>11, <2>l, <2>q, <2>w, <2>a DEF StartStore, Opening
  <2>12. CASE StartThread
    BY <2>12, <2>l, <2>q, <2>w, <2>a DEF StartThread, Opening
  <2>13. CASE StartThreadFails
    BY <2>13, <2>l, <2>q, <2>w, <2>a DEF StartThreadFails, Opening
  <2>14. CASE StopTest
    BY <2>14, <2>l, <2>q, <2>w, <2>a DEF StopTest, Opening
  <2>15. CASE StopClear
    BY <2>15, <2>l, <2>q, <2>w, <2>a DEF StopClear, Opening
  <2>16. CASE StopSignal
    BY <2>16, <2>l, <2>q, <2>w, <2>a DEF StopSignal, Opening
  <2>17. CASE StopJoin
    BY <2>17, <2>l, <2>q, <2>w, <2>a DEF StopJoin, Opening
  <2>18. CASE StopReset
    BY <2>18, <2>l, <2>q, <2>w, <2>a DEF StopReset, Reset, ResetRest, ResetActive, Opening
  <2>19. CASE StopReturn
    BY <2>19, <2>l, <2>q, <2>w, <2>a DEF StopReturn, Opening
  <2>20. CASE Pointer
    BY <2>20, <2>l, <2>q, <2>w, <2>a DEF Pointer, Opening
  <2>21. CASE PointerLocked
    BY <2>21, Pointed DEF Opening, SelfKept
  <2>22. CASE WriteTest
    BY <2>22, <2>l, <2>q, <2>w, <2>a DEF WriteTest, TransferReturns, Opening
  <2>23. CASE WriteRoom
    BY <2>23, <2>l, <2>q, <2>w, <2>a DEF WriteRoom, Opening
  <2>24. CASE WriteFull
    BY <2>24, <2>l, <2>q, <2>w, <2>a DEF WriteFull, Opening
  <2>25. CASE WriteWait
    BY <2>25, <2>l, <2>q, <2>w, <2>a DEF WriteWait, Opening
  <2>26. CASE WriteAwake
    BY <2>26, <2>l, <2>q, <2>w, <2>a DEF WriteAwake, Opening
  <2>27. CASE WriteCopy
    BY <2>27, <2>l, <2>q, <2>w, <2>a DEF WriteCopy, Opening
  <2>28. CASE WriteLoad
    BY <2>28, <2>l, <2>q, <2>w, <2>a DEF WriteLoad, Opening
  <2>29. CASE WriteStore
    BY <2>29, <2>l, <2>q, <2>w, <2>a DEF WriteStore, Opening
  <2>30. CASE WriteSignal
    BY <2>30, <2>l, <2>q, <2>w, <2>a DEF WriteSignal, TransferReturns, Opening
  <2>31. CASE Spurious
    BY <2>31, <2>l, <2>q, <2>w, <2>a DEF Spurious, Opening
  <2>32. ASSUME NEW t \in Threads, ThreadTest(t) PROVE Opening'
    BY <2>32, <2>l, <2>q, <2>w, <2>a DEF ThreadTest, Opening
  <2>33. ASSUME NEW t \in Threads, ThreadCheck(t) PROVE Opening'
    BY <2>33, <2>l, <2>q, <2>w, <2>a DEF ThreadCheck, Opening
  <2>34. ASSUME NEW t \in Threads, ThreadWrite(t) PROVE Opening'
    BY <2>34, <2>l, <2>q, <2>w, <2>a DEF ThreadWrite, Opening
  <2>35. ASSUME NEW t \in Threads, ThreadMark(t) PROVE Opening'
    BY <2>35, <2>l, <2>q, <2>w, <2>a DEF ThreadMark, Opening
  <2>36. ASSUME NEW t \in Threads, ThreadTotal(t) PROVE Opening'
    BY <2>36, <2>l, <2>q, <2>w, <2>a DEF ThreadTotal, Opening
  <2>37. ASSUME NEW t \in Threads, ThreadMove(t) PROVE Opening'
    BY <2>37, <2>l, <2>q, <2>w, <2>a DEF ThreadMove, Opening
  <2>38. ASSUME NEW t \in Threads, ThreadLoad(t) PROVE Opening'
    BY <2>38, <2>l, <2>q, <2>w, <2>a DEF ThreadLoad, Opening
  <2>39. ASSUME NEW t \in Threads, ThreadStore(t) PROVE Opening'
    BY <2>39, <2>l, <2>q, <2>w, <2>a DEF ThreadStore, Live, Opening
  <2>40. ASSUME NEW t \in Threads, ThreadSignal(t) PROVE Opening'
    BY <2>40, <2>l, <2>q, <2>w, <2>a DEF ThreadSignal, Opening
  <2>41. ASSUME NEW t \in Threads, ThreadWait(t) PROVE Opening'
    BY <2>41, <2>l, <2>q, <2>w, <2>a DEF ThreadWait, Opening
  <2>42. ASSUME NEW t \in Threads, ThreadAwake(t) PROVE Opening'
    BY <2>42, <2>l, <2>q, <2>w, <2>a DEF ThreadAwake, Opening
  <2>43. ASSUME NEW t \in Threads, ThreadCancelTest(t) PROVE Opening'
    BY <2>43, <2>l, <2>q, <2>w, <2>a DEF ThreadCancelTest, Opening
  <2>44. ASSUME NEW t \in Threads, ThreadReset(t) PROVE Opening'
    BY <2>44, <2>l DEF ThreadReset, Reset, FailPcs
  <2>45. ASSUME NEW t \in Threads, ThreadFailSignal(t) PROVE Opening'
    BY <2>45, <2>l, <2>q, <2>w, <2>a DEF ThreadFailSignal, Opening
  <2>46. ASSUME NEW t \in Threads, ThreadDetach(t) PROVE Opening'
    BY <2>46, <2>l, <2>q, <2>w, <2>a DEF ThreadDetach, Opening
  <2>47. CASE UNCHANGED vars
    BY <2>47, <2>l, <2>q, <2>w, <2>a DEF vars, Opening
  <2>48. QED
    BY <2>h, <2>1, <2>2, <2>3, <2>4, <2>5, <2>6, <2>7, <2>8, <2>9, <2>10, <2>11, <2>12, <2>13, <2>14,
       <2>15, <2>16, <2>17, <2>18, <2>19, <2>20, <2>21, <2>22, <2>23, <2>24, <2>25, <2>26, <2>27,
       <2>28, <2>29, <2>30, <2>31, <2>32, <2>33, <2>34, <2>35, <2>36, <2>37, <2>38, <2>39, <2>40,
       <2>41, <2>42, <2>43, <2>44, <2>45, <2>46, <2>47
    DEF Next, AppCall, AppStep, ThreadStep

(* The step in which roar_vio_write fails.                                 *)
LEMMA GoingFails ==
  ASSUME TypeOK, Once, NoRestart, ActiveIn, AllInv, Going,
         NEW t \in Threads, ThreadWrite(t), ThrGoto(t, "cancel")
  PROVE  GivenUp'
<1>1. thr[t].pc = "vio_write" /\ thr'[t].pc = "cancel" /\ thr'[t].detached = thr[t].detached
  BY DEF ThreadWrite, ThrGoto, TypeOK, ThrType
<1>2. t = 1 /\ 1 \in Threads /\ \A u \in Threads \ {1} : thr[u].pc = "none"
  <2>1. 1 \in Threads /\ \A u \in Threads : u \in Nat /\ (u > 1 \/ u = 1)
    BY SizesAssumption DEF Threads
  <2>2. QED
    BY <1>1, <2>1 DEF NoRestart, Created
<1>3. UNCHANGED <<self, lock, call, entered>> /\ (server' = server \/ thr'[t].pc = "mark")
  BY DEF ThreadWrite, counts, TypeOK, ThrType
<1>4. UNCHANGED server
  BY <1>1, <1>3
<1>5. First /\ First'
  BY <1>1, <1>2 DEF First
<1>6. lock \in {Free, App} /\ (lock = App <=> call.pc \in {"write_load", "write_store"})
  <2>1. \A u \in Threads : lock = u <=> thr[u].pc \in {"load", "store"}
    BY DEF AllInv, ThreadInv
  <2>2. \A u \in Threads : lock # u
    BY <1>1, <1>2, <2>1
  <2>3. QED
    BY <2>2 DEF TypeOK, AllInv, AppLocking
<1>7. Streams /\ Live(t)
  BY <1>1, <1>5 DEF Once, AllInv, ThreadInv, Live, Streams, NoRestart, StartPcs
<1>8. Len(server) = entered - self.bufptr /\ self.total <= Len(server)
  BY <1>1, <1>2, <1>7 DEF Going, FifoInv, Counts, Totals, Unstored
<1>9. /\ self.bufptr \in Nat /\ entered \in Nat /\ Len(server) \in Nat
      /\ self.bufptr <= BufSize
      /\ call.pc = "write_store" => call.loaded = self.bufptr
  BY SizesAssumption DEF Once, TypeOK, SelfType, SizeTs, AllInv, Fitting, AppLocking
<1>10. Owing = self.bufptr
  BY <1>8, <1>9 DEF Owing
<1>11. self.active => self.opened
  BY DEF Going, Opening
<1>12. Abandoned'
  BY <1>1, <1>2, <1>3, <1>4, <1>5, <1>6, <1>8, <1>9, <1>10, <1>11 DEF Abandoned, Owing, FailPcs
<1>13. Fits'
  BY <1>3, <1>4 DEF Going, Fits, Owing
<1>14. QED
  BY <1>12, <1>13 DEF GivenUp

LEMMA AbandonedStep ==
  TypeOK /\ TypeOK' /\ Once /\ NoRestart /\ ActiveIn /\ Abandoned /\ Fits /\ [Next]_vars
  => Abandoned'
  <2> SUFFICES ASSUME TypeOK, TypeOK', Once, NoRestart, ActiveIn, Abandoned, Fits, [Next]_vars
               PROVE  Abandoned'
    OBVIOUS
  <2>n. /\ Len(server) \in Nat /\ entered \in Nat /\ BufSize \in Nat /\ call.size \in Nat
        /\ self.bufptr \in Nat /\ self.total \in Nat /\ call.loaded \in Nat
    BY SizesAssumption DEF TypeOK, SelfType, CallType, SizeTs
  <2>s. call.pc \notin StartPcs \cup {"start"} /\ ~Spare /\ First
    BY DEF NoRestart, Abandoned, Spare, First, Once
  <2>o. 1 \in Threads /\ \A u \in Threads : u \in Nat /\ (u > 1 \/ u = 1)
    BY SizesAssumption DEF Threads
  <2>t. \A t \in Threads : thr[t].pc # "none" => t = 1
    BY <2>o DEF NoRestart, Created
  <2>f. App # Free
    BY Nobody
  <2> USE DEF AppGoto, ThrGoto, counts, StartPcs, ResetPcs, FailPcs, First

  <2>1. CASE HwParams
    <3>1. /\ call.pc = "idle" /\ call'.pc = "hw_bufptr" /\ UNCHANGED <<self, lock, thr, server, entered>>
      BY <2>1 DEF HwParams, TypeOK, CallType
    <3>2. QED
      BY <3>1 DEF Abandoned, Owing
  <2>h. CASE HwBufptr
    <3>1. /\ call.pc = "hw_bufptr" /\ call'.pc = "idle" /\ UNCHANGED <<lock, thr, server, entered>>
      BY <2>h DEF HwBufptr, TypeOK, CallType
    <3>2. self'.bufptr = 0 /\ self'.active = self.active /\ self'.total = self.total
      BY <2>h DEF HwBufptr, TypeOK, SelfType
    <3>3. ~self.active
      BY <3>1 DEF ActiveIn, Once
    <3>4. Owing' = Owing /\ 0 <= Owing
      BY <3>1, <2>n DEF Owing, Abandoned
    <3>5. QED
      BY <3>1, <3>2, <3>3, <3>4, <2>n DEF Abandoned
  <2>2. CASE Prepare
    BY <2>2, <2>n, <2>s, <2>o, <2>t, <2>f DEF Prepare, TypeOK, SelfType, CallType, ThrType, IoType,
      Abandoned, Owing
  <2>3. CASE Start
    BY <2>3, <2>n, <2>s, <2>o, <2>t, <2>f DEF Start, TypeOK, SelfType, CallType, ThrType, IoType,
      Abandoned, Owing
  <2>4. CASE Drop
    BY <2>4, <2>n, <2>s, <2>o, <2>t, <2>f DEF Drop, TypeOK, SelfType, CallType, ThrType, IoType,
      Abandoned, Owing
  <2>5. CASE Write
    BY <2>5, <2>n, <2>s, <2>o, <2>t, <2>f DEF Write, TypeOK, SelfType, CallType, ThrType, IoType,
      Abandoned, Owing
  <2>6. CASE Delay
    BY <2>6, <2>n, <2>s, <2>o, <2>t, <2>f DEF Delay, TypeOK, SelfType, CallType, ThrType, IoType,
      Abandoned, Owing
  <2>7. CASE Close
    BY <2>7, <2>n, <2>s, <2>o, <2>t, <2>f DEF Close, TypeOK, SelfType, CallType, ThrType, IoType,
      Abandoned, Owing
  <2>8. CASE StartIgnored
    BY <2>8, <2>n, <2>s, <2>o, <2>t, <2>f DEF StartIgnored, TypeOK, SelfType, CallType, ThrType,
      IoType, Abandoned, Owing
  <2>9. CASE StartRefused
    BY <2>9, <2>n, <2>s, <2>o, <2>t, <2>f DEF StartRefused, TypeOK, SelfType, CallType, ThrType,
      IoType, Abandoned, Owing
  <2>10. CASE StartNewStream
    BY <2>10, <2>n, <2>s, <2>o, <2>t, <2>f DEF StartNewStream, TypeOK, SelfType, CallType, ThrType,
      IoType, Abandoned, Owing
  <2>11. CASE StartStore
    BY <2>11, <2>n, <2>s, <2>o, <2>t, <2>f DEF StartStore, TypeOK, SelfType, CallType, ThrType,
      IoType, Abandoned, Owing
  <2>12. CASE StartThread
    BY <2>12, <2>n, <2>s, <2>o, <2>t, <2>f DEF StartThread, TypeOK, SelfType, CallType, ThrType,
      IoType, Abandoned, Owing
  <2>13. CASE StartThreadFails
    BY <2>13, <2>n, <2>s, <2>o, <2>t, <2>f DEF StartThreadFails, TypeOK, SelfType, CallType,
      ThrType, IoType, Abandoned, Owing
  <2>14. CASE StopTest
    BY <2>14, <2>n, <2>s, <2>o, <2>t, <2>f DEF StopTest, TypeOK, SelfType, CallType, ThrType,
      IoType, ActiveIn, Abandoned, Owing
  <2>15. CASE StopClear
    BY <2>15, <2>n, <2>s, <2>o, <2>t, <2>f DEF StopClear, TypeOK, SelfType, CallType, ThrType,
      IoType, Abandoned, Owing
  <2>16. CASE StopSignal
    BY <2>16, <2>n, <2>s, <2>o, <2>t, <2>f DEF StopSignal, TypeOK, SelfType, CallType, ThrType,
      IoType, Abandoned, Owing
  <2>17. CASE StopJoin
    BY <2>17, <2>n, <2>s, <2>o, <2>t, <2>f DEF StopJoin, TypeOK, SelfType, CallType, ThrType,
      IoType, Abandoned, Owing
  <2>18. CASE StopReset
    <3>1. UNCHANGED <<thr, lock, server, entered>> /\ call.pc \in ResetPcs /\ ~self.active
      BY <2>18 DEF StopReset, Reset, ActiveIn
    <3>2. /\ ~self'.active /\ self'.bufptr \in {0, self.bufptr} /\ self'.total \in {0, self.total}
      BY <2>18, <3>1 DEF StopReset, Reset, ResetActive, ResetRest, TypeOK, SelfType
    <3>3. call'.pc \in ResetPcs \cup {"reset_done"}
      BY <2>18 DEF StopReset, TypeOK, CallType
    <3>4. QED
      BY <3>1, <3>2, <3>3, <2>n DEF Abandoned, Owing
  <2>19. CASE StopReturn
    BY <2>19, <2>n, <2>s, <2>o, <2>t, <2>f DEF StopReturn, TypeOK, SelfType, CallType, ThrType,
      IoType, Abandoned, Owing
  <2>20. CASE Pointer
    <3>1. /\ call.pc = "pointer" /\ call'.pc \in {"pointer_lock", "stop"}
          /\ UNCHANGED <<self, lock, thr, server, entered>>
      BY <2>20, Pointing
    <3>2. QED
      BY <3>1 DEF Abandoned, Owing
  <2>21. CASE PointerLocked
    <3>1. call.pc = "pointer_lock" /\ call'.pc \in {"idle", "write"} /\ SelfKept
          /\ UNCHANGED <<lock, thr, server, entered>>
      BY <2>21, Pointed
    <3>2. QED
      BY <3>1 DEF Abandoned, SelfKept, Owing
  <2>22. CASE WriteTest
    <3>1. /\ call.pc = "write" /\ call'.pc \in {"write_room", "idle"}
          /\ UNCHANGED <<self, lock, thr, server, entered>>
      BY <2>22, Testing
    <3>2. QED
      BY <3>1 DEF Abandoned, Owing
  <2>23. CASE WriteRoom
    BY <2>23, <2>n, <2>s, <2>o, <2>t, <2>f DEF WriteRoom, TypeOK, SelfType, CallType, ThrType,
      IoType, Abandoned, Owing
  <2>24. CASE WriteFull
    BY <2>24, <2>n, <2>s, <2>o, <2>t, <2>f DEF WriteFull, TypeOK, SelfType, CallType, ThrType,
      IoType, Abandoned, Owing
  <2>25. CASE WriteWait
    BY <2>25, <2>n, <2>s, <2>o, <2>t, <2>f DEF WriteWait, TypeOK, SelfType, CallType, ThrType,
      IoType, Abandoned, Owing
  <2>26. CASE WriteAwake
    BY <2>26, <2>n, <2>s, <2>o, <2>t, <2>f DEF WriteAwake, TypeOK, SelfType, CallType, ThrType,
      IoType, Abandoned, Owing
  <2>27. CASE WriteCopy
    BY <2>27, <2>n, <2>s, <2>o, <2>t, <2>f DEF WriteCopy, TypeOK, SelfType, CallType, ThrType,
      IoType, Abandoned, Owing
  <2>28. CASE WriteLoad
    BY <2>28, <2>n, <2>s, <2>o, <2>t, <2>f DEF WriteLoad, TypeOK, SelfType, CallType, ThrType,
      IoType, Abandoned, Owing
  <2>29. CASE WriteStore
    <3>1. /\ call.pc = "write_store" /\ call'.pc = "write_signal" /\ lock' = Free
          /\ entered' = entered + call.size /\ UNCHANGED <<thr, server>>
          /\ self' = [self EXCEPT !.bufptr = SizeT(call.loaded + call.size)]
      BY <2>29 DEF WriteStore, TypeOK, CallType
    <3>2. Owing + call.size <= BufSize /\ call.loaded <= Owing /\ Owing \in Int
      BY <3>1, <2>n DEF Fits, Abandoned, WritePcs, Owing
    <3>3. SizeT(call.loaded + call.size) = call.loaded + call.size
      <4>1. call.loaded + call.size \in SizeTs
        BY <3>2, <2>n, SizesAssumption DEF SizeTs
      <4>2. QED
        BY <4>1, SizeTIdentity
    <3>4. self'.bufptr = call.loaded + call.size /\ self'.active = self.active
          /\ self'.opened = self.opened /\ self'.total = self.total
      BY <3>1, <3>3 DEF TypeOK, SelfType
    <3>5. Owing' = Owing + call.size
      BY <3>1, <2>n DEF Owing
    <3>6. self.active => call.loaded = Owing
      BY <3>1 DEF Abandoned
    <3>7. /\ self'.bufptr <= BufSize /\ self'.bufptr <= Owing'
          /\ (self'.active => self'.bufptr = Owing')
      BY <3>2, <3>4, <3>5, <3>6, <2>n
    <3>8. QED
      BY <3>1, <3>4, <3>7, <2>f DEF Abandoned
  <2>30. CASE WriteSignal
    BY <2>30, <2>n, <2>s, <2>o, <2>t, <2>f DEF WriteSignal, TypeOK, SelfType, CallType, ThrType,
      IoType, TransferReturns, Abandoned, Owing
  <2>31. CASE Spurious
    BY <2>31, <2>n, <2>s, <2>o, <2>t, <2>f DEF Spurious, TypeOK, SelfType, CallType, ThrType,
      IoType, Abandoned, Owing
  <2>32. ASSUME NEW t \in Threads, ThreadTest(t) PROVE Abandoned'
    BY <2>32, <2>n, <2>s, <2>o, <2>t, <2>f DEF ThreadTest, TypeOK, SelfType, CallType, ThrType,
      IoType, Abandoned, Owing
  <2>33. ASSUME NEW t \in Threads, ThreadCheck(t) PROVE Abandoned'
    BY <2>33, <2>n, <2>s, <2>o, <2>t, <2>f DEF ThreadCheck, TypeOK, SelfType, CallType, ThrType,
      IoType, Abandoned, Owing
  <2>34. ASSUME NEW t \in Threads, ThreadWrite(t) PROVE Abandoned'
    BY <2>34, <2>n, <2>s, <2>o, <2>t, <2>f DEF ThreadWrite, TypeOK, SelfType, CallType, ThrType,
      IoType, Abandoned, Owing
  <2>35. ASSUME NEW t \in Threads, ThreadMark(t) PROVE Abandoned'
    BY <2>35, <2>n, <2>s, <2>o, <2>t, <2>f DEF ThreadMark, TypeOK, SelfType, CallType, ThrType,
      IoType, Abandoned, Owing
  <2>36. ASSUME NEW t \in Threads, ThreadTotal(t) PROVE Abandoned'
    BY <2>36, <2>n, <2>s, <2>o, <2>t, <2>f DEF ThreadTotal, TypeOK, SelfType, CallType, ThrType,
      IoType, Abandoned, Owing
  <2>37. ASSUME NEW t \in Threads, ThreadMove(t) PROVE Abandoned'
    BY <2>37, <2>n, <2>s, <2>o, <2>t, <2>f DEF ThreadMove, TypeOK, SelfType, CallType, ThrType,
      IoType, Abandoned, Owing
  <2>38. ASSUME NEW t \in Threads, ThreadLoad(t) PROVE Abandoned'
    BY <2>38, <2>n, <2>s, <2>o, <2>t, <2>f DEF ThreadLoad, TypeOK, SelfType, CallType, ThrType,
      IoType, Abandoned, Owing
  <2>39. ASSUME NEW t \in Threads, ThreadStore(t) PROVE Abandoned'
    BY <2>39, <2>n, <2>s, <2>o, <2>t, <2>f DEF ThreadStore, TypeOK, SelfType, CallType, ThrType,
      IoType, Abandoned, Owing
  <2>40. ASSUME NEW t \in Threads, ThreadSignal(t) PROVE Abandoned'
    <3>1. t = 1 /\ thr[1].pc = "quit" /\ ~self.active
      BY <2>40, <2>t DEF ThreadSignal, Abandoned
    <3>2. thr' = [thr EXCEPT ![1].pc = "exited"] /\ UNCHANGED <<self, call, lock, entered, server>>
      BY <2>40, <3>1 DEF ThreadSignal
    <3>3. thr'[1].pc = "exited" /\ First'
      BY <3>2, <2>o DEF TypeOK, ThrType
    <3>4. QED
      BY <3>1, <3>2, <3>3 DEF Abandoned, Owing
  <2>41. ASSUME NEW t \in Threads, ThreadWait(t) PROVE Abandoned'
    BY <2>41, <2>n, <2>s, <2>o, <2>t, <2>f DEF ThreadWait, TypeOK, SelfType, CallType, ThrType,
      IoType, Abandoned, Owing
  <2>42. ASSUME NEW t \in Threads, ThreadAwake(t) PROVE Abandoned'
    BY <2>42, <2>n, <2>s, <2>o, <2>t, <2>f DEF ThreadAwake, TypeOK, SelfType, CallType, ThrType,
      IoType, Abandoned, Owing
  <2>43. ASSUME NEW t \in Threads, ThreadCancelTest(t) PROVE Abandoned'
    <3>1. /\ t = 1 /\ thr[1].pc = "cancel" /\ UNCHANGED <<self, lock, call, server, entered>>
          /\ ThrGoto(1, IF self.active THEN "reset" ELSE "quit")
      BY <2>43, <2>t DEF ThreadCancelTest
    <3>2. thr'[1].pc = IF self.active THEN "reset" ELSE "quit"
      BY <3>1, <2>o DEF TypeOK, ThrType
    <3>3. QED
      BY <3>1, <3>2 DEF Abandoned, Owing
  <2>44. ASSUME NEW t \in Threads, ThreadReset(t) PROVE Abandoned'
    <3>1. t = 1 /\ UNCHANGED <<call, lock, entered, server>>
      BY <2>44, <2>t DEF ThreadReset, Reset
    <3>2. PICK q \in ResetPcs \cup {"reset_done"} :
            Reset(thr[1].pc, q) /\ thr' = [thr EXCEPT ![1].pc = q]
      BY <2>44, <3>1 DEF ThreadReset
    <3>3. thr'[1].pc = q /\ First'
      BY <3>2, <2>o DEF TypeOK, ThrType
    <3>4. /\ self'.bufptr \in {0, self.bufptr} /\ self'.total \in {0, self.total}
          /\ self'.active => self.active
          /\ self'.bufptr # self.bufptr => ~self.active
          /\ q # "reset_opened" /\ q # "reset_active" => ~self'.active
          /\ q \in {"reset_opened", "reset_active", "reset_bufptr", "reset_rest", "reset_done"}
      BY <3>2 DEF Reset, ResetActive, ResetRest, TypeOK, SelfType, Abandoned
    <3>5. QED
      BY <3>1, <3>3, <3>4, <2>n DEF Abandoned, Owing
  <2>45. ASSUME NEW t \in Threads, ThreadFailSignal(t) PROVE Abandoned'
    <3>1. /\ t = 1 /\ thr[1].pc = "reset_done" /\ ThrGoto(1, "detach")
          /\ UNCHANGED <<self, lock, call, server, entered>>
      BY <2>45, <2>t DEF ThreadFailSignal
    <3>2. thr'[1].pc = "detach"
      BY <3>1, <2>o DEF TypeOK, ThrType
    <3>3. QED
      BY <3>1, <3>2 DEF Abandoned, Owing
  <2>46. ASSUME NEW t \in Threads, ThreadDetach(t) PROVE Abandoned'
    BY <2>46, <2>n, <2>s, <2>o, <2>t, <2>f DEF ThreadDetach, TypeOK, SelfType, CallType, ThrType,
      IoType, Abandoned, Owing
  <2>47. CASE UNCHANGED vars
    BY <2>47 DEF vars, Abandoned, Owing
  <2>48. QED
    BY <2>h, <2>1, <2>2, <2>3, <2>4, <2>5, <2>6, <2>7, <2>8, <2>9, <2>10, <2>11, <2>12, <2>13, <2>14,
       <2>15, <2>16, <2>17, <2>18, <2>19, <2>20, <2>21, <2>22, <2>23, <2>24, <2>25, <2>26, <2>27,
       <2>28, <2>29, <2>30, <2>31, <2>32, <2>33, <2>34, <2>35, <2>36, <2>37, <2>38, <2>39, <2>40,
       <2>41, <2>42, <2>43, <2>44, <2>45, <2>46, <2>47
    DEF Next, AppCall, AppStep, ThreadStep

LEMMA StartableHolds ==
  ASSUME TypeOK, Once, NoRestart, \/ AllInv /\ (Refused \/ Going)
                                  \/ GivenUp
  PROVE  Startable
<1>1. CASE AllInv /\ (Refused \/ Going)
  <2>1. call.pc \in StartPcs \cup {"start"} => io.state \in {"prepared", "running", "xrun"}
    BY <1>1 DEF AllInv, Stopped, StartPcs, ResetPcs, TypeOK, IoType
  <2>2. ~self.opened => ~self.active
    BY <1>1 DEF Refused, Going, Opening
  <2>3. QED
    BY <2>1, <2>2 DEF Startable
<1>2. CASE GivenUp
  BY <1>2 DEF GivenUp, Abandoned, NoRestart, Startable
<1>3. QED
  BY <1>1, <1>2

LEMMA GoingSeen ==
  ASSUME TypeOK, Once, AllInv, Going PROVE Seen
<1> SUFFICES ASSUME call.pc = "pointer_lock" PROVE self.bufptr <= BufSize /\ Owing <= self.bufptr
  BY DEF Seen
<1>1. Streams
  BY DEF Once, Going, FifoInv, Serving, Streams
<1>2. /\ self.bufptr \in Nat /\ entered \in Nat /\ Len(server) \in Nat
      /\ \A t \in Threads : thr[t].rc \in Nat
  BY SizesAssumption DEF TypeOK, SelfType, SizeTs, ThrType
<1>3. CASE \A t \in Threads : ~Unstored(t)
  BY <1>1, <1>2, <1>3 DEF Once, Going, FifoInv, Counts, AllInv, Fitting, Owing
<1>4. CASE \E t \in Threads : Unstored(t)
  <2>1. PICK t \in Threads : Unstored(t)
    BY <1>4
  <2>2. Len(server) = entered - self.bufptr + thr[t].rc
    BY <1>1, <2>1 DEF Going, FifoInv, Counts
  <2>3. QED
    BY <1>2, <2>2 DEF Once, AllInv, Fitting, Owing
<1>5. QED
  BY <1>3, <1>4

(* A stream that is started once is refused, goes on, or is given up.      *)
LEMMA OnceStep == TypeOK /\ TypeOK' /\ OnceInv /\ [Next]_vars => OnceInv'
<1> SUFFICES ASSUME TypeOK, TypeOK', OnceInv, [Next]_vars, Once'
             PROVE  /\ NoRestart' /\ ActiveIn'
                    /\ \/ AllInv' /\ (Refused' \/ Going')
                       \/ GivenUp'
  BY DEF OnceInv
<1>1. Once
  BY EnvFixed DEF Once
<1>2. /\ NoRestart /\ ActiveIn
      /\ \/ AllInv /\ (Refused \/ Going)
         \/ GivenUp
  BY <1>1 DEF OnceInv
<1>3. NoRestart' /\ ActiveIn'
  BY <1>1, <1>2, NoRestartStep, ActiveInStep, StartableHolds
<1>4. CASE AllInv /\ Refused
  <2>1. CASE StartNewStream
    <3>1. \A t \in Threads : thr[t].pc # "cancel"
      BY <1>4 DEF AllInv, ThreadInv, FailPcs
    <3>2. Unfailing
      BY <2>1, <3>1 DEF StartNewStream, Unfailing
    <3>3. AllInv'
      BY <1>4, <3>2, IInvStep
    <3>4. Going'
      BY <1>4, <2>1, RefusedOpens DEF Going
    <3>5. QED
      BY <1>3, <3>3, <3>4
  <2>2. CASE ~StartNewStream
    <3>1. Refused' /\ UNCHANGED thr
      BY <1>2, <1>4, <2>2, RefusedStep
    <3>2. Unfailing
      BY <1>4, <3>1 DEF AllInv, ThreadInv, FailPcs, Unfailing
    <3>3. AllInv'
      BY <1>4, <3>2, IInvStep
    <3>4. QED
      BY <1>3, <3>1, <3>3
  <2>3. QED
    BY <2>1, <2>2
<1>5. CASE AllInv /\ Going
  <2>1. CASE \E t \in Threads : ThreadWrite(t) /\ ThrGoto(t, "cancel")
    BY <1>1, <1>2, <1>3, <1>5, <2>1, GoingFails
  <2>2. CASE ~\E t \in Threads : ThreadWrite(t) /\ ThrGoto(t, "cancel")
    <3>1. Unfailing
      BY <1>5, <2>2, CancelOnly
    <3>2. AllInv'
      BY <1>5, <3>1, IInvStep
    <3>3. CASE StartRefused
      BY <1>2, <1>3, <1>5, <3>2, <3>3, GoingRefused DEF Going
    <3>4. CASE ~StartRefused
      <4>1. FifoInv'
        BY <1>5, <3>1, <3>4, FifoStep DEF Going
      <4>2. Opening'
        BY <1>2, <1>5, <3>1, OpeningStep DEF Going
      <4>3. Fits'
        BY <1>1, <1>5, FitsStep, GoingSeen DEF Going
      <4>4. QED
        BY <1>3, <3>2, <4>1, <4>2, <4>3 DEF Going
    <3>5. QED
      BY <3>3, <3>4
  <2>3. QED
    BY <2>1, <2>2
<1>6. CASE GivenUp
  <2>1. Seen
    BY <1>6 DEF GivenUp, Abandoned, Seen, Owing, TypeOK, SelfType, SizeTs
  <2>2. Abandoned' /\ Fits'
    BY <1>1, <1>2, <1>6, <2>1, AbandonedStep, FitsStep DEF GivenUp
  <2>3. QED
    BY <1>3, <2>2 DEF GivenUp
<1>7. QED
  BY <1>2, <1>4, <1>5, <1>6

LEMMA OnceAlways == Spec => []OnceInv
<1>1. Init => OnceInv
  <2> SUFFICES ASSUME Init, Once PROVE NoRestart /\ ActiveIn /\ AllInv /\ Refused
    BY DEF OnceInv
  <2>1. AllInv
    BY InitAllInv
  <2>2. 1 \in Threads
    BY SizesAssumption DEF Threads
  <2>3. QED
    BY <2>1, <2>2 DEF Init, NoRestart, Created, First, ActiveIn, Refused
<1>2. QED
  BY <1>1, OnceStep, TypeCorrect, PTL DEF Spec

-----------------------------------------------------------------------------
(* The theorems below are about streams whose writes succeed, and about a  *)
(* stream that is started once and fails.                                  *)
FailsOnce == env.vioFails => env.gate /\ env.threads = 1 /\ ~env.rehw /\ env.frame = 1

(* What such a stream can be in.                                           *)
Sound == (AllInv /\ FifoInv) \/ (AllInv /\ Refused) \/ GivenUp
ChosenOnce == FailsOnce /\ OnceInv /\ IInv /\ (~env.vioFails => FifoInv)

LEMMA SoundState == ChosenOnce => Sound
  BY DEF ChosenOnce, Sound, FailsOnce, OnceInv, Once, IInv, AllInv, Going

LEMMA ChosenAlways == Spec /\ FailsOnce => []ChosenOnce
<1>1. FailsOnce /\ [Next]_vars => FailsOnce'
  BY EnvFixed DEF FailsOnce
<1>2. QED
  BY <1>1, OnceAlways, Inductive, FifoAlways, PTL DEF Spec, ChosenOnce

(* The background thread and roar_write never push bufptr out of the       *)
(* buffer while roar_vio_write does not fail, nor does a stream that is    *)
(* started once and fails: what the transfer still copies into the FIFO    *)
(* that is given up has been shown to fit.                                 *)
THEOREM FifoBounded == Spec /\ FailsOnce => []BufferBounded
<1>1. TypeOK /\ ChosenOnce => BufferBounded
  <2> SUFFICES ASSUME TypeOK, ChosenOnce, ~env.rehw PROVE BufferAlwaysBounded
    BY DEF BufferBounded
  <2>1. CASE AllInv
    BY <2>1 DEF AllInv, Fitting, BufferAlwaysBounded
  <2>2. CASE GivenUp
    <3>1. /\ self.bufptr <= BufSize /\ self.bufptr <= Owing
          /\ call.pc \in {"write_copy", "write_load"} => Owing + call.size <= BufSize
      BY <2>2 DEF GivenUp, Abandoned, Fits, WritePcs
    <3>2. self.bufptr \in Nat /\ call.size \in Nat /\ Owing \in Int /\ BufSize \in Nat
      BY SizesAssumption DEF TypeOK, SelfType, CallType, SizeTs, Owing
    <3>3. QED
      BY <3>1, <3>2 DEF BufferAlwaysBounded
  <2>3. QED
    BY <2>1, <2>2, SoundState DEF Sound
<1>2. QED
  BY <1>1, TypeCorrect, ChosenAlways, PTL

-----------------------------------------------------------------------------
LEMMA OnlyDelay == ASSUME [Next]_vars, delay' # delay PROVE Delay
<1>1. AppCall => Delay
  <2>1. ~Write
    BY Zenon DEF Write, counts
  <2>2. QED
    BY <2>1 DEF AppCall, HwParams, Prepare, Start, Drop, Close, counts
<1>2. ~AppStep
  BY DEF AppStep, HwBufptr, StartIgnored, StartRefused, StartNewStream, StartStore, StartThread,
    StartThreadFails, StopTest, StopClear, StopSignal, StopJoin, StopReset, StopReturn, Pointer,
    PointerLocked, WriteTest, WriteRoom, WriteFull, WriteWait, WriteAwake, WriteCopy, WriteLoad,
    WriteStore, WriteSignal, counts
<1>3. \A t \in Threads : ~ThreadStep(t)
  BY DEF ThreadStep, ThreadTest, ThreadCheck, ThreadWrite, ThreadMark, ThreadTotal, ThreadMove,
    ThreadLoad, ThreadStore, ThreadSignal, ThreadWait, ThreadAwake, ThreadCancelTest, ThreadReset,
    ThreadFailSignal, ThreadDetach, counts
<1>4. ~Spurious /\ ~UNCHANGED vars
  BY DEF Spurious, vars, counts
<1>5. QED
  BY <1>1, <1>2, <1>3, <1>4 DEF Next

(* Of what the FIFO and total_written say together.                        *)
LEMMA DelayStep ==
  ASSUME TypeOK, Sound, ~env.rehw, [Next]_vars, delay' # delay PROVE delay' <= entered + Chunk
<1>1. Delay
  BY OnlyDelay
<1>2. delay' \in {self.total + self.bufptr, self.bufptr} /\ call.pc = "idle"
  BY <1>1 DEF Delay
<1>3. /\ self.total \in Nat /\ self.bufptr \in Nat /\ entered \in Nat /\ Chunk \in Nat
      /\ Len(server) \in Nat
  BY SizesAssumption DEF TypeOK, SelfType, SizeTs
<1>4. CASE AllInv /\ FifoInv
  <2>1. Streams
    BY <1>1, <1>4 DEF Delay, FifoInv, Serving, Streams
  <2>2. self.total <= Len(server)
    BY <1>4, <2>1 DEF FifoInv, Totals
  <2>3. PICK rc \in 0 .. Chunk : Len(server) = entered - self.bufptr + rc
    <3>1. CASE \A t \in Threads : ~Unstored(t)
      BY <1>3, <1>4, <2>1, <3>1 DEF FifoInv, Counts
    <3>2. CASE \E t \in Threads : Unstored(t)
      BY <1>4, <2>1, <3>2 DEF FifoInv, Counts, TypeOK, ThrType
    <3>3. QED
      BY <3>1, <3>2
  <2>4. QED
    BY <1>2, <1>3, <2>2, <2>3
<1>5. CASE Refused
  BY <1>2, <1>3, <1>5 DEF Refused
<1>6. CASE GivenUp
  <2>1. self.total <= Len(server) /\ self.bufptr <= entered - Len(server)
    BY <1>6 DEF GivenUp, Abandoned, Owing
  <2>2. QED
    BY <1>2, <1>3, <2>1
<1>7. QED
  BY <1>4, <1>5, <1>6 DEF Sound

(* roar_drain reads total_written and bufptr while the thread has counted  *)
(* a chunk in the one and not yet taken it out of the other: where writes  *)
(* succeed, and of a stream that fails once, what it says is never off by  *)
(* more.                                                                   *)
THEOREM DelayBounded == Spec /\ FailsOnce => DelayOffByAChunk
<1>1. TypeOK /\ ChosenOnce /\ [Next]_vars
        => [~env.rehw /\ delay' # delay => delay' <= entered + Chunk]_vars
  BY DelayStep, SoundState
<1>2. QED
  BY <1>1, ChosenAlways, TypeCorrect, PTL DEF Spec, DelayOffByAChunk

-----------------------------------------------------------------------------
(* The FIFO as a pipe.                                                     *)
LEMMA WriteSubmits ==
  ASSUME TypeOK, AllInv, FifoInv, ~env.rehw, UNCHANGED env, WriteStore PROVE Pipe!Submit
<1>1. call.pc = "write_store" /\ entered' = entered + call.size /\ server' = server
  BY DEF WriteStore
<1>2. call.size >= 1 /\ Streams
  BY <1>1 DEF FifoInv, Serving, Streams, WritePcs
<1>3. self.bufptr + call.size <= BufSize
  BY <1>1 DEF AllInv, Fitting
<1>4. /\ call.size \in Nat /\ self.bufptr \in Nat /\ entered \in Nat /\ BufSize \in Nat
      /\ Len(server) \in Nat
  BY SizesAssumption DEF TypeOK, SelfType, CallType, SizeTs
<1>5. PICK rc \in Nat : Len(server) = entered - self.bufptr + rc
  <2>1. CASE \A t \in Threads : ~Unstored(t)
    BY <1>2, <1>4, <2>1 DEF FifoInv, Counts
  <2>2. CASE \E t \in Threads : Unstored(t)
    BY <1>2, <2>2, SizesAssumption DEF FifoInv, Counts, TypeOK, ThrType
  <2>3. QED
    BY <2>1, <2>2
<1>6. call.size \in 1 .. BufSize
  BY <1>2, <1>3, <1>4
<1>7. entered' - Len(server) <= BufSize
  <2> DEFINE size == call.size
             filled == self.bufptr
             sent == Len(server)
  <2>1. size \in Nat /\ filled \in Nat /\ sent \in Nat
    BY <1>4
  <2>2. entered' = entered + size /\ sent = entered - filled + rc /\ filled + size <= BufSize
    BY <1>1, <1>3, <1>5
  <2> HIDE DEF size, filled, sent
  <2>3. entered' - sent <= BufSize
    BY <1>4, <2>1, <2>2
  <2>4. QED
    BY <2>3 DEF sent
<1>8. QED
  BY <1>1, <1>6, <1>7 DEF Pipe!Submit, Shown

LEMMA ThreadDelivers ==
  ASSUME Unfailing, TypeOK, AllInv, FifoInv, ~env.rehw, UNCHANGED env, NEW t \in Threads, ThreadWrite(t)
  PROVE  Pipe!Deliver
<1>1. Len(server) = entered - self.bufptr /\ entered' = entered
  BY NextSent DEF ThreadWrite, counts
<1>2. PICK n \in 1 .. Chunk : n <= self.bufptr /\ server' = server \o Sent(n, Len(server))
  BY NextSent
<1>3. self.bufptr \in Nat /\ entered \in Nat /\ Chunk \in Nat
  BY SizesAssumption DEF TypeOK, SelfType, SizeTs
<1>4. n \in 1 .. entered - Len(server)
  BY <1>1, <1>2, <1>3
<1>5. QED
  BY <1>1, <1>2, <1>4 DEF Pipe!Deliver, Sent, Shown

(* Every other step leaves the pipe as it is.                              *)
LEMMA PipeKept ==
  ASSUME [Next]_vars, ~WriteStore, ~StartNewStream,
         \A t \in Threads : ThreadWrite(t) => UNCHANGED server
  PROVE  UNCHANGED <<entered, server>>
<1>1. AppCall => UNCHANGED <<entered, server>>
  <2>1. Write => UNCHANGED <<entered, server>>
    BY Zenon DEF Write, counts
  <2>2. QED
    BY <2>1 DEF AppCall, HwParams, Prepare, Start, Drop, Delay, Close, counts
<1>2. AppStep => UNCHANGED <<entered, server>>
  BY DEF AppStep, HwBufptr, StartIgnored, StartRefused, StartStore, StartThread, StartThreadFails,
    StopTest, StopClear, StopSignal, StopJoin, StopReset, StopReturn, Pointer, PointerLocked,
    WriteTest, WriteRoom, WriteFull, WriteWait, WriteAwake, WriteCopy, WriteLoad, WriteSignal,
    counts
<1>3. ASSUME NEW t \in Threads, ThreadStep(t) PROVE UNCHANGED <<entered, server>>
  <2>1. CASE ThreadWrite(t)
    BY <2>1 DEF ThreadWrite, counts
  <2>2. CASE ~ThreadWrite(t)
    BY <1>3, <2>2 DEF ThreadStep, ThreadTest, ThreadCheck, ThreadMark, ThreadTotal, ThreadMove,
      ThreadLoad, ThreadStore, ThreadSignal, ThreadWait, ThreadAwake, ThreadCancelTest,
      ThreadReset, ThreadFailSignal, ThreadDetach, counts
  <2>3. QED
    BY <2>1, <2>2
<1>4. Spurious \/ UNCHANGED vars => UNCHANGED <<entered, server>>
  BY DEF Spurious, vars, counts
<1>5. QED
  BY <1>1, <1>2, <1>3, <1>4 DEF Next

(* Of a stream that goes on, a failing write delivers nothing.             *)
LEMMA StreamIsPipe ==
  ASSUME TypeOK, AllInv, FifoInv, ~env.rehw, [Next]_vars PROVE [Pipe!Next]_<<entered, server>>
<1>0. UNCHANGED env
  BY EnvFixed
<1>1. CASE WriteStore
  BY <1>0, <1>1, WriteSubmits DEF Pipe!Next
<1>2. CASE StartNewStream
  BY <1>0, <1>2 DEF StartNewStream, Pipe!Next, Pipe!Open, Shown
<1>3. CASE \E t \in Threads : ThreadWrite(t) /\ ThrGoto(t, "cancel")
  <2>1. PICK t \in Threads : ThreadWrite(t) /\ ThrGoto(t, "cancel")
    BY <1>3
  <2>2. thr'[t].pc = "cancel"
    BY <2>1 DEF ThrGoto, TypeOK, ThrType
  <2>3. UNCHANGED <<entered, server>>
    BY <2>1, <2>2 DEF ThreadWrite, counts, TypeOK, ThrType
  <2>4. QED
    BY <2>3
<1>4. CASE ~\E t \in Threads : ThreadWrite(t) /\ ThrGoto(t, "cancel")
  <2>1. Unfailing
    BY <1>4, CancelOnly
  <2>2. CASE \E t \in Threads : ThreadWrite(t)
    BY <1>0, <2>1, <2>2, ThreadDelivers DEF Pipe!Next
  <2>3. CASE ~WriteStore /\ ~StartNewStream /\ ~\E t \in Threads : ThreadWrite(t)
    BY <2>3, PipeKept
  <2>4. QED
    BY <1>1, <1>2, <2>2, <2>3
<1>5. QED
  BY <1>3, <1>4

(* Nothing is delivered any more of one that is given up, but a transfer   *)
(* may still submit what it copied.                                        *)
LEMMA GivenUpIsPipe ==
  ASSUME TypeOK, NoRestart, GivenUp, ~env.rehw, [Next]_vars PROVE [Pipe!Next]_<<entered, server>>
<1>0. UNCHANGED env
  BY EnvFixed
<1>1. ~StartNewStream
  BY DEF StartNewStream, NoRestart, GivenUp, Abandoned
<1>2. \A t \in Threads : ~ThreadWrite(t)
  <2>1. \A u \in Threads \ {1} : thr[u].pc = "none"
    <3>1. \A u \in Threads \ {1} : u > 1
      BY DEF Threads
    <3>2. QED
      BY <3>1 DEF NoRestart, Created
  <2>2. thr[1].pc # "vio_write"
    BY DEF GivenUp, Abandoned, FailPcs, ResetPcs
  <2>3. QED
    BY <2>1, <2>2 DEF ThreadWrite
<1>3. CASE WriteStore
  <2>1. call.pc = "write_store" /\ entered' = entered + call.size /\ server' = server
    BY <1>3 DEF WriteStore
  <2>2. call.size >= 1 /\ Owing + call.size <= BufSize /\ 0 <= Owing
    BY <2>1 DEF GivenUp, Fits, Abandoned, WritePcs, TypeOK, SelfType, SizeTs, Owing
  <2>3. /\ call.size \in Nat /\ entered \in Nat /\ BufSize \in Nat /\ Len(server) \in Nat
    BY SizesAssumption DEF TypeOK, CallType, SizeTs
  <2>4. call.size \in 1 .. BufSize /\ entered' - Len(server) <= BufSize
    BY <2>1, <2>2, <2>3 DEF Owing
  <2>5. QED
    BY <1>0, <2>1, <2>4 DEF Pipe!Submit, Pipe!Next, Shown
<1>4. CASE ~WriteStore
  BY <1>1, <1>2, <1>4, PipeKept
<1>5. QED
  BY <1>3, <1>4

LEMMA StepsOfPipe ==
  ASSUME TypeOK, TypeOK', ChosenOnce, ~env.rehw, [Next]_vars PROVE [Pipe!Next]_<<entered, server>>
<1>0. UNCHANGED env
  BY EnvFixed
<1>1. CASE AllInv /\ FifoInv
  BY <1>1, StreamIsPipe
<1>2. CASE ~(AllInv /\ FifoInv)
  <2>1. env.vioFails /\ NoRestart
    BY <1>2 DEF ChosenOnce, FailsOnce, OnceInv, Once, IInv, AllInv
  <2>2. CASE GivenUp
    BY <2>1, <2>2, GivenUpIsPipe
  <2>3. CASE Refused
    <3>1. CASE StartNewStream
      BY <1>0, <3>1 DEF StartNewStream, Pipe!Next, Pipe!Open, Shown
    <3>2. CASE ~StartNewStream
      BY <2>1, <2>3, <3>2, RefusedStep
    <3>3. QED
      BY <3>1, <3>2
  <2>4. QED
    BY <1>2, <2>2, <2>3, SoundState DEF Sound
<1>3. QED
  BY <1>1, <1>2

(* Where roar_vio_write does not fail, and of a stream that is started     *)
(* once and fails, the server receives what roar_pcm_transfer wrote, each  *)
(* unit once and in order, however the partly unlocked stores of bufptr    *)
(* interleave: roar_write's second lock, the partial writes, the memmove   *)
(* and the two-step updates implement the abstract pipe.                   *)
THEOREM FifoImplementsPipe == Spec /\ FailsOnce => ImplementsPipe
<1>1. Init => Pipe!Init
  BY DEF Init, Pipe!Init, Shown
<1>2. TypeOK /\ TypeOK' /\ ChosenOnce /\ [Next]_vars
        => [Pipe!Next]_<<Shown(entered, 0), Shown(server, <<>>)>>
  <2> SUFFICES ASSUME TypeOK, TypeOK', ChosenOnce, [Next]_vars,
                      ~UNCHANGED <<Shown(entered, 0), Shown(server, <<>>)>>
               PROVE  Pipe!Next
    OBVIOUS
  <2>1. ~env.rehw /\ ~UNCHANGED <<entered, server>>
    BY EnvFixed DEF Shown
  <2>2. QED
    BY <2>1, StepsOfPipe
<1>3. QED
  BY <1>1, <1>2, ChosenAlways, TypeCorrect, PTL DEF Spec, ImplementsPipe, Pipe!Spec
=============================================================================
