---------------------------- MODULE UsbAndDelayProofs ----------------------------
(* Proofs about the PCM plugins that have no thread of their own: the memory the     *)
(* driver of a USB card maps, and the delay lines of the filters.                    *)
EXTENDS UsbStream, DelayLines, FiniteSetTheorems, SequenceTheorems, TLAPS

-----------------------------------------------------------------------------
(* usb_stream: the memory a PCM uses is the driver's present stream, and no overrun  *)
(* passes unnoticed, for any number of PCMs of a card.  The first takes the          *)
(* registry's count of users and what each step of a prepare leaves mapped; the      *)
(* second what three counters that wrap have to do with each other.                  *)
State == {"closed", "open", "prepared", "running", "xrun"}
Step == {"idle", "unmap", "map"}
Record == [use : Nat, s : Mapping, write : Mapping]
Driver == [config : Config \cup {0}, done : 0..Modulus - 1]

Typed ==
    /\ uus \in [Entry -> Record] /\ head \in Entry \cup {0} /\ held \in [Pcm -> Entry \cup {0}]
    /\ state \in [Pcm -> State] /\ pc \in [Pcm -> Step]
    /\ config \in [Pcm -> Config] /\ driver \in Driver
    /\ start \in [Pcm -> 0..Modulus - 1] /\ done \in [Pcm -> 0..Modulus - 1]
    /\ appl \in [Pcm -> Nat] /\ hw \in [Pcm -> Nat] /\ real \in [Pcm -> 0..MaxRun]
    /\ rest \in [Pcm -> 0..Frames - 1]
    /\ replaced \subseteq Pcm /\ env \subseteq Environment

\* The registry: one entry at most is in it, and counts the PCMs that hold it.
Users(e) == {p \in Pcm : held[p] = e}
Counted ==
    /\ \A e \in Entry : uus[e].use = Cardinality(Users(e)) /\ (uus[e].use > 0 <=> head = e)
    /\ \A p \in Pcm : held[p] = 0 <=> state[p] = "closed"

\* A PCM that is in a prepare, and what it finds mapped when it comes to map.
Preparing == \A p \in Pcm : pc[p] # "idle" => state[p] = "open"
Whole(e) == uus[e].s = "full" /\ uus[e].write = "full"
Sole == \A p, q \in Pcm : pc[p] # "idle" /\ pc[q] # "idle" => p = q
ReadyToMap ==
    \A p \in Pcm : pc[p] # "idle" =>
        driver.config = config[p] /\ (pc[p] = "map" => ~Mapped(held[p]) \/ Whole(held[p]))
Settled ==
    (\A p \in Pcm : pc[p] = "idle") =>
        /\ head # 0 => ~Mapped(head) \/ Whole(head)
        /\ \A p \in Pcm : state[p] \in {"prepared", "running"} => Whole(held[p])
Calm == "mmap" \notin env /\ "threads" \notin env
MapSound == Calm => Sole /\ ReadyToMap /\ Settled

\* The counters of a PCM: before the start, and while it runs on a stream the driver has.
Steady(p) ==
    /\ state[p] # "running" => hw[p] = 0 /\ real[p] = 0 /\ appl[p] <= IF p \in Playback THEN 2 ELSE 0
    /\ "sizes" \notin env => rest[p] = 0
    /\ state[p] = "running" /\ p \notin replaced =>
          /\ (driver.done - start[p]) % Modulus = real[p] /\ hw[p] <= real[p]
          /\ IF p \in Playback
             THEN appl[p] <= hw[p] + 2 /\ ("sizes" \notin env => appl[p] = Moved(p) + 2)
             ELSE appl[p] <= hw[p] /\ appl[p] = Moved(p)

IInv == Typed /\ Counted /\ Preparing /\ MapSound /\ \A p \in Pcm : Steady(p)

-----------------------------------------------------------------------------
\* Counters that wrap.
LEMMA ModDiff ==
    ASSUME NEW M \in Nat \ {0}, NEW x \in 0..M - 1, NEW y \in 0..M - 1
    PROVE  (x - y) % M = (IF x >= y THEN x - y ELSE x - y + M) /\ (x - y) % M \in 0..M - 1
  OBVIOUS

LEMMA ModNext ==
    ASSUME NEW M \in Nat \ {0}, NEW x \in 0..M - 1
    PROVE  (x + 1) % M = (IF x + 1 = M THEN 0 ELSE x + 1) /\ (x + 1) % M \in 0..M - 1
  OBVIOUS

LEMMA DiffNext ==
    ASSUME NEW M \in Nat, M > 2, NEW x \in 0..M - 1, NEW y \in 0..M - 1
    PROVE  (((x + 1) % M) - y) % M = IF ((x - y) % M) + 1 = M THEN 0 ELSE ((x - y) % M) + 1
  <1> DEFINE n == (x + 1) % M
             d == (x - y) % M
             e == (n - y) % M
  <1>1. n = (IF x + 1 = M THEN 0 ELSE x + 1) /\ n \in 0..M - 1
    <2>1. M \in Nat \ {0}
      OBVIOUS
    <2> QED
      BY <2>1, ModNext, Zenon
  <1>2. d = IF x >= y THEN x - y ELSE x - y + M
    BY ModDiff
  <1> HIDE DEF n, d
  <1>3. e = IF n >= y THEN n - y ELSE n - y + M
    BY <1>1, ModDiff
  <1> HIDE DEF e
  <1>4. e = IF d + 1 = M THEN 0 ELSE d + 1
    BY <1>1, <1>2, <1>3
  <1> QED
    BY <1>4 DEF n, d, e

LEMMA DiffBetween ==
    ASSUME NEW M \in Nat \ {0}, NEW x \in 0..M - 1, NEW y \in 0..M - 1, NEW z \in 0..M - 1
    PROVE  (x - y) % M = LET a == (x - z) % M
                             b == (y - z) % M
                         IN  IF a >= b THEN a - b ELSE a - b + M
  <1> DEFINE a == (x - z) % M
             b == (y - z) % M
             d == (x - y) % M
  <1>1. a = IF x >= z THEN x - z ELSE x - z + M
    BY ModDiff
  <1>2. b = IF y >= z THEN y - z ELSE y - z + M
    BY ModDiff
  <1>3. d = IF x >= y THEN x - y ELSE x - y + M
    BY ModDiff
  <1> HIDE DEF a, b, d
  <1>4. d = IF a >= b THEN a - b ELSE a - b + M
    BY <1>1, <1>2, <1>3
  <1> QED
    BY <1>4, Zenon DEF a, b, d

\* What an action does to an entry.
LEMMA EntryUse ==
    ASSUME uus \in [Entry -> Record], NEW e \in Entry,
           uus' = [uus EXCEPT ![e].use = @ + 1] \/ (uus[e].use > 1 /\ uus' = [uus EXCEPT ![e].use = @ - 1])
    PROVE  /\ uus' \in [Entry -> Record]
           /\ uus'[e].s = uus[e].s /\ uus'[e].write = uus[e].write
           /\ \A d \in Entry \ {e} : uus'[d] = uus[d]
  BY DEF Record

LEMMA EntryMapped ==
    ASSUME uus \in [Entry -> Record], NEW e \in Entry, NEW m \in Mapping, NEW w \in Mapping,
           \/ uus' = [uus EXCEPT ![e].s = m, ![e].write = w]
           \/ uus' = [uus EXCEPT ![e].s = m] /\ w = uus[e].write
    PROVE  /\ uus' \in [Entry -> Record]
           /\ uus'[e].use = uus[e].use /\ uus'[e].s = m /\ uus'[e].write = w
           /\ \A d \in Entry \ {e} : uus'[d] = uus[d]
  BY DEF Record

LEMMA EntryOutdated ==
    ASSUME uus \in [Entry -> Record],
           uus' = [e \in Entry |-> [uus[e] EXCEPT !.s = Outdated(@), !.write = Outdated(@)]]
    PROVE  uus' \in [Entry -> Record] /\ \A e \in Entry : uus'[e].use = uus[e].use
  BY DEF Record, Outdated, Mapping

LEMMA EntryFresh ==
    LET new == [NoEntry EXCEPT !.use = 1]
    IN  NoEntry \in Record /\ new \in Record /\ NoEntry.use = 0 /\ NoEntry.s = "none" /\ new.use = 1 /\ new.s = "none"
  BY DEF Record, NoEntry, Mapping

\* get_uus counts from one.
LEMMA Entries == 0 \notin Entry /\ Entry \subseteq Int
  BY FS_CardinalityType, SizesAssumption DEF Entry

LEMMA UsersCount ==
    ASSUME NEW e
    PROVE  /\ IsFiniteSet(Users(e)) /\ Cardinality(Users(e)) \in Nat
           /\ Cardinality(Users(e)) = 0 <=> Users(e) = {}
  <1>1. IsFiniteSet(Users(e))
    BY FS_Subset, SizesAssumption DEF Users
  <1> QED
    BY <1>1, FS_CardinalityType, FS_EmptySet

\* A PCM that is open holds the entry that is in the registry.
LEMMA HoldsHead ==
    ASSUME Typed, Counted, NEW p \in Pcm, state[p] # "closed"
    PROVE  held[p] \in Entry /\ held[p] = head /\ head # 0 /\ uus[held[p]] \in Record
  <1>1. held[p] \in Entry /\ p \in Users(held[p])
    BY DEF Typed, Counted, Users
  <1>2. uus[held[p]].use > 0
    BY <1>1, UsersCount DEF Counted
  <1> QED
    BY <1>1, <1>2, Entries DEF Typed, Counted

-----------------------------------------------------------------------------
LEMMA InitInv == Init => IInv
  <1> SUFFICES ASSUME Init PROVE IInv
    OBVIOUS
  <1>1. Typed
    BY EntryFresh, SizesAssumption DEF Init, Typed, State, Step, Driver, Environment
  <1>2. Counted
    <2>1. ASSUME NEW e \in Entry PROVE uus[e].use = Cardinality(Users(e)) /\ (uus[e].use > 0 <=> head = e)
      <3>1. Users(e) = {}
        BY Entries DEF Init, Users
      <3> QED
        BY <3>1, FS_EmptySet, Entries, EntryFresh DEF Init
    <2> QED
      BY <2>1 DEF Init, Counted
  <1>3. Preparing /\ MapSound
    BY DEF Init, Preparing, MapSound, Calm, Sole, ReadyToMap, Settled
  <1>4. ASSUME NEW p \in Pcm PROVE Steady(p)
    BY <1>4 DEF Init, Steady
  <1> QED
    BY <1>1, <1>2, <1>3, <1>4 DEF IInv

LEMMA HaltTyped ==
    ASSUME IInv, NEW p \in Pcm, NEW to \in State, Halt(p, to)
    PROVE  /\ state' \in [Pcm -> State] /\ start' \in [Pcm -> 0..Modulus - 1] /\ done' \in [Pcm -> 0..Modulus - 1]
           /\ appl' \in [Pcm -> Nat] /\ hw' \in [Pcm -> Nat] /\ real' \in [Pcm -> 0..MaxRun] /\ replaced' \subseteq Pcm
           /\ rest' \in [Pcm -> 0..Frames - 1] /\ rest'[p] = 0
           /\ state'[p] = to /\ hw'[p] = 0 /\ real'[p] = 0 /\ appl'[p] = 0
           /\ \A q \in Pcm \ {p} :
                 /\ state'[q] = state[q] /\ start'[q] = start[q] /\ done'[q] = done[q] /\ appl'[q] = appl[q] /\ rest'[q] = rest[q]
                 /\ hw'[q] = hw[q] /\ real'[q] = real[q] /\ (q \in replaced <=> q \in replaced')
  BY SizesAssumption DEF Halt, IInv, Typed

LEMMA TypedInv == IInv /\ [Next]_vars => Typed'
  <1> SUFFICES ASSUME IInv, [Next]_vars PROVE Typed'
    OBVIOUS
  <1> USE DEF IInv, Typed, entries, counters
  <1>1. ASSUME NEW p \in Pcm, Open(p) PROVE Typed'
    <2>1. head' \in Entry /\ uus' \in [Entry -> Record]
      <3>1. CASE head # 0
        BY <1>1, <3>1, EntryUse DEF Open, NewUse
      <3>2. CASE head = 0
        BY <1>1, <3>2, EntryFresh DEF Open
      <3> QED
        BY <3>1, <3>2
    <2> QED
      BY <1>1, <2>1 DEF Open, State
  <1>2. ASSUME NEW p \in Pcm, Close(p) PROVE Typed'
    <2>1. held[p] \in Entry
      BY <1>2, HoldsHead DEF Close
    <2>2. uus[held[p]].use \in Nat /\ uus[held[p]].use > 0
      BY <1>2, <2>1, HoldsHead DEF Close, Counted, Record
    <2>3. uus' \in [Entry -> Record] /\ head' \in Entry \cup {0}
      BY <1>2, <2>1, <2>2, EntryUse, EntryFresh DEF Close
    <2> QED
      BY <1>2, <2>3, HaltTyped DEF Close, State
  <1>3. ASSUME NEW p \in Pcm, SetParams(p) \/ SetParamsFails(p) PROVE Typed'
    BY <1>3, SizesAssumption DEF SetParams, SetParamsFails, Reopened, State, Step
  <1>4. ASSUME NEW p \in Pcm, SetNewParams(p) PROVE Typed'
    <2>1. driver' \in Driver
      <3>1. driver' = [config |-> config[p], done |-> 0]
        BY <1>4 DEF SetNewParams
      <3>2. config[p] \in Config /\ 0 \in 0..Modulus - 1
        BY SizesAssumption
      <3> QED
        BY <3>1, <3>2, Zenon DEF Driver
    <2>2. uus' \in [Entry -> Record]
      BY <1>4, EntryOutdated DEF SetNewParams
    <2>3. pc' \in [Pcm -> Step] /\ state' \in [Pcm -> State]
      BY <1>4 DEF SetNewParams, Reopened, State, Step
    <2>4. appl' \in [Pcm -> Nat] /\ rest' \in [Pcm -> 0..Frames - 1]
      <3>1. 0 \in 0..Frames - 1
        BY SizesAssumption
      <3>2. appl' = [appl EXCEPT ![p] = 0] /\ rest' = [rest EXCEPT ![p] = 0]
        BY <1>4 DEF SetNewParams, Reopened
      <3> QED
        BY ONLY <3>1, <3>2, Typed DEF Typed
    <2>5. replaced' \subseteq Pcm
      BY <1>4 DEF SetNewParams, Running
    <2> QED
      BY <1>4, <2>1, <2>2, <2>3, <2>4, <2>5 DEF SetNewParams
  <1>5. ASSUME NEW p \in Pcm, UnmapOld(p) \/ MapThere(p) \/ MapNew(p) \/ MapOther(p) \/ MapFails(p) PROVE Typed'
    <2>1. held[p] \in Entry /\ uus[held[p]].write \in Mapping
      <3>1. pc[p] # "idle"
        BY <1>5 DEF UnmapOld, MapThere, MapNew, MapOther, MapFails
      <3> QED
        BY <3>1, HoldsHead DEF Preparing, Record
    <2>2. uus' \in [Entry -> Record]
      BY <1>5, <2>1, EntryMapped DEF UnmapOld, MapThere, MapNew, MapOther, MapFails, Forgotten, Mapping
    <2>3. UNCHANGED <<head, held, config, driver, counters, env>>
      BY <1>5 DEF UnmapOld, MapThere, MapNew, MapOther, MapFails
    <2>4. pc' \in [Pcm -> Step] /\ state' \in [Pcm -> State]
      BY <1>5 DEF UnmapOld, MapThere, MapNew, MapOther, MapFails, Result, State, Step
    <2> QED
      BY <2>2, <2>3, <2>4
  <1>6. ASSUME Period PROVE Typed'
    <2>1. driver' \in Driver
      BY <1>6, ModNext, SizesAssumption DEF Period, Driver
    <2>2. real' \in [Pcm -> 0..MaxRun]
      BY <1>6, SizesAssumption DEF Period
    <2> QED
      BY <1>6, <2>1, <2>2 DEF Period
  <1>7. ASSUME NEW p \in Pcm, Start(p) PROVE Typed'
    BY <1>7 DEF Start, Restarted, Driver, State
  <1>8. ASSUME NEW p \in Pcm, PointerRuns(p) PROVE Typed'
    <2>1. hw[p] + ((Odd(p) - hw[p]) % 2) \in Nat
      <3>1. driver.done - start[p] \in Int
        BY DEF Driver
      <3>2. (driver.done - start[p]) % Modulus \in Int
        BY <3>1, SizesAssumption
      <3> QED
        BY <3>2 DEF Odd
    <2> QED
      BY <1>8, <2>1 DEF PointerRuns
  <1>9. ASSUME NEW p \in Pcm, PointerXrun(p) PROVE Typed'
    BY <1>9, HaltTyped DEF PointerXrun, State
  <1>10. ASSUME NEW p \in Pcm, Stop(p) PROVE Typed'
    BY <1>10, HaltTyped DEF Stop, State
  <1>11. ASSUME NEW p \in Pcm, Write(p) \/ Read(p) PROVE Typed'
    <2>1. (done[p] + 1) % Modulus \in 0..Modulus - 1
      BY ModNext, SizesAssumption
    <2>2. done' \in [Pcm -> 0..Modulus - 1] /\ appl' \in [Pcm -> Nat] /\ rest' \in [Pcm -> 0..Frames - 1]
      BY <1>11, <2>1 DEF Write, Read, Transferred, Sizes
    <2> QED
      BY <1>11, <2>2 DEF Write, Read
  <1>12. CASE UNCHANGED vars
    BY <1>12 DEF vars
  <1> QED
    BY <1>1, <1>2, <1>3, <1>4, <1>5, <1>6, <1>7, <1>8, <1>9, <1>10, <1>11, <1>12 DEF Next

\* get_uus, uus_free
LEMMA CountedInv == IInv /\ [Next]_vars => Counted'
  <1> SUFFICES ASSUME IInv, [Next]_vars PROVE Counted'
    OBVIOUS
  <1> USE DEF IInv, entries, counters
  <1>1. ASSUME UNCHANGED <<head, held>>, \A e \in Entry : uus'[e].use = uus[e].use,
               \A p \in Pcm : state'[p] = "closed" <=> state[p] = "closed"
        PROVE  Counted'
    BY <1>1 DEF Counted, Users
  <1>2. ASSUME NEW p \in Pcm, Open(p) PROVE Counted'
    <2>1. /\ state[p] = "closed" /\ state' = [state EXCEPT ![p] = "open"] /\ held' = [held EXCEPT ![p] = head']
          /\ held[p] = 0
      BY <1>2 DEF Open, Counted
    <2>2. PICK e \in Entry : /\ head' = e /\ uus'[e].use = uus[e].use + 1
                             /\ \A d \in Entry \ {e} : uus'[d] = uus[d] /\ head # d
      <3>1. CASE head # 0
        BY <1>2, <3>1 DEF Open, NewUse, Typed, Record
      <3>2. CASE head = 0
        <4>1. PICK e \in Entry : uus[e].use = 0 /\ uus' = [uus EXCEPT ![e] = [NoEntry EXCEPT !.use = 1]] /\ head' = e
          BY <1>2, <3>2 DEF Open
        <4>2. uus'[e].use = 1 /\ \A d \in Entry \ {e} : uus'[d] = uus[d] /\ head # d
          BY <3>2, <4>1, EntryFresh, Entries DEF Typed
        <4> QED
          BY <4>1, <4>2
      <3> QED
        BY <3>1, <3>2
    <2>3. /\ Users(e)' = Users(e) \cup {p} /\ p \notin Users(e)
          /\ \A d \in Entry \ {e} : Users(d)' = Users(d)
      BY <2>1, <2>2, Entries DEF Users, Typed
    <2>4. Cardinality(Users(e)') = Cardinality(Users(e)) + 1 /\ Cardinality(Users(e)) \in Nat
      BY <2>3, UsersCount, FS_AddElement
    <2>5. ASSUME NEW d \in Entry PROVE uus'[d].use = Cardinality(Users(d)') /\ (uus'[d].use > 0 <=> head' = d)
      <3>1. CASE d = e
        BY <2>2, <2>4, <3>1 DEF Counted
      <3>2. CASE d # e
        BY <2>2, <2>3, <3>2 DEF Counted
      <3> QED
        BY <3>1, <3>2
    <2>6. \A q \in Pcm : held'[q] = 0 <=> state'[q] = "closed"
      BY <2>1, <2>2, Entries DEF Counted, Typed
    <2> QED
      BY <2>5, <2>6 DEF Counted, Users
  <1>3. ASSUME NEW p \in Pcm, Close(p) PROVE Counted'
    <2> DEFINE e == held[p]
    <2>1. /\ e \in Entry /\ e = head /\ held' = [held EXCEPT ![p] = 0] /\ e # 0
          /\ state'[p] = "closed" /\ \A q \in Pcm \ {p} : state'[q] = state[q]
      BY <1>3, HoldsHead, HaltTyped DEF Close, State
    <2>2. /\ Users(e) \ {p} = {q \in Pcm : held'[q] = e} /\ p \in Users(e)
          /\ \A d \in Entry \ {e} : Users(d) = {q \in Pcm : held'[q] = d}
      BY <2>1, Entries DEF Users, Typed
    <2>3. Cardinality(Users(e) \ {p}) = Cardinality(Users(e)) - 1 /\ Cardinality(Users(e)) \in Nat
          /\ uus[e].use = Cardinality(Users(e))
      BY <2>1, <2>2, UsersCount, FS_RemoveElement DEF Counted
    <2>4. uus'[e].use = uus[e].use - 1 /\ (uus'[e].use > 0 <=> head' = e) /\ head' \in {0, e}
          /\ \A d \in Entry \ {e} : uus'[d] = uus[d]
      <3>1. uus[e].use > 0 /\ e \in Entry
        BY <2>1 DEF Counted
      <3>2. CASE uus[e].use = 1
        BY <1>3, <2>1, <3>2, EntryFresh DEF Close, Typed
      <3>3. CASE uus[e].use # 1
        BY <1>3, <2>1, <2>3, <3>1, <3>3 DEF Close, Typed, Record
      <3> QED
        BY <3>2, <3>3
    <2>5. ASSUME NEW d \in Entry
          PROVE  uus'[d].use = Cardinality({q \in Pcm : held'[q] = d}) /\ (uus'[d].use > 0 <=> head' = d)
      <3>1. CASE d = e
        BY <2>2, <2>3, <2>4, <3>1
      <3>2. CASE d # e
        <4>1. d # 0 /\ ~(uus[d].use > 0) /\ uus'[d] = uus[d]
          BY <2>1, <2>4, <3>2, Entries DEF Counted
        <4> QED
          BY <2>2, <2>4, <3>2, <4>1 DEF Counted
      <3> QED
        BY <3>1, <3>2
    <2>6. \A q \in Pcm : held'[q] = 0 <=> state'[q] = "closed"
      BY <2>1 DEF Counted, Typed
    <2> QED
      BY <2>5, <2>6 DEF Counted, Users
  <1>4. ASSUME NEW p \in Pcm, SetParams(p) \/ SetParamsFails(p) PROVE Counted'
    BY <1>1, <1>4 DEF Reopened, SetParams, SetParamsFails, Preparable, Typed
  <1>5. ASSUME NEW p \in Pcm, SetNewParams(p) PROVE Counted'
    BY <1>1, <1>5, EntryOutdated DEF Reopened, SetNewParams, Preparable, Typed
  <1>6. ASSUME NEW p \in Pcm, UnmapOld(p) \/ MapThere(p) \/ MapNew(p) \/ MapOther(p) \/ MapFails(p)
        PROVE  Counted'
    <2>1. held[p] \in Entry /\ uus[held[p]].write \in Mapping /\ state[p] = "open"
      <3>1. pc[p] # "idle"
        BY <1>6 DEF UnmapOld, MapThere, MapNew, MapOther, MapFails
      <3> QED
        BY <3>1, HoldsHead DEF Preparing, Record
    <2>2. \A e \in Entry : uus'[e].use = uus[e].use
      <3> DEFINE h == held[p]
      <3>1. \/ uus' = uus
            \/ \E m \in Mapping : uus' = [uus EXCEPT ![h].s = m]
            \/ \E m, w \in Mapping : uus' = [uus EXCEPT ![h].s = m, ![h].write = w]
        BY <1>6 DEF UnmapOld, MapThere, MapNew, MapOther, MapFails, Forgotten, Mapping
      <3>2. ASSUME NEW m \in Mapping, uus' = [uus EXCEPT ![h].s = m] PROVE \A e \in Entry : uus'[e].use = uus[e].use
        BY <2>1, <3>2, EntryMapped DEF Typed
      <3>3. ASSUME NEW m \in Mapping, NEW w \in Mapping, uus' = [uus EXCEPT ![h].s = m, ![h].write = w]
            PROVE  \A e \in Entry : uus'[e].use = uus[e].use
        BY <2>1, <3>3, EntryMapped DEF Typed
      <3> QED
        BY <3>1, <3>2, <3>3
    <2>3. UNCHANGED <<head, held>> /\ \A q \in Pcm : state'[q] = "closed" <=> state[q] = "closed"
      BY <1>6, <2>1 DEF UnmapOld, MapThere, MapNew, MapOther, MapFails, Result, Typed
    <2> QED
      BY <1>1, <2>2, <2>3
  <1>7. ASSUME NEW p \in Pcm, PointerXrun(p) \/ Stop(p) PROVE Counted'
    <2>1. state[p] = "running" /\ state'[p] \in {"xrun", "open"} /\ \A q \in Pcm \ {p} : state'[q] = state[q]
      BY <1>7, HaltTyped DEF PointerXrun, Stop, State
    <2> QED
      BY <1>1, <1>7, <2>1 DEF PointerXrun, Stop
  <1>8. ASSUME NEW p \in Pcm, Start(p) \/ PointerRuns(p) \/ Write(p) \/ Read(p) PROVE Counted'
    BY <1>1, <1>8 DEF Start, PointerRuns, Write, Read, Typed
  <1>9. CASE Period \/ UNCHANGED vars
    BY <1>1, <1>9 DEF Period, vars
  <1> QED
    BY <1>2, <1>3, <1>4, <1>5, <1>6, <1>7, <1>8, <1>9 DEF Next

LEMMA PreparingInv == IInv /\ [Next]_vars => Preparing'
  <1> SUFFICES ASSUME IInv, [Next]_vars PROVE Preparing'
    OBVIOUS
  <1> USE DEF IInv, Typed, Preparing
  <1>1. ASSUME NEW p \in Pcm, pc[p] = "idle", UNCHANGED pc, \A q \in Pcm \ {p} : state'[q] = state[q]
        PROVE  Preparing'
    BY <1>1
  <1>2. ASSUME NEW p \in Pcm, Open(p) \/ SetParamsFails(p) \/ Start(p) \/ PointerRuns(p) \/ Write(p) \/ Read(p)
        PROVE  Preparing'
    BY <1>1, <1>2 DEF Open, SetParamsFails, Reopened, Start, PointerRuns, Write, Read, Free
  <1>3. ASSUME NEW p \in Pcm, Close(p) \/ PointerXrun(p) \/ Stop(p) PROVE Preparing'
    BY <1>1, <1>3, HaltTyped DEF Close, PointerXrun, Stop, Free, State
  <1>4. ASSUME NEW p \in Pcm, SetParams(p) \/ SetNewParams(p) PROVE Preparing'
    BY <1>4 DEF Reopened, SetParams, SetNewParams
  <1>5. ASSUME NEW p \in Pcm, UnmapOld(p) PROVE Preparing'
    BY <1>5 DEF UnmapOld
  <1>6. ASSUME NEW p \in Pcm, MapThere(p) \/ MapNew(p) \/ MapOther(p) \/ MapFails(p) PROVE Preparing'
    BY <1>6 DEF MapThere, MapNew, MapOther, MapFails, Result
  <1>7. CASE Period \/ UNCHANGED vars
    BY <1>7 DEF Period, vars
  <1> QED
    BY <1>2, <1>3, <1>4, <1>5, <1>6, <1>7 DEF Next

-----------------------------------------------------------------------------
\* One prepare at a time, and no mmap that fails: what each step leaves mapped.
\* What may happen is decided at the start.
LEMMA SameEnv == [Next]_vars => env' = env
  <1> SUFFICES ASSUME [Next]_vars PROVE env' = env
    OBVIOUS
  <1>1. ASSUME NEW p \in Pcm
        PROVE  /\ Open(p) \/ Close(p) \/ SetParams(p) \/ SetNewParams(p) \/ SetParamsFails(p) => env' = env
               /\ UnmapOld(p) \/ MapThere(p) \/ MapNew(p) => env' = env
               /\ Start(p) \/ PointerRuns(p) \/ PointerXrun(p) \/ Write(p) \/ Read(p) \/ Stop(p) => env' = env
    <2>1. Open(p) \/ Close(p) \/ SetParams(p) \/ SetNewParams(p) \/ SetParamsFails(p) => env' = env
      BY DEF Open, Close, SetParams, SetNewParams, SetParamsFails
    <2>2. UnmapOld(p) \/ MapThere(p) \/ MapNew(p) => env' = env
      BY DEF UnmapOld, MapThere, MapNew
    <2>3. Start(p) \/ PointerRuns(p) \/ PointerXrun(p) \/ Write(p) \/ Read(p) \/ Stop(p) => env' = env
      BY DEF Start, PointerRuns, PointerXrun, Write, Read, Stop
    <2> QED
      BY <2>1, <2>2, <2>3
  <1>2. Period => env' = env
    BY DEF Period
  <1>3. UNCHANGED vars => env' = env
    BY DEF vars
  <1>4. ASSUME NEW p \in Pcm, MapOther(p) \/ MapFails(p) PROVE env' = env
    BY <1>4 DEF MapOther, MapFails
  <1> QED
    BY <1>1, <1>2, <1>3, <1>4 DEF Next

LEMMA MapInv == IInv /\ [Next]_vars => MapSound'
  <1> SUFFICES ASSUME IInv, [Next]_vars, Calm' PROVE (Sole /\ ReadyToMap /\ Settled)'
    BY DEF MapSound
  <1> USE DEF IInv, entries, counters
  <1>1. Calm
    BY SameEnv DEF Calm
  <1>2. Sole /\ ReadyToMap /\ Settled
    BY <1>1 DEF MapSound
  <1>3. \A p \in Pcm : Free(p) => \A q \in Pcm : pc[q] = "idle"
    BY <1>1 DEF Free, Calm
  <1>4. \A p \in Pcm : state[p] # "closed" => held[p] \in Entry /\ held[p] = head /\ head # 0
    BY HoldsHead
  <1>5. \A p \in Pcm : state[p] \in {"prepared", "running"} => state[p] # "closed"
    OBVIOUS
  \* An action between prepares that maps nothing.
  <1>6. ASSUME \A q \in Pcm : pc[q] = "idle", UNCHANGED <<uus, head, held, pc>>,
               \A q \in Pcm : state'[q] \in {"prepared", "running"} => state[q] \in {"prepared", "running"}
        PROVE  (Sole /\ ReadyToMap /\ Settled)'
    BY <1>2, <1>6 DEF Sole, ReadyToMap, Settled, Mapped, Whole
  <1>7. ASSUME NEW p \in Pcm, Open(p) PROVE (Sole /\ ReadyToMap /\ Settled)'
    <2>1. (\A q \in Pcm : pc[q] = "idle") /\ pc' = pc /\ state[p] = "closed" /\ head' # 0
          /\ \A q \in Pcm \ {p} : state'[q] = state[q] /\ held'[q] = held[q]
      BY <1>3, <1>7, Entries DEF Open, Typed
    <2>2. state'[p] = "open"
      BY <1>7 DEF Open, Typed
    <2>3. CASE head # 0
      <3>1. head' = head /\ uus'[head].s = uus[head].s /\ uus'[head].write = uus[head].write
        BY <1>7, <2>3, EntryUse DEF Open, NewUse, Typed
      <3> QED
        BY <1>2, <1>4, <1>5, <2>1, <2>2, <2>3, <3>1 DEF Sole, ReadyToMap, Settled, Mapped, Whole
    <2>4. CASE head = 0
      <3>1. uus'[head'].s = "none"
        BY <1>7, <2>4, EntryFresh DEF Open, Typed
      <3>2. \A q \in Pcm : state[q] \notin {"prepared", "running"}
        BY <1>4, <1>5, <2>4
      <3> QED
        BY <2>1, <2>2, <3>1, <3>2 DEF Sole, ReadyToMap, Settled, Mapped
    <2> QED
      BY <2>3, <2>4
  <1>8. ASSUME NEW p \in Pcm, Close(p) PROVE (Sole /\ ReadyToMap /\ Settled)'
    <2>1. (\A q \in Pcm : pc[q] = "idle") /\ pc' = pc /\ state'[p] = "closed" /\ held[p] = head /\ head \in Entry
          /\ \A q \in Pcm \ {p} : state'[q] = state[q] /\ held'[q] = held[q]
      BY <1>3, <1>4, <1>8, HaltTyped DEF Close, State, Typed
    <2>2. CASE uus[head].use = 1
      <3>1. head' = 0
        BY <1>8, <2>1, <2>2 DEF Close
      <3>2. \A q \in Pcm \ {p} : state[q] = "closed"
        <4> SUFFICES ASSUME NEW q \in Pcm \ {p}, state[q] # "closed" PROVE FALSE
          OBVIOUS
        <4>1. held[q] = head /\ Users(head) \ {p} # {} /\ p \in Users(head)
          BY <1>4, <2>1 DEF Users
        <4>2. Cardinality(Users(head)) = 1 /\ Cardinality(Users(head) \ {p}) = 0
          <5>1. Cardinality(Users(head)) = 1 /\ IsFiniteSet(Users(head))
            BY <2>1, <2>2, UsersCount DEF Counted
          <5>2. Cardinality(Users(head) \ {p}) = Cardinality(Users(head)) - 1
            BY <4>1, <5>1, FS_RemoveElement
          <5> QED
            BY <5>1, <5>2
        <4> QED
          BY <4>1, <4>2, UsersCount, FS_RemoveElement, FS_EmptySet
      <3> QED
        BY <2>1, <3>1, <3>2 DEF Sole, ReadyToMap, Settled
    <2>3. CASE uus[head].use # 1
      <3>1. uus[head].use > 1
        <4>1. uus[head].use > 0 /\ uus[head].use \in Nat
          BY <2>1 DEF Counted, Typed, Record
        <4> QED
          BY <2>3, <4>1
      <3>2. head' = head /\ uus'[head].s = uus[head].s /\ uus'[head].write = uus[head].write
        BY <1>8, <2>1, <2>3, <3>1, EntryUse DEF Close, Typed
      <3> QED
        BY <1>2, <1>4, <1>5, <2>1, <3>2 DEF Sole, ReadyToMap, Settled, Mapped, Whole
    <2> QED
      BY <2>2, <2>3
  <1>9. ASSUME NEW p \in Pcm, SetParams(p) PROVE (Sole /\ ReadyToMap /\ Settled)'
    <2>1. /\ \A q \in Pcm : pc[q] = "idle"
          /\ state[p] # "closed" /\ pc'[p] = "map" /\ \A q \in Pcm \ {p} : pc'[q] = pc[q]
          /\ driver.config = config[p] /\ UNCHANGED <<uus, head, held, driver, config>>
      BY <1>3, <1>9 DEF Reopened, SetParams, Preparable, Typed
    <2> QED
      BY <1>2, <1>4, <2>1 DEF Sole, ReadyToMap, Settled, Mapped, Whole
  <1>10. ASSUME NEW p \in Pcm, SetNewParams(p) PROVE (Sole /\ ReadyToMap /\ Settled)'
    <2>1. /\ \A q \in Pcm : pc[q] = "idle"
          /\ pc'[p] = "unmap" /\ \A q \in Pcm \ {p} : pc'[q] = pc[q]
          /\ driver'.config = config'[p]
      BY <1>3, <1>10 DEF Reopened, SetNewParams, Typed
    <2> QED
      BY <2>1 DEF Sole, ReadyToMap, Settled
  <1>11. ASSUME NEW p \in Pcm, UnmapOld(p) PROVE (Sole /\ ReadyToMap /\ Settled)'
    <2>1. /\ pc[p] = "unmap" /\ pc'[p] = "map" /\ (\A q \in Pcm \ {p} : pc'[q] = pc[q])
          /\ UNCHANGED <<head, held, driver, config>> /\ held[p] \in Entry
      BY <1>4, <1>11 DEF UnmapOld, Typed, Preparing
    <2>2. uus'[held[p]].s = "none"
      <3>1. CASE Mapped(held[p])
        <4>1. "none" \in Mapping /\ uus[held[p]].write \in Mapping
          BY <2>1 DEF Mapping, Typed, Record
        <4> QED
          <5>1. uus' = [uus EXCEPT ![held[p]].s = "none"]
            BY <1>11, <3>1 DEF UnmapOld, Forgotten
          <5>2. held[p] \in Entry /\ uus \in [Entry -> Record]
            BY <2>1 DEF Typed
          <5>3. QED
            BY ONLY <5>1, <5>2 DEF Record
      <3>2. CASE ~Mapped(held[p])
        BY <1>11, <3>2 DEF UnmapOld, Mapped
      <3> QED
        BY <3>1, <3>2
    <2> QED
      BY <1>2, <2>1, <2>2 DEF Sole, ReadyToMap, Settled, Mapped
  <1>12. ASSUME NEW p \in Pcm, MapThere(p) \/ MapNew(p) PROVE (Sole /\ ReadyToMap /\ Settled)'
    <2>1. /\ pc[p] = "map" /\ pc'[p] = "idle" /\ (\A q \in Pcm \ {p} : pc'[q] = pc[q] /\ state'[q] = state[q])
          /\ UNCHANGED <<head, held, driver, config>> /\ held[p] \in Entry /\ held[p] = head
      BY <1>4, <1>12 DEF MapThere, MapNew, Result, Typed, Preparing
    <2>2. \A q \in Pcm : pc'[q] = "idle"
      BY <1>2, <2>1 DEF Sole
    <2>3. uus'[head].s = "full" /\ uus'[head].write = "full"
      <3>1. CASE MapThere(p)
        BY <1>2, <2>1, <3>1 DEF MapThere, ReadyToMap, Whole
      <3>2. CASE MapNew(p)
        <4>1. "full" \in Mapping /\ uus \in [Entry -> Record]
          BY DEF Mapping, Typed
        <4>2. uus' = [uus EXCEPT ![held[p]].s = "full", ![held[p]].write = "full"]
          BY <3>2 DEF MapNew
        <4>3. ASSUME NEW e \in Entry, uus' = [uus EXCEPT ![e].s = "full", ![e].write = "full"]
              PROVE  uus'[e].s = "full" /\ uus'[e].write = "full"
          BY <4>1, <4>3 DEF Record
        <4> QED
          BY <2>1, <4>2, <4>3
      <3> QED
        BY <1>12, <3>1, <3>2
    <2>4. \A q \in Pcm : state'[q] \in {"prepared", "running"} => held'[q] = head
      BY <1>4, <1>5, <2>1
    <2> QED
      BY <2>1, <2>2, <2>3, <2>4 DEF Sole, ReadyToMap, Settled, Whole
  <1>13. ASSUME NEW p \in Pcm, MapOther(p) \/ MapFails(p) PROVE FALSE
    BY <1>1, <1>2, <1>13 DEF MapOther, MapFails, ReadyToMap, Calm
  <1>14. ASSUME NEW p \in Pcm, SetParamsFails(p) \/ Start(p) \/ PointerRuns(p) \/ Write(p) \/ Read(p)
         PROVE (Sole /\ ReadyToMap /\ Settled)'
    <2>1. (\A q \in Pcm : pc[q] = "idle") /\ UNCHANGED <<uus, head, held, pc>>
      BY <1>3, <1>14 DEF SetParamsFails, Start, PointerRuns, Write, Read
    <2>2. \A q \in Pcm : state'[q] \in {"prepared", "running"} => state[q] \in {"prepared", "running"}
      BY <1>14 DEF SetParamsFails, Reopened, Start, PointerRuns, Write, Read, Typed
    <2> QED
      BY <1>6, <2>1, <2>2
  <1>15. ASSUME NEW p \in Pcm, PointerXrun(p) \/ Stop(p) PROVE (Sole /\ ReadyToMap /\ Settled)'
    <2>1. (\A q \in Pcm : pc[q] = "idle") /\ UNCHANGED <<uus, head, held, pc>>
      BY <1>3, <1>15 DEF PointerXrun, Stop
    <2>2. state'[p] \in {"xrun", "open"} /\ \A q \in Pcm \ {p} : state'[q] = state[q]
      BY <1>15, HaltTyped DEF PointerXrun, Stop, State
    <2> QED
      BY <1>6, <2>1, <2>2
  <1>16. CASE Period \/ UNCHANGED vars
    <2>1. driver'.config = driver.config /\ UNCHANGED <<uus, head, held, pc, state, config>>
      BY <1>16 DEF Period, vars, Typed, Driver
    <2> QED
      BY <1>2, <2>1 DEF Sole, ReadyToMap, Settled, Mapped, Whole
  <1> QED
    BY <1>7, <1>8, <1>9, <1>10, <1>11, <1>12, <1>13, <1>14, <1>15, <1>16 DEF Next

-----------------------------------------------------------------------------
\* What a call of one PCM leaves of the others' counters.
LEMMA SteadyFrame ==
    ASSUME NEW q \in Pcm, Steady(q), driver'.done = driver.done,
           state'[q] = state[q] \/ (state[q] # "running" /\ state'[q] # "running"),
           start'[q] = start[q], done'[q] = done[q], appl'[q] = appl[q] \/ (appl'[q] = 0 /\ state'[q] # "running"),
           hw'[q] = hw[q], real'[q] = real[q], appl[q] \in Nat, env' = env,
           rest'[q] = rest[q] \/ rest'[q] = 0,
           q \in replaced => q \in replaced' \/ state[q] # "running"
    PROVE  Steady(q)'
  BY DEF Steady, Moved

LEMMA SteadyInv == IInv /\ [Next]_vars => \A p \in Pcm : Steady(p)'
  <1> SUFFICES ASSUME IInv, [Next]_vars, NEW q \in Pcm PROVE Steady(q)'
    OBVIOUS
  <1> USE DEF IInv, counters
  <1>e. env' = env
    BY SameEnv
  <1>1. Steady(q) /\ appl[q] \in Nat /\ hw[q] \in Nat /\ real[q] \in 0..MaxRun /\ Moved(q) \in 0..Modulus - 1
        /\ start[q] \in 0..Modulus - 1 /\ done[q] \in 0..Modulus - 1 /\ driver.done \in 0..Modulus - 1
        /\ Modulus \in Nat \ {0} /\ Modulus > 2
    <2>1. start[q] \in 0..Modulus - 1 /\ done[q] \in 0..Modulus - 1 /\ Modulus \in Nat \ {0}
      BY SizesAssumption DEF Typed
    <2>2. Moved(q) \in 0..Modulus - 1
      BY <2>1, ModDiff DEF Moved
    <2> QED
      BY <2>1, <2>2, SizesAssumption DEF Typed, Driver
  <1>2. ASSUME NEW p \in Pcm, \/ Open(p) \/ SetParams(p) \/ SetParamsFails(p) \/ UnmapOld(p)
                               \/ MapThere(p) \/ MapNew(p) \/ MapOther(p) \/ MapFails(p)
        PROVE  Steady(q)'
    <2>1. UNCHANGED <<driver, start, done, hw, real, replaced>>
      BY <1>2 DEF Reopened, Open, SetParams, SetParamsFails, UnmapOld, MapThere, MapNew, MapOther, MapFails
    <2>2. \/ state'[q] = state[q] /\ appl'[q] = appl[q] /\ rest'[q] = rest[q]
          \/ state[q] # "running" /\ state'[q] # "running" /\ appl'[q] \in {0, appl[q]} /\ rest'[q] \in {0, rest[q]}
      BY <1>2 DEF Reopened, Open, SetParams, SetParamsFails, UnmapOld, MapThere, MapNew, MapOther, MapFails, Result,
                  Preparable, Preparing, Typed
    <2> QED
      BY <1>1, <1>e, <2>1, <2>2, SteadyFrame
  <1>3. ASSUME NEW p \in Pcm, Close(p) \/ PointerXrun(p) \/ Stop(p) PROVE Steady(q)'
    <2>1. PICK to \in State \ {"running"} : Halt(p, to) /\ driver' = driver
      BY <1>3 DEF Close, PointerXrun, Stop, State
    <2>2. CASE q = p
      BY <2>1, <2>2, HaltTyped DEF Steady
    <2>3. CASE q # p
      BY <1>1, <1>e, <2>1, <2>3, HaltTyped, SteadyFrame
    <2> QED
      BY <2>2, <2>3
  <1>4. ASSUME NEW p \in Pcm, SetNewParams(p) PROVE Steady(q)'
    <2>1. CASE state[q] = "running"
      <3>1. q \in replaced' /\ state'[q] = "running"
        BY <1>4, <2>1 DEF Reopened, SetNewParams, Running, Preparable, Typed
      <3>2. rest'[q] = rest[q]
        BY <1>4, <2>1 DEF Reopened, SetNewParams, Preparable, Typed
      <3> QED
        BY <1>1, <1>e, <3>1, <3>2 DEF Steady
    <2>2. CASE state[q] # "running"
      <3>1. state'[q] # "running" /\ appl'[q] \in {0, appl[q]} /\ rest'[q] \in {0, rest[q]} /\ hw' = hw /\ real' = real
        BY <1>4, <2>2 DEF Reopened, SetNewParams, Typed
      <3> QED
        BY <1>1, <1>e, <2>2, <3>1 DEF Steady
    <2> QED
      BY <2>1, <2>2
  <1>5. ASSUME Period PROVE Steady(q)'
    <2>1. driver'.done = (driver.done + 1) % Modulus /\ UNCHANGED <<state, start, done, appl, hw, rest, replaced>>
          /\ real'[q] = (IF state[q] = "running" THEN real[q] + 1 ELSE real[q]) /\ real[q] < MaxRun
      BY <1>5 DEF Period, Running, Typed, Driver
    <2>2. (driver'.done - start[q]) % Modulus =
              (IF ((driver.done - start[q]) % Modulus) + 1 = Modulus THEN 0 ELSE ((driver.done - start[q]) % Modulus) + 1)
      <3>1. (((driver.done + 1) % Modulus) - start[q]) % Modulus =
                (IF ((driver.done - start[q]) % Modulus) + 1 = Modulus THEN 0 ELSE ((driver.done - start[q]) % Modulus) + 1)
        BY ONLY <1>1, SizesAssumption, DiffNext, Zenon
      <3> QED
        BY <2>1, <3>1, Zenon
    <2>3. real[q] + 1 < Modulus
      BY <1>1, <2>1, SizesAssumption
    <2>4. Moved(q)' = Moved(q)
      BY <2>1 DEF Moved
    <2> DEFINE d == (driver.done - start[q]) % Modulus
               e == (driver'.done - start'[q]) % Modulus
    <2>5. state[q] = "running" /\ q \notin replaced => d = real[q] /\ e = real'[q]
      BY <1>1, <2>1, <2>2, <2>3 DEF Steady
    <2> HIDE DEF d, e
    <2>6. state'[q] # "running" => hw'[q] = 0 /\ real'[q] = 0 /\ appl'[q] <= IF q \in Playback THEN 2 ELSE 0
      BY <1>1, <2>1 DEF Steady
    <2>7. state[q] = "running" /\ q \notin replaced =>
            /\ hw'[q] <= real'[q]
            /\ IF q \in Playback
               THEN appl'[q] <= hw'[q] + 2 /\ ("sizes" \notin env => appl'[q] = Moved(q)' + 2)
               ELSE appl'[q] <= hw'[q] /\ appl'[q] = Moved(q)'
      BY <1>1, <2>1, <2>4 DEF Steady
    <2>8. "sizes" \notin env' => rest'[q] = 0
      BY <1>1, <1>e, <2>1 DEF Steady
    <2> QED
      BY <1>e, <2>1, <2>5, <2>6, <2>7, <2>8 DEF Steady, e
  <1>6. ASSUME NEW p \in Pcm, Start(p) PROVE Steady(q)'
    <2>1. CASE q = p
      <3>1. state[q] = "prepared" /\ start'[q] = driver.done /\ done'[q] = driver.done
            /\ UNCHANGED <<driver, appl, hw, rest, real, replaced>> /\ state'[q] = "running"
        BY <1>6, <2>1 DEF Start, Restarted, Typed
      <3>2. (driver.done - driver.done) % Modulus = 0
        BY <1>1, ModDiff
      <3>3. Moved(q)' = 0 /\ (driver'.done - start'[q]) % Modulus = 0
        BY <3>1, <3>2 DEF Moved
      <3>4. hw[q] = 0 /\ real[q] = 0 /\ appl[q] <= IF q \in Playback THEN 2 ELSE 0
        BY <1>1, <3>1 DEF Steady
      <3>5. q \in Playback /\ "sizes" \notin env => appl[q] = 2
        BY <1>6, <2>1 DEF Start
      <3>6. q \notin Playback => appl[q] = 0
        BY <1>1, <3>4
      <3>7. "sizes" \notin env => rest[q] = 0
        BY <1>1 DEF Steady
      <3> QED
        BY <1>1, <1>e, <3>1, <3>3, <3>4, <3>5, <3>6, <3>7 DEF Steady
    <2>2. CASE q # p
      BY <1>1, <1>e, <1>6, <2>2, SteadyFrame DEF Start, Restarted, Typed
    <2> QED
      BY <2>1, <2>2
  <1>7. ASSUME NEW p \in Pcm, PointerRuns(p) PROVE Steady(q)'
    <2>1. UNCHANGED <<state, driver, start, done, appl, rest, real, replaced>> /\ Moved(q)' = Moved(q)
      BY <1>7 DEF PointerRuns, Moved
    <2>2. CASE q # p
      BY <1>1, <1>e, <1>7, <2>1, <2>2, SteadyFrame DEF PointerRuns, Typed
    <2>3. CASE q = p
      <3>1. state[q] = "running" /\ hw'[q] = hw[q] + ((Odd(q) - hw[q]) % 2)
        BY <1>7, <2>3 DEF PointerRuns, Typed
      <3>2. CASE q \in replaced
        BY <1>1, <1>e, <2>1, <3>1, <3>2 DEF Steady
      <3>3. CASE q \notin replaced
        <4>1. (driver.done - start[q]) % Modulus = real[q] /\ hw[q] <= real[q]
          BY <1>1, <3>1, <3>3 DEF Steady
        <4>2. Odd(q) = real[q] % 2
          BY <4>1 DEF Odd
        <4>3. hw[q] <= hw'[q] /\ hw'[q] <= real[q] /\ hw'[q] \in Nat
          BY <1>1, <3>1, <4>1, <4>2
        <4> QED
          BY <1>1, <1>e, <2>1, <3>1, <3>3, <4>1, <4>3 DEF Steady
      <3> QED
        BY <3>2, <3>3
    <2> QED
      BY <2>2, <2>3
  <1>8. ASSUME NEW p \in Pcm, Write(p) \/ Read(p) PROVE Steady(q)'
    <2>1. UNCHANGED <<state, driver, start, hw, real, replaced>>
      BY <1>8 DEF Write, Read
    <2>2. CASE q # p
      BY <1>1, <1>e, <1>8, <2>1, <2>2, SteadyFrame DEF Write, Read, Transferred, Typed
    <2>3. CASE q = p
      <3>1. /\ appl'[q] \in Nat
            /\ q \in Playback => appl'[q] <= hw[q] + 2
            /\ "sizes" \notin env => appl'[q] = appl[q] + 1 /\ rest'[q] = rest[q]
            /\ q \notin Playback => appl'[q] = appl[q] + 1 /\ hw[q] - appl[q] > 0
        <4>1. CASE Write(p)
          <5>1. PICK size \in Sizes(q) :
                    /\ appl[q] + size.periods + Begun(size.frames) <= hw[q] + 2
                    /\ appl'[q] = appl[q] + size.periods /\ rest'[q] = size.frames
            BY <2>3, <4>1 DEF Write, Typed
          <5>2. size.periods \in 0..2 /\ Begun(size.frames) \in 0..1
                /\ ("sizes" \notin env => size.periods = 1 /\ size.frames = rest[q])
            BY DEF Sizes, Begun
          <5>3. q \in Playback
            BY <2>3, <4>1 DEF Write
          <5> QED
            BY <1>1, <5>1, <5>2, <5>3
        <4>2. CASE Read(p)
          BY <1>1, <2>3, <4>2 DEF Read, Typed
        <4> QED
          BY <1>8, <4>1, <4>2
      <3>r. "sizes" \notin env' => rest'[q] = 0
        BY <1>1, <1>e, <3>1 DEF Steady
      <3>2. CASE state[q] # "running"
        <4>1. q \in Playback
          BY <1>8, <2>3, <3>2 DEF Write, Read
        <4> QED
          BY <1>1, <2>1, <3>1, <3>r, <3>2, <4>1 DEF Steady
      <3>3. CASE state[q] = "running" /\ q \in replaced
        BY <2>1, <3>3, <3>r DEF Steady
      <3>4. CASE state[q] = "running" /\ q \notin replaced
        <4>1. done'[q] = (done[q] + 1) % Modulus
          BY <1>8, <2>3, <3>4 DEF Write, Read, Transferred, Running, Typed
        <4>2. Moved(q)' = IF Moved(q) + 1 = Modulus THEN 0 ELSE Moved(q) + 1
          <5>1. (((done[q] + 1) % Modulus) - start[q]) % Modulus =
                    (IF ((done[q] - start[q]) % Modulus) + 1 = Modulus THEN 0 ELSE ((done[q] - start[q]) % Modulus) + 1)
            BY ONLY <1>1, SizesAssumption, DiffNext, Zenon
          <5> QED
            BY <2>1, <4>1, <5>1, Zenon DEF Moved
        <4>3. (driver.done - start[q]) % Modulus = real[q] /\ hw[q] <= real[q] /\ real[q] < Modulus
          BY <1>1, <3>4, SizesAssumption DEF Steady
        <4>4. CASE q \in Playback
          <5>1. "sizes" \notin env => appl[q] = Moved(q) + 2
            BY <1>1, <3>4, <4>4 DEF Steady
          <5>2. "sizes" \notin env => appl'[q] = Moved(q)' + 2
            BY <1>1, <3>1, <4>2, <4>3, <4>4, <5>1
          <5> QED
            BY <1>1, <1>e, <2>1, <3>1, <3>r, <3>4, <4>3, <4>4, <5>2 DEF Steady
        <4>5. CASE q \notin Playback
          <5>1. appl[q] = Moved(q)
            BY <1>1, <3>4, <4>5 DEF Steady
          <5>2. Moved(q)' = appl'[q] /\ appl'[q] <= hw[q]
            BY <1>1, <3>1, <4>2, <4>3, <4>5, <5>1
          <5> QED
            BY <1>1, <2>1, <3>1, <3>r, <3>4, <4>3, <4>5, <5>2 DEF Steady
        <4> QED
          BY <4>4, <4>5
      <3> QED
        BY <3>2, <3>3, <3>4
    <2> QED
      BY <2>2, <2>3
  <1>9. CASE UNCHANGED vars
    BY <1>1, <1>9 DEF vars, Steady, Moved
  <1> QED
    BY <1>2, <1>3, <1>4, <1>5, <1>6, <1>7, <1>8, <1>9 DEF Next

-----------------------------------------------------------------------------
LEMMA StepInv == IInv /\ [Next]_vars => IInv'
  BY TypedInv, CountedInv, PreparingInv, MapInv, SteadyInv DEF IInv

\* The registry, the mappings and the counters fit together (get_uus, uus_free,
\* snd_pcm_us_prepare, snd_pcm_us_pointer): the invariant the other theorems rest on.
THEOREM CardInvariant == Spec => []IInv
  BY InitInv, StepInv, PTL DEF Spec

\* A PCM that snd_pcm_us_prepare has prepared, and that runs, has the memory of the driver's
\* present stream mapped, whichever PCM of the card reconfigured it, as long as prepares do
\* not overlap and no mmap fails.
THEOREM PreparedIsMapped == Spec => []MappedWhenUsed
  <1>1. IInv => MappedWhenUsed
    BY DEF IInv, MapSound, Calm, Settled, Whole, MappedWhenUsed
  <1> QED
    BY <1>1, InitInv, StepInv, PTL DEF Spec

\* snd_pcm_us_pointer makes of differences of counters that wrap what the driver has done:
\* alsa-lib counts every period, and an overrun is reported only when playback has run out
\* of data or capture out of room, for an application that commits period by period and
\* starts playback with both filled, on a stream that is stopped before the driver has done
\* 2^32 periods of it.
THEOREM PointerIsReal == Spec => PointerReal
  <1>1. ASSUME IInv, NEW p \in Pcm, p \notin replaced, "sizes" \notin env, state[p] = "running"
        PROVE  /\ Behind(p) = real[p] - Moved(p) /\ Moved(p) <= hw[p] /\ hw[p] <= real[p]
               /\ appl[p] = (IF p \in Playback THEN Moved(p) + 2 ELSE Moved(p)) /\ rest[p] = 0
               /\ Odd(p) = real[p] % 2 /\ hw[p] \in Nat /\ real[p] \in Nat /\ Moved(p) \in Nat
    <2>1. start[p] \in 0..Modulus - 1 /\ done[p] \in 0..Modulus - 1 /\ driver.done \in 0..Modulus - 1
          /\ appl[p] \in Nat /\ hw[p] \in Nat /\ real[p] \in Nat /\ Modulus \in Nat \ {0}
      BY <1>1, SizesAssumption DEF IInv, Typed, Driver
    <2>2. Moved(p) \in 0..Modulus - 1
      BY <2>1, ModDiff DEF Moved
    <2>3. (driver.done - start[p]) % Modulus = real[p] /\ hw[p] <= real[p] /\ p \notin replaced
          /\ IF p \in Playback THEN appl[p] <= hw[p] + 2 /\ appl[p] = Moved(p) + 2
             ELSE appl[p] <= hw[p] /\ appl[p] = Moved(p)
      BY <1>1 DEF IInv, Steady
    <2>4. Moved(p) <= hw[p]
      BY <2>1, <2>2, <2>3
    <2>5. Behind(p) = LET a == (driver.done - start[p]) % Modulus
                          b == (done[p] - start[p]) % Modulus
                      IN  IF a >= b THEN a - b ELSE a - b + Modulus
      BY <2>1, DiffBetween, Zenon DEF Behind
    <2>6. Behind(p) = IF real[p] >= Moved(p) THEN real[p] - Moved(p) ELSE real[p] - Moved(p) + Modulus
      BY <2>3, <2>5, Zenon DEF Moved
    <2>7. Behind(p) = real[p] - Moved(p)
      BY <2>1, <2>2, <2>3, <2>4, <2>6
    <2>8. Odd(p) = real[p] % 2
      BY <2>3 DEF Odd
    <2>9. rest[p] = 0
      BY <1>1 DEF IInv, Steady
    <2> QED
      BY <2>1, <2>2, <2>3, <2>4, <2>7, <2>8, <2>9
  <1>2. ASSUME IInv, NEW p \in Pcm, p \notin replaced, "sizes" \notin env, PointerRuns(p) PROVE hw'[p] = real[p]
    <2>1. ~(Behind(p) > 1) /\ hw'[p] = hw[p] + ((Odd(p) - hw[p]) % 2) /\ state[p] = "running"
      BY <1>2 DEF PointerRuns, Late, LatePeriods, IInv, Typed
    <2> QED
      BY <1>1, <1>2, <2>1
  <1>3. ASSUME IInv, NEW p \in Pcm, p \notin replaced, "sizes" \notin env, PointerXrun(p) PROVE XrunReal(p)
    <2>1. Behind(p) > 1 /\ state[p] = "running"
      BY <1>3 DEF PointerXrun, Late, LatePeriods
    <2> QED
      BY <1>1, <1>3, <2>1 DEF XrunReal, Begun
  <1>4. IInv => [\A p \in Pcm : p \notin replaced /\ "sizes" \notin env => AvailReal(p) /\ XrunReal(p)]_vars
    <2>1. ASSUME IInv, NEW p \in Pcm, p \notin replaced, "sizes" \notin env PROVE AvailReal(p) /\ XrunReal(p)
      <3>1. AvailReal(p)
        BY <1>2, <2>1 DEF AvailReal
      <3>2. XrunReal(p)
        BY <1>3, <2>1 DEF XrunReal
      <3> QED
        BY <3>1, <3>2
    <2> QED
      BY <2>1
  <1> QED
    BY <1>4, InitInv, StepInv, PTL DEF Spec, PointerReal

-----------------------------------------------------------------------------
(* The delay lines.  All of them keep the last frames in a ring: curpos is at the    *)
(* oldest.  For upmix and downmix it is what is read; for speex it is the block that *)
(* fills and, behind it, what is left of the last one.                               *)

\* The frame in place k of a stream that f frames went before, or silence.
Frame(f, k) == IF k > 0 THEN f + k ELSE 0

\* The ring l of S frames has, from c on, the last S of the q frames of this stream.
Rings(l, c, f, q, S) == \A i \in 0 .. S - 1 : l[i] = Frame(f, q - S + 1 + ((i - c) % S))

\* Positions of a ring that are at most once round away.
LEMMA Wrapped ==
    ASSUME NEW S \in Nat \ {0}, NEW a \in Int
    PROVE  /\ a \in 0 .. S - 1 => a % S = a
           /\ a \in S .. S + S - 1 => a % S = a - S
           /\ a \in -S .. -1 => a % S = a + S
           /\ a % S \in 0 .. S - 1
<1>1. ASSUME NEW m \in Int, NEW q \in Int, NEW r \in 0 .. S - 1, m = S * q + r PROVE m % S = r
  BY <1>1
<1>2. a \in 0 .. S - 1 => a % S = a
  <2>1. a = S * 0 + a
    OBVIOUS
  <2>2. QED
    BY <1>1, <2>1
<1>3. a \in S .. S + S - 1 => a % S = a - S
  <2>1. a = S * 1 + (a - S)
    OBVIOUS
  <2>2. a \in S .. S + S - 1 => a - S \in 0 .. S - 1
    OBVIOUS
  <2>3. QED
    BY <1>1, <2>1, <2>2
<1>4. a \in -S .. -1 => a % S = a + S
  <2>1. a = S * (-1) + (a + S)
    OBVIOUS
  <2>2. a \in -S .. -1 => a + S \in 0 .. S - 1
    OBVIOUS
  <2>3. QED
    BY <1>1, <2>1, <2>2
<1>5. QED
  BY <1>2, <1>3, <1>4

LEMMA WrappedSum ==
    ASSUME NEW S \in Nat \ {0}, NEW c \in 0 .. S - 1, NEW d \in 0 .. S
    PROVE  (c + d) % S = IF c + d < S THEN c + d ELSE (c + d) - S
<1> DEFINE x == c + d
<1>1. x \in Int /\ (x \in 0 .. S - 1 \/ x \in S .. S + S - 1) /\ (x \in 0 .. S - 1 <=> x < S)
  OBVIOUS
<1> HIDE DEF x
<1>2. /\ x \in 0 .. S - 1 => x % S = x
      /\ x \in S .. S + S - 1 => x % S = x - S
  BY <1>1, Wrapped, Zenon
<1>3. x % S = IF x < S THEN x ELSE x - S
  BY <1>1, <1>2, Zenon
<1>4. QED
  BY <1>3 DEF x

LEMMA WrappedDifference ==
    ASSUME NEW S \in Nat \ {0}, NEW c \in 0 .. S - 1, NEW i \in 0 .. S - 1
    PROVE  (i - c) % S = IF i >= c THEN i - c ELSE (i - c) + S
<1> DEFINE x == i - c
<1>1. x \in Int /\ (x \in 0 .. S - 1 \/ x \in -S .. -1) /\ (x \in 0 .. S - 1 <=> i >= c)
  OBVIOUS
<1> HIDE DEF x
<1>2. /\ x \in 0 .. S - 1 => x % S = x
      /\ x \in -S .. -1 => x % S = x + S
  BY <1>1, Wrapped, Zenon
<1>3. x % S = IF i >= c THEN x ELSE x + S
  BY <1>1, <1>2, Zenon
<1>4. QED
  BY <1>3 DEF x

\* How far place i is from the oldest frame, before and after d frames went in.
LEMMA Distance ==
    ASSUME NEW S \in Nat \ {0}, NEW c \in 0 .. S - 1, NEW i \in 0 .. S - 1, NEW d \in 0 .. S
    PROVE  /\ (c + d) % S \in 0 .. S - 1
           /\ (i - c) % S \in 0 .. S - 1
           /\ (i - ((c + d) % S)) % S = IF ((i - c) % S) < d THEN (((i - c) % S) - d) + S ELSE ((i - c) % S) - d
<1> DEFINE e == (c + d) % S
           p == (i - c) % S
<1>1. e = IF c + d < S THEN c + d ELSE (c + d) - S
  BY WrappedSum
<1>2. p = IF i >= c THEN i - c ELSE (i - c) + S
  BY WrappedDifference
<1> HIDE DEF e, p
<1>4. e \in 0 .. S - 1 /\ p \in 0 .. S - 1
  BY <1>1, <1>2
<1>5. (i - e) % S = IF i >= e THEN i - e ELSE (i - e) + S
  BY <1>4, WrappedDifference
<1>6. (IF i >= e THEN i - e ELSE (i - e) + S) = IF p < d THEN (p - d) + S ELSE p - d
  BY <1>1, <1>2, <1>4
<1>7. QED
  BY <1>4, <1>5, <1>6 DEF e, p

\* The place k frames after the oldest is that far from it.
LEMMA PlaceOf ==
    ASSUME NEW S \in Nat \ {0}, NEW c \in 0 .. S - 1, NEW k \in 0 .. S - 1
    PROVE  (c + k) % S \in 0 .. S - 1 /\ (((c + k) % S) - c) % S = k
<1> DEFINE e == (c + k) % S
<1>0. k \in 0 .. S
  OBVIOUS
<1>1. e = IF c + k < S THEN c + k ELSE (c + k) - S
  BY <1>0, WrappedSum
<1> HIDE DEF e
<1>2. e \in 0 .. S - 1
  BY <1>1
<1>3. (e - c) % S = IF e >= c THEN e - c ELSE (e - c) + S
  BY <1>2, WrappedDifference
<1>4. (IF e >= c THEN e - c ELSE (e - c) + S) = k
  BY <1>1
<1>5. QED
  BY <1>2, <1>3, <1>4 DEF e

\* n frames go in, and the last d of them, as many as there are or as the ring takes,
\* over the oldest ones.
LEMMA RingAdvances ==
    ASSUME NEW S \in Nat \ {0}, NEW c \in 0 .. S - 1, NEW f \in Nat, NEW q \in Nat,
           NEW n \in Nat, NEW d \in 0 .. S, d = n \/ (d = S /\ S <= n),
           NEW l, NEW m, Rings(l, c, f, q, S),
           \A i \in 0 .. S - 1 : m[i] = IF (i - c) % S < d THEN f + q + (n - d + ((i - c) % S) + 1) ELSE l[i]
    PROVE  Rings(m, (c + d) % S, f, q + n, S)
<1> SUFFICES ASSUME NEW i \in 0 .. S - 1
             PROVE  m[i] = Frame(f, (q + n) - S + 1 + ((i - ((c + d) % S)) % S))
  BY DEF Rings
<1> DEFINE p == (i - c) % S
           r == (i - ((c + d) % S)) % S
<1>1. p \in 0 .. S - 1 /\ r = IF p < d THEN (p - d) + S ELSE p - d
  <2>1. /\ (i - c) % S \in 0 .. S - 1
        /\ (i - ((c + d) % S)) % S = IF ((i - c) % S) < d THEN (((i - c) % S) - d) + S ELSE ((i - c) % S) - d
    BY ONLY S \in Nat \ {0}, c \in 0 .. S - 1, i \in 0 .. S - 1, d \in 0 .. S, Distance, ZenonT(60)
  <2>2. QED
    BY <2>1
<1>2. m[i] = IF p < d THEN f + q + (n - d + p + 1) ELSE Frame(f, q - S + 1 + p)
  BY DEF Rings
<1> HIDE DEF p, r
<1>3. p < d => (q + n) - S + 1 + r = q + (n - d + p + 1) /\ q + (n - d + p + 1) > 0
  BY <1>1
<1>4. ~(p < d) => (q + n) - S + 1 + r = q - S + 1 + p
  BY <1>1
<1>5. p < d => m[i] = Frame(f, (q + n) - S + 1 + r)
  <2>1. SUFFICES ASSUME p < d PROVE m[i] = Frame(f, (q + n) - S + 1 + r)
    OBVIOUS
  <2>2. Frame(f, q + (n - d + p + 1)) = f + (q + (n - d + p + 1))
    BY <1>3, <2>1 DEF Frame
  <2>3. f + (q + (n - d + p + 1)) = f + q + (n - d + p + 1)
    BY <1>1
  <2>4. QED
    BY <1>2, <1>3, <2>1, <2>2, <2>3
<1>6. QED
  BY <1>2, <1>4, <1>5 DEF r

-----------------------------------------------------------------------------
\* The routes of upmix: with two or three channels of input the rear channels are
\* delayed, and no others ever are.
Delays(r, cs) == \A c \in DOMAIN r : r[c].from = "delayed" <=> c \in cs

LEMMA DelaysBoth ==
    ASSUME NEW f, NEW g, NEW F, NEW G, Delays(f, F), Delays(g, G), F \subseteq DOMAIN f, G \subseteq DOMAIN g,
           (DOMAIN f) \cap G = {}
    PROVE  Delays(Both(f, g), F \cup G) /\ DOMAIN Both(f, g) = DOMAIN f \cup DOMAIN g
<1>1. /\ DOMAIN Both(f, g) = DOMAIN f \cup DOMAIN g
      /\ \A c \in DOMAIN f \cup DOMAIN g : Both(f, g)[c] = IF c \in DOMAIN f THEN f[c] ELSE g[c]
  BY DEF Both
<1>2. ASSUME NEW c \in DOMAIN f \cup DOMAIN g
      PROVE  Both(f, g)[c].from = "delayed" <=> c \in F \cup G
  <2>1. CASE c \in DOMAIN f
    BY <1>1, <2>1 DEF Delays
  <2>2. CASE c \notin DOMAIN f
    BY <1>1, <2>2 DEF Delays
  <2>3. QED
    BY <2>1, <2>2
<1>3. QED
  BY <1>1, <1>2 DEF Delays

LEMMA DelaysOf ==
    /\ \A n \in Nat : Delays(Copies(n), {}) /\ DOMAIN Copies(n) = 0 .. n - 1
    /\ \A n \in Nat : Delays(FrontAgain(n), {}) /\ DOMAIN FrontAgain(n) = n .. n + 1
    /\ Delays(Delayed, {2, 3}) /\ DOMAIN Delayed = 2 .. 3
    /\ Delays(Averages, {}) /\ DOMAIN Averages = 4 .. 5
    /\ \A n \in Nat : Delays(upmix_1_to(n), {})
    /\ Delays([c \in {5} |-> Copied(4)], {}) /\ DOMAIN [c \in {5} |-> Copied(4)] = {5}
<1>1. /\ \A n \in Nat : Delays(Copies(n), {}) /\ DOMAIN Copies(n) = 0 .. n - 1
      /\ \A n \in Nat : Delays(upmix_1_to(n), {})
  BY DEF Delays, Copies, upmix_1_to, Copied
<1>2. \A n \in Nat : Delays(FrontAgain(n), {}) /\ DOMAIN FrontAgain(n) = n .. n + 1
  BY DEF Delays, FrontAgain, Copied
<1>3. Delays(Delayed, {2, 3}) /\ DOMAIN Delayed = 2 .. 3
  BY DEF Delays, Delayed, DelayedCopy
<1>4. Delays(Averages, {}) /\ DOMAIN Averages = 4 .. 5
  BY DEF Delays, Averages, Average
<1>5. Delays([c \in {5} |-> Copied(4)], {}) /\ DOMAIN [c \in {5} |-> Copied(4)] = {5}
  BY DEF Delays, Copied
<1>6. QED
  BY <1>1, <1>2, <1>3, <1>4, <1>5

LEMMA DelaysOfRows ==
    /\ Delays(upmix_2_to_40, {2, 3}) /\ Delays(upmix_2_to_51, {2, 3}) /\ Delays(upmix_2_to_71, {2, 3})
    /\ Delays(upmix_3_to_40, {2, 3}) /\ Delays(upmix_3_to_51, {2, 3})
    /\ Delays(upmix_4_to_40, {}) /\ Delays(upmix_4_to_51, {}) /\ Delays(upmix_5_to_51, {})
    /\ Delays(upmix_6_to_51, {}) /\ Delays(upmix_8_to_71, {})
<1>1. 2 \in Nat /\ 4 \in Nat /\ 5 \in Nat /\ 6 \in Nat /\ 8 \in Nat
  OBVIOUS
<1>2. /\ Delays(Copies(2), {}) /\ Delays(Copies(4), {}) /\ Delays(Copies(5), {})
      /\ Delays(Copies(6), {}) /\ Delays(Copies(8), {})
      /\ Delays(FrontAgain(6), {}) /\ Delays(FrontAgain(4), {})
  BY <1>1, DelaysOf, Zenon
<1>3. DOMAIN Copies(2) = 0 .. 1
  <2>1. DOMAIN Copies(2) = 0 .. 2 - 1
    BY <1>1, DelaysOf, Zenon
  <2>2. QED
    BY <2>1
<1>4. Delays(upmix_2_to_40, {2, 3}) /\ {2, 3} \subseteq DOMAIN upmix_2_to_40
  <2>1. /\ {} \subseteq DOMAIN Copies(2) /\ {2, 3} \subseteq DOMAIN Delayed
        /\ DOMAIN Copies(2) \cap {2, 3} = {}
    <3>1. DOMAIN Delayed = 2 .. 3
      BY DelaysOf
    <3>2. QED
      BY <1>3, <3>1
  <2>2. /\ Delays(Both(Copies(2), Delayed), {} \cup {2, 3})
        /\ DOMAIN Both(Copies(2), Delayed) = DOMAIN Copies(2) \cup DOMAIN Delayed
    <3>1. Delays(Delayed, {2, 3})
      BY DelaysOf
    <3>2. QED
      BY ONLY <1>2, <2>1, <3>1, DelaysBoth, Zenon
  <2>3. {} \cup {2, 3} = {2, 3}
    OBVIOUS
  <2>4. QED
    BY <2>1, <2>2, <2>3 DEF upmix_2_to_40
\* A row that adds channels without delay to another.
<1>5. ASSUME NEW f, NEW g, Delays(f, {2, 3}), {2, 3} \subseteq DOMAIN f, Delays(g, {})
      PROVE  Delays(Both(f, g), {2, 3}) /\ {2, 3} \subseteq DOMAIN Both(f, g)
  <2>1. {} \subseteq DOMAIN g /\ (DOMAIN f) \cap {} = {} /\ {2, 3} \cup {} = {2, 3}
    OBVIOUS
  <2>2. Delays(Both(f, g), {2, 3} \cup {}) /\ DOMAIN Both(f, g) = DOMAIN f \cup DOMAIN g
    BY ONLY <1>5, <2>1, DelaysBoth, Zenon
  <2>3. QED
    BY <1>5, <2>1, <2>2
<1>6. ASSUME NEW f, NEW g, Delays(f, {}), Delays(g, {}) PROVE Delays(Both(f, g), {})
  <2>1. {} \subseteq DOMAIN f /\ {} \subseteq DOMAIN g /\ (DOMAIN f) \cap {} = {} /\ {} \cup {} = {}
    OBVIOUS
  <2>2. Delays(Both(f, g), {} \cup {})
    BY ONLY <1>6, <2>1, DelaysBoth, Zenon
  <2>3. QED
    BY <2>1, <2>2
<1>7. Delays(upmix_2_to_51, {2, 3}) /\ {2, 3} \subseteq DOMAIN upmix_2_to_51
  BY <1>4, <1>5, DelaysOf DEF upmix_2_to_51
<1>8. Delays(upmix_2_to_71, {2, 3})
  BY <1>2, <1>5, <1>7 DEF upmix_2_to_71
<1>9. Delays(upmix_3_to_40, {2, 3}) /\ {2, 3} \subseteq DOMAIN upmix_3_to_40
  BY <1>4 DEF upmix_3_to_40, upmix_2_to_40
<1>10. Delays(upmix_3_to_51, {2, 3})
  BY <1>2, <1>5, <1>9 DEF upmix_3_to_51
<1>11. Delays(upmix_4_to_51, {}) /\ Delays(upmix_5_to_51, {})
  <2>1. Delays([c \in {5} |-> Copied(4)], {})
    BY DelaysOf
  <2>2. QED
    BY <1>2, <1>6, <2>1 DEF upmix_4_to_51, upmix_5_to_51
<1>12. QED
  BY <1>2, <1>4, <1>7, <1>8, <1>9, <1>10, <1>11 DEF upmix_4_to_40, upmix_6_to_51, upmix_8_to_71

LEMMA Routes ==
    ASSUME NEW n \in 1 .. 8, NEW s \in {4, 6, 8}
    PROVE  Delays(RouteOf(n, s), IF n \in {2, 3} THEN {2, 3} ELSE {})
<1> DEFINE col == IF s = 6 THEN 2 ELSE IF s = 8 THEN 3 ELSE 1
<1>1. RouteOf(n, s) = do_upmix[n][col] /\ col \in 1 .. 3
  BY DEF RouteOf
<1> HIDE DEF col
<1>2. \A i \in 1 .. 3 : Delays(do_upmix[1][i], {})
  <2>1. Delays(upmix_1_to(4), {}) /\ Delays(upmix_1_to(6), {}) /\ Delays(upmix_1_to(8), {})
    BY DelaysOf
  <2>2. do_upmix[1] = <<upmix_1_to(4), upmix_1_to(6), upmix_1_to(8)>>
    BY DEF do_upmix
  <2>3. QED
    BY <2>1, <2>2
<1>3. \A i \in 1 .. 3 : Delays(do_upmix[2][i], {2, 3})
  BY DelaysOfRows DEF do_upmix
<1>4. \A i \in 1 .. 3 : Delays(do_upmix[3][i], {2, 3})
  BY DelaysOfRows DEF do_upmix
<1>5. \A m \in 4 .. 8 : \A i \in 1 .. 3 : Delays(do_upmix[m][i], {})
  BY DelaysOfRows DEF do_upmix
<1>6. n = 1 \/ n = 2 \/ n = 3 \/ n \in 4 .. 8
  OBVIOUS
<1>7. QED
  BY <1>1, <1>2, <1>3, <1>4, <1>5, <1>6

-----------------------------------------------------------------------------
\* The plugin is one of those there are, its channel has a route, and the counts
\* are counts.
LineTyped == /\ plugin \in Plugins /\ first \in Nat /\ left \in Nat /\ out \in Seq(Int)
             /\ plugin.kind = "upmix" => plugin.channel \in DOMAIN Route

\* The plugins that work on the ring.
Ringed == \/ plugin.kind = "downmix"
          \/ plugin.kind = "speex" /\ plugin.dsp # "none"
          \/ plugin.kind = "upmix" /\ Size > 0 /\ \E c \in DOMAIN Route : Route[c].from = "delayed"

RingInv == Ringed => /\ curpos \in 0 .. Size - 1 /\ line \in [0 .. Size - 1 -> Int]
                     /\ Rings(line, curpos, first, Len(out), Size)

\* speex: until a block is processed its first is filling, and outbuf has the block
\* before the one that fills.
SpeexInv == plugin.kind = "speex" /\ plugin.dsp # "none" =>
              /\ ~processed => Len(out) = curpos
              /\ plugin.dsp = "echo" => \A i \in 0 .. Size - 1 : outbuf[i] = Frame(first, Len(out) - curpos - Size + i + 1)

LineInv == LineTyped /\ RingInv /\ SpeexInv

LEMMA PluginFields ==
    ASSUME plugin \in Plugins
    PROVE  /\ plugin.kind \in {"upmix", "downmix", "speex"}
           /\ plugin.kind = "upmix" => /\ Size \in Nat /\ plugin.channels \in 1 .. 8
                                       /\ plugin.slave \in {4, 6, 8}
           /\ plugin.kind = "downmix" => Size \in Nat \ {0} /\ plugin.tap \in 0 .. Size - 1
           /\ plugin.kind = "speex" => Size \in Nat \ {0} /\ plugin.dsp \in {"none", "preprocess", "echo"}
<1>1. \/ plugin \in Upmix
      \/ plugin \in Downmix /\ plugin.tap < plugin.size
      \/ plugin \in Speex
  BY DelayPlugins
<1>2. CASE plugin \in Upmix
  BY <1>2 DEF Upmix, Size
<1>3. CASE plugin \in Downmix /\ plugin.tap < plugin.size
  BY <1>3 DEF Downmix, Size
<1>4. CASE plugin \in Speex
  BY <1>4 DEF Speex, Size
<1>5. QED
  BY <1>1, <1>2, <1>3, <1>4

\* The delay of each plugin.
LEMMA DelayIs ==
    ASSUME plugin \in Plugins
    PROVE  /\ Delay \in Nat
           /\ plugin.kind = "upmix" =>
                Delay = IF plugin.channels \in {2, 3} /\ plugin.channel \in {2, 3} THEN Size ELSE 0
           /\ plugin.kind = "downmix" => Delay = plugin.tap
           /\ plugin.kind = "speex" => Delay = IF plugin.dsp = "none" THEN 0 ELSE Size
           /\ Ringed => Size \in Nat \ {0}
<1>1. CASE plugin.kind = "upmix"
  BY <1>1, PluginFields DEF Delay, Ringed
<1>2. CASE plugin.kind = "downmix"
  BY <1>2, PluginFields DEF Delay, Ringed
<1>3. CASE plugin.kind = "speex"
  BY <1>3, PluginFields DEF Delay, Ringed
<1>4. QED
  BY <1>1, <1>2, <1>3, PluginFields

\* A channel of upmix is delayed if its route says so.
LEMMA ChannelDelays ==
    ASSUME plugin \in Plugins, plugin.kind = "upmix", plugin.channel \in DOMAIN Route
    PROVE  Route[plugin.channel].from = "delayed"
           <=> plugin.channels \in {2, 3} /\ plugin.channel \in {2, 3}
<1>1. Delays(Route, IF plugin.channels \in {2, 3} THEN {2, 3} ELSE {})
  BY PluginFields, Routes DEF Route
<1>2. QED
  BY <1>1 DEF Delays

\* In a ring that begins at 0.
LEMMA FromZero ==
    ASSUME NEW S \in Nat \ {0}
    PROVE  \A i \in 0 .. S - 1 : (i - 0) % S = i
BY WrappedDifference

\* A new or an empty ring holds silence.
LEMMA ZeroesRing ==
    ASSUME NEW S \in Nat \ {0}, NEW f, NEW l, \A i \in 0 .. S - 1 : l[i] = 0
    PROVE  Rings(l, 0, f, 0, S)
<1> SUFFICES ASSUME NEW i \in 0 .. S - 1 PROVE l[i] = Frame(f, 0 - S + 1 + ((i - 0) % S))
  BY DEF Rings
<1>1. (i - 0) % S = i
  BY FromZero
<1>2. ~(0 - S + 1 + i > 0)
  OBVIOUS
<1>3. QED
  BY <1>1, <1>2 DEF Frame

LEMMA FreshInv ==
    ASSUME plugin \in Plugins, line = Zeroes, curpos = 0, processed = FALSE, outbuf = Zeroes, out = <<>>
    PROVE  RingInv /\ SpeexInv
<1>1. Len(out) = 0
  OBVIOUS
<1>2. ASSUME Ringed PROVE /\ curpos \in 0 .. Size - 1 /\ line \in [0 .. Size - 1 -> Int]
                          /\ Rings(line, curpos, first, Len(out), Size)
  <2>1. Size \in Nat \ {0}
    BY <1>2, DelayIs
  <2>2. line \in [0 .. Size - 1 -> Int] /\ \A i \in 0 .. Size - 1 : line[i] = 0
    BY DEF Zeroes
  <2>3. Rings(line, 0, first, 0, Size)
    BY <2>1, <2>2, ZeroesRing
  <2>4. QED
    BY <1>1, <2>1, <2>2, <2>3
<1>3. ASSUME plugin.kind = "speex", plugin.dsp # "none", NEW i \in 0 .. Size - 1
      PROVE  outbuf[i] = Frame(first, Len(out) - curpos - Size + i + 1)
  <2>1. Size \in Nat \ {0} /\ ~(0 - 0 - Size + i + 1 > 0)
    BY <1>3, PluginFields
  <2>2. QED
    BY <1>1, <2>1 DEF Zeroes, Frame
<1>4. QED
  BY <1>1, <1>2, <1>3 DEF RingInv, SpeexInv

LEMMA InitLineInv ==
    ASSUME LineInit, plugin.kind = "upmix" => plugin.channel \in DOMAIN Route
    PROVE  LineInv
<1>1. LineTyped
  BY EmptySeq DEF LineInit, LineTyped
<1>2. RingInv /\ SpeexInv
  BY FreshInv DEF LineInit
<1>3. QED
  BY <1>1, <1>2 DEF LineInv

\* Frames that come out as late as they should are a transfer of the abstract line.
LEMMA OutStep ==
    ASSUME LineTyped, NEW new \in Seq(Int), out' = out \o new, plugin' = plugin, first' = first,
           \A i \in 1 .. Len(new) : new[i] = Frame(first, Len(out) + i - Delay)
    PROVE  /\ Line!Transfer
           /\ out' \in Seq(Int) /\ Len(out') = Len(out) + Len(new)
<1>1. /\ out' \in Seq(Int) /\ Len(out') = Len(out) + Len(new)
      /\ \A i \in 1 .. Len(out') : out'[i] = IF i <= Len(out) THEN out[i] ELSE new[i - Len(out)]
  BY ConcatProperties DEF LineTyped
<1>2. Delay' = Delay /\ Delay \in Nat
  BY DelayIs DEF LineTyped, Delay, Size
<1>3. Len(out) \in Nat /\ Len(new) \in Nat
  BY DEF LineTyped
<1>4. ASSUME NEW i \in 1 .. Len(out')
      PROVE  out'[i] = IF i <= Len(out) THEN out[i] ELSE Line!Delayed(i)
  <2>1. CASE i <= Len(out)
    BY <1>1, <2>1
  <2>2. CASE ~(i <= Len(out))
    <3>1. i - Len(out) \in 1 .. Len(new) /\ Len(out) + (i - Len(out)) - Delay = i - Delay
      BY <1>1, <1>2, <1>3, <2>2
    <3>2. out'[i] = Frame(first, i - Delay)
      BY <1>1, <2>2, <3>1
    <3>3. i - Delay > 0 <=> i > Delay
      BY <1>2
    <3>4. first + (i - Delay) = first + i - Delay
      BY <1>2 DEF LineTyped
    <3>5. QED
      BY <2>2, <3>2, <3>3, <3>4 DEF Frame, Line!Delayed
  <2>3. QED
    BY <2>1, <2>2
<1>5. out' = [i \in 1 .. Len(out') |-> IF i <= Len(out) THEN out[i] ELSE Line!Delayed(i)]
  <2>1. out' \in [1 .. Len(out') -> Int]
    BY <1>1, LenProperties
  <2>2. out' = [i \in 1 .. Len(out') |-> out'[i]]
    BY <2>1
  <2>3. QED
    BY <1>4, <2>2
<1>6. QED
  BY <1>1, <1>2, <1>3, <1>5 DEF Line!Transfer

\* The stream is prepared anew.
LEMMA InitStreamStep ==
    ASSUME LineInv, InitStream
    PROVE  LineInv' /\ Line!Reset
<1>1. /\ line' = Zeroes /\ curpos' = 0 /\ processed' = FALSE /\ outbuf' = Zeroes
      /\ first' = first + Len(out) /\ out' = <<>> /\ plugin' = plugin /\ left' = left
  BY DEF InitStream
<1>2. /\ Len(out) \in Nat /\ first \in Nat /\ plugin \in Plugins
  BY DEF LineInv, LineTyped
<1>3. LineTyped'
  BY <1>1, <1>2, EmptySeq DEF LineInv, LineTyped, Route
<1>4. Size' = Size /\ (Ringed' <=> Ringed) /\ Delay' = Delay
  BY <1>1 DEF Size, Ringed, Route, Delay
<1>5. Len(out') = 0
  BY <1>1
<1>6. ASSUME Ringed PROVE /\ curpos' \in 0 .. Size - 1 /\ line' \in [0 .. Size - 1 -> Int]
                          /\ Rings(line', curpos', first', Len(out'), Size)
  <2>1. Size \in Nat \ {0}
    BY <1>2, <1>6, DelayIs
  <2>2. line' \in [0 .. Size - 1 -> Int] /\ \A i \in 0 .. Size - 1 : line'[i] = 0
    BY <1>1 DEF Zeroes
  <2>3. Rings(line', 0, first', 0, Size)
    BY <2>1, <2>2, ZeroesRing
  <2>4. QED
    BY <1>1, <1>5, <2>1, <2>2, <2>3
<1>7. ASSUME plugin.kind = "speex", NEW i \in 0 .. Size - 1
      PROVE  outbuf'[i] = Frame(first', Len(out') - curpos' - Size + i + 1)
  <2>1. Size \in Nat \ {0} /\ ~(0 - 0 - Size + i + 1 > 0)
    BY <1>2, <1>7, PluginFields
  <2>2. QED
    BY <1>1, <1>5, <2>1 DEF Zeroes, Frame
<1>8. RingInv' /\ SpeexInv'
  BY <1>1, <1>4, <1>5, <1>6, <1>7 DEF RingInv, SpeexInv
<1>9. QED
  BY <1>1, <1>3, <1>4, <1>8 DEF LineInv, Line!Reset

\* What a frame of the input is, and that it is one.
LEMMA InputsAre ==
    ASSUME LineTyped, NEW n \in Nat
    PROVE  /\ Inputs(n) \in Seq(Int) /\ Len(Inputs(n)) = n
           /\ \A i \in 1 .. n : Inputs(n)[i] = Frame(first, Len(out) + i)
<1>1. first \in Nat /\ Len(out) \in Nat
  BY DEF LineTyped
<1>2. \A i \in 1 .. n : In(i) = first + (Len(out) + i) /\ Len(out) + i > 0 /\ In(i) \in Int
  BY <1>1 DEF In
<1>3. Inputs(n) \in Seq(Int) /\ Len(Inputs(n)) = n
  BY <1>2, IsASeq DEF Inputs
<1>4. QED
  BY <1>2, <1>3 DEF Inputs, Frame

\* delayed_copy: what comes out of the line and of the input.
LEMMA OutOfLineIs ==
    ASSUME LineInv, Ringed, NEW n \in Nat \ {0}
    PROVE  /\ OutOfLine(n) \in Seq(Int) /\ Len(OutOfLine(n)) = n
           /\ \A i \in 1 .. n : OutOfLine(n)[i] = Frame(first, Len(out) + i - Size)
<1> DEFINE d == Lesser(Size, n)
<1>1. /\ Size \in Nat \ {0} /\ first \in Nat /\ Len(out) \in Nat
      /\ curpos \in 0 .. Size - 1 /\ line \in [0 .. Size - 1 -> Int]
      /\ Rings(line, curpos, first, Len(out), Size)
  BY DelayIs DEF LineInv, LineTyped, RingInv
<1>2. d \in 1 .. Size /\ d <= n /\ (d = n \/ d = Size)
  BY <1>1 DEF Lesser
<1> DEFINE o == [i \in 1 .. n |-> IF i <= d THEN line[(curpos + i - 1) % Size] ELSE In(i - d)]
<1>3. OutOfLine(n) = o
  BY DEF OutOfLine
<1> HIDE DEF d
<1>4. ASSUME NEW i \in 1 .. n
      PROVE  /\ (IF i <= d THEN line[(curpos + i - 1) % Size] ELSE In(i - d)) \in Int
             /\ (IF i <= d THEN line[(curpos + i - 1) % Size] ELSE In(i - d)) = Frame(first, Len(out) + i - Size)
  <2>1. CASE i <= d
    <3> DEFINE e == (curpos + (i - 1)) % Size
    <3>1. i - 1 \in 0 .. Size - 1 /\ curpos + (i - 1) = curpos + i - 1
      BY <1>1, <1>2, <2>1
    <3>2. e \in 0 .. Size - 1 /\ (e - curpos) % Size = i - 1
      BY <1>1, <3>1, PlaceOf
    <3>3. line[e] = Frame(first, Len(out) - Size + 1 + ((e - curpos) % Size)) /\ line[e] \in Int
      BY <1>1, <3>2 DEF Rings
    <3> HIDE DEF e
    <3>4. Len(out) - Size + 1 + (i - 1) = Len(out) + i - Size
      BY <1>1
    <3>5. line[e] = Frame(first, Len(out) + i - Size)
      BY <3>2, <3>3, <3>4
    <3>6. QED
      BY <2>1, <3>1, <3>3, <3>5 DEF e
  <2>2. CASE ~(i <= d)
    <3>1. d = Size
      BY <1>2, <2>2
    <3>2. In(i - d) = first + (Len(out) + i - Size) /\ Len(out) + i - Size > 0 /\ In(i - d) \in Int
      BY <1>1, <2>2, <3>1 DEF In
    <3>3. QED
      BY <2>2, <3>2 DEF Frame
  <2>3. QED
    BY <2>1, <2>2
<1>5. o \in Seq(Int) /\ Len(o) = n
  BY <1>4, IsASeq
<1>6. \A i \in 1 .. n : o[i] = Frame(first, Len(out) + i - Size)
  BY <1>4
<1>7. QED
  BY <1>3, <1>5, <1>6

\* delayed_copy: what goes into the line.
LEMMA IntoLineIs ==
    ASSUME LineInv, Ringed, NEW n \in Nat \ {0}
    PROVE  /\ IntoLine(n) \in [0 .. Size - 1 -> Int]
           /\ (curpos + Lesser(Size, n)) % Size \in 0 .. Size - 1
           /\ Rings(IntoLine(n), (curpos + Lesser(Size, n)) % Size, first, Len(out) + n, Size)
<1> DEFINE d == Lesser(Size, n)
           m == IntoLine(n)
<1>1. /\ Size \in Nat \ {0} /\ first \in Nat /\ Len(out) \in Nat
      /\ curpos \in 0 .. Size - 1 /\ line \in [0 .. Size - 1 -> Int]
      /\ Rings(line, curpos, first, Len(out), Size)
  BY DelayIs DEF LineInv, LineTyped, RingInv
<1>2. d \in 1 .. Size /\ d <= n /\ (d = n \/ (d = Size /\ Size <= n))
  BY <1>1 DEF Lesser
<1>3. ASSUME NEW i \in 0 .. Size - 1
      PROVE  /\ m[i] = IF (i - curpos) % Size < d
                       THEN first + Len(out) + (n - d + ((i - curpos) % Size) + 1) ELSE line[i]
             /\ m[i] \in Int
  <2> DEFINE p == (i - curpos) % Size
  <2>1. p \in 0 .. Size - 1
    BY <1>1, <1>2, Distance
  <2>2. m[i] = IF p < d THEN LastFrames(n, p) ELSE line[i]
    BY DEF IntoLine
  <2>3. LastFrames(n, p) = first + Len(out) + (n - d + p + 1)
    BY DEF LastFrames, In
  <2> HIDE DEF p, d, m
  <2>4. first + Len(out) + (n - d + p + 1) \in Int
    BY <1>1, <1>2, <2>1
  <2>5. QED
    BY <1>1, <2>2, <2>3, <2>4 DEF p
<1>4. m \in [0 .. Size - 1 -> Int]
  <2>1. m = [i \in 0 .. Size - 1 |-> m[i]]
    BY DEF IntoLine
  <2>2. QED
    BY <1>3, <2>1
<1> HIDE DEF d, m
<1>5. Rings(m, (curpos + d) % Size, first, Len(out) + n, Size)
  <2>1. d \in 0 .. Size /\ n \in Nat
    BY <1>1, <1>2
  <2>2. QED
    BY <1>1, <1>2, <1>3, <2>1, RingAdvances
<1>6. (curpos + d) % Size \in 0 .. Size - 1
  <2>1. d \in 0 .. Size
    BY <1>1, <1>2
  <2>2. QED
    BY <1>1, <2>1, Distance
<1>7. QED
  BY <1>4, <1>5, <1>6 DEF d, m

\* Frames that went in and came out keep the counts and the ring.
LEMMA FramesKept ==
    ASSUME LineInv, plugin' = plugin, first' = first, left' \in Nat, out' \in Seq(Int), NEW n \in Nat,
           Len(out') = Len(out) + n,
           Ringed => /\ curpos' \in 0 .. Size - 1 /\ line' \in [0 .. Size - 1 -> Int]
                     /\ Rings(line', curpos', first, Len(out) + n, Size)
    PROVE  LineTyped' /\ RingInv' /\ Size' = Size /\ Delay' = Delay
<1>1. Size' = Size /\ (Ringed' <=> Ringed) /\ Delay' = Delay
  BY DEF Size, Ringed, Route, Delay
<1>2. LineTyped'
  BY DEF LineInv, LineTyped, Route
<1>3. RingInv'
  BY <1>1 DEF RingInv
<1>4. QED
  BY <1>1, <1>2, <1>3

\* upmix_transfer.
LEMMA UpmixStep ==
    ASSUME LineInv, UpmixTransfer
    PROVE  LineInv' /\ Line!Transfer
<1> DEFINE delays == Size > 0 /\ \E c \in DOMAIN Route : Route[c].from = "delayed"
           routed == Size > 0 /\ Route[plugin.channel].from = "delayed"
<1>1. /\ plugin.kind = "upmix" /\ plugin \in Plugins /\ plugin.channel \in DOMAIN Route
      /\ first \in Nat /\ Len(out) \in Nat /\ left \in Nat /\ MaxFrames \in Nat
      /\ Size \in Nat
  BY DelayBounds, PluginFields DEF LineInv, LineTyped, UpmixTransfer
<1>2. PICK n \in 1 .. MaxFrames - first - Len(out) :
        /\ out' = out \o (IF plugin.channel \notin DOMAIN Route THEN [i \in 1 .. n |-> -1]
                          ELSE IF routed THEN OutOfLine(n) ELSE Inputs(n))
        /\ line' = IF delays THEN IntoLine(n) ELSE line
        /\ curpos' = IF delays THEN (curpos + Lesser(Size, n)) % Size ELSE curpos
  BY Zenon DEF UpmixTransfer
<1>3. plugin' = plugin /\ left' = left /\ first' = first /\ processed' = processed /\ outbuf' = outbuf
  BY DEF UpmixTransfer
<1>4. n \in Nat \ {0} /\ n \in Nat
  BY <1>1, <1>2
<1>5. Ringed <=> delays
  BY <1>1 DEF Ringed
<1>6. routed => delays
  BY <1>1
<1> DEFINE new == IF routed THEN OutOfLine(n) ELSE Inputs(n)
<1>7. out' = out \o new
  BY <1>1, <1>2
<1>8. new \in Seq(Int) /\ Len(new) = n /\ \A i \in 1 .. n : new[i] = Frame(first, Len(out) + i - Delay)
  <2>1. CASE routed
    <3>1. Ringed /\ Delay = Size
      BY <1>1, <1>5, <1>6, <2>1, ChannelDelays, DelayIs
    <3>2. /\ OutOfLine(n) \in Seq(Int) /\ Len(OutOfLine(n)) = n
          /\ \A i \in 1 .. n : OutOfLine(n)[i] = Frame(first, Len(out) + i - Size)
      BY <1>4, <3>1, OutOfLineIs
    <3>3. QED
      BY <2>1, <3>1, <3>2
  <2>2. CASE ~routed
    <3>1. Delay = 0
      BY <1>1, <2>2, ChannelDelays, DelayIs
    <3>2. /\ Inputs(n) \in Seq(Int) /\ Len(Inputs(n)) = n
          /\ \A i \in 1 .. n : Inputs(n)[i] = Frame(first, Len(out) + i)
      BY <1>4, InputsAre DEF LineInv
    <3>3. \A i \in 1 .. n : Len(out) + i - 0 = Len(out) + i
      BY <1>1
    <3>4. QED
      BY <2>2, <3>1, <3>2, <3>3
  <2>3. QED
    BY <2>1, <2>2
<1> HIDE DEF new
<1>9. Line!Transfer /\ out' \in Seq(Int) /\ Len(out') = Len(out) + n
  BY <1>3, <1>7, <1>8, OutStep DEF LineInv
<1>10. ASSUME Ringed
       PROVE  /\ curpos' \in 0 .. Size - 1 /\ line' \in [0 .. Size - 1 -> Int]
              /\ Rings(line', curpos', first, Len(out) + n, Size)
  <2>1. line' = IntoLine(n) /\ curpos' = (curpos + Lesser(Size, n)) % Size
    BY <1>2, <1>5, <1>10
  <2>2. QED
    BY <1>4, <1>10, <2>1, IntoLineIs
<1>11. LineTyped' /\ RingInv'
  BY <1>1, <1>3, <1>4, <1>9, <1>10, FramesKept
<1>12. SpeexInv'
  BY <1>1, <1>3 DEF SpeexInv
<1>13. QED
  BY <1>9, <1>11, <1>12 DEF LineInv

\* The plugin is given frames: nothing moves yet.
LEMMA TransferStep ==
    ASSUME LineInv, Transfer
    PROVE  LineInv' /\ UNCHANGED <<Delay, first, out>>
<1>1. /\ UNCHANGED <<plugin, line, curpos, processed, outbuf, first, out>>
      /\ left' \in 1 .. MaxFrames - first - Len(out)
  BY DEF Transfer
<1>2. first \in Nat /\ Len(out) \in Nat
  BY DEF LineInv, LineTyped
<1>3. left' \in Nat
  BY <1>1, <1>2, DelayBounds
<1>4. Size' = Size /\ (Ringed' <=> Ringed) /\ Delay' = Delay
  BY <1>1 DEF Size, Ringed, Route, Delay
<1>5. LineTyped'
  BY <1>1, <1>3 DEF LineInv, LineTyped, Route
<1>6. RingInv' /\ SpeexInv'
  BY <1>1, <1>4 DEF LineInv, RingInv, SpeexInv
<1>7. QED
  BY <1>1, <1>4, <1>5, <1>6 DEF LineInv

\* The place of a tap t frames old, once the newest frame went in.
LEMMA TapPlace ==
    ASSUME NEW S \in Nat \ {0}, NEW c \in 0 .. S - 1, NEW t \in 0 .. S - 1
    PROVE  /\ (c + (S - t)) % S \in 0 .. S - 1 /\ (c + 1) % S \in 0 .. S - 1
           /\ (((c + (S - t)) % S) - ((c + 1) % S)) % S = S - t - 1
<1> DEFINE a == (c + (S - t)) % S
           b == (c + 1) % S
<1>1. S - t \in 0 .. S /\ 1 \in 0 .. S
  OBVIOUS
<1>2. a = IF c + (S - t) < S THEN c + (S - t) ELSE (c + (S - t)) - S
  BY <1>1, WrappedSum
<1>3. b = IF c + 1 < S THEN c + 1 ELSE (c + 1) - S
  BY <1>1, WrappedSum
<1> HIDE DEF a, b
<1>4. a \in 0 .. S - 1 /\ b \in 0 .. S - 1
  BY <1>2, <1>3
<1>5. (a - b) % S = IF a >= b THEN a - b ELSE (a - b) + S
  BY <1>4, WrappedDifference
<1>6. (IF a >= b THEN a - b ELSE (a - b) + S) = S - t - 1
  BY <1>2, <1>3
<1>7. QED
  BY <1>4, <1>5, <1>6 DEF a, b

\* One frame of downmix goes in over the oldest one, and a tap is read.
LEMMA DownmixStep ==
    ASSUME LineInv, DownmixFrame
    PROVE  LineInv' /\ Line!Transfer
<1> DEFINE e == (curpos + (Size - plugin.tap)) % Size
           x == line'[e]
           c == (curpos + 1) % Size
<1> HIDE DEF e, x, c
<1>1. /\ plugin.kind = "downmix" /\ plugin \in Plugins /\ Ringed
      /\ first \in Nat /\ Len(out) \in Nat /\ left \in Nat /\ out \in Seq(Int)
      /\ Size \in Nat \ {0} /\ plugin.tap \in 0 .. Size - 1 /\ Delay = plugin.tap
      /\ curpos \in 0 .. Size - 1 /\ line \in [0 .. Size - 1 -> Int]
      /\ Rings(line, curpos, first, Len(out), Size)
  <2>1. plugin.kind = "downmix" /\ Ringed
    BY DEF DownmixFrame, Ringed
  <2>2. plugin \in Plugins /\ first \in Nat /\ Len(out) \in Nat /\ left \in Nat /\ out \in Seq(Int)
    BY DEF LineInv, LineTyped
  <2>3. Size \in Nat \ {0} /\ plugin.tap \in 0 .. Size - 1 /\ Delay = plugin.tap
    BY <2>1, <2>2, PluginFields, DelayIs
  <2>4. /\ curpos \in 0 .. Size - 1 /\ line \in [0 .. Size - 1 -> Int]
        /\ Rings(line, curpos, first, Len(out), Size)
    BY <2>1 DEF LineInv, RingInv
  <2>5. QED
    BY <2>1, <2>2, <2>3, <2>4
<1>2. /\ left > 0 /\ line' = [line EXCEPT ![curpos] = first + Len(out) + 1]
      /\ out' = Append(out, line'[(curpos + Size - plugin.tap) % Size])
      /\ curpos' = c /\ left' = left - 1
      /\ UNCHANGED <<plugin, processed, outbuf, first>>
  BY DEF DownmixFrame, In, c
<1>3. /\ curpos + Size - plugin.tap = curpos + (Size - plugin.tap)
      /\ Size - plugin.tap \in 0 .. Size /\ 1 \in 0 .. Size
  BY <1>1
<1>4. line' \in [0 .. Size - 1 -> Int]
  BY <1>1, <1>2
<1>5. ASSUME NEW i \in 0 .. Size - 1
      PROVE  line'[i] = IF (i - curpos) % Size < 1
                        THEN first + Len(out) + (1 - 1 + ((i - curpos) % Size) + 1) ELSE line[i]
  <2> DEFINE p == (i - curpos) % Size
  <2>1. p = IF i >= curpos THEN i - curpos ELSE (i - curpos) + Size
    BY <1>1, WrappedDifference
  <2> HIDE DEF p
  <2>2. p < 1 <=> i = curpos
    BY <1>1, <2>1
  <2>3. p < 1 => p = 0
    BY <1>1, <2>1
  <2>4. line'[i] = IF p < 1 THEN first + Len(out) + (1 - 1 + p + 1) ELSE line[i]
    <3>1. p < 1 => first + Len(out) + (1 - 1 + p + 1) = first + Len(out) + 1
      BY <1>1, <2>3
    <3>2. QED
      BY <1>1, <1>2, <2>2, <3>1
  <2>5. QED
    BY <2>4 DEF p
<1>6. Rings(line', c, first, Len(out) + 1, Size)
  <2> DEFINE d == 1
  <2>1. \A i \in 0 .. Size - 1 :
          line'[i] = IF (i - curpos) % Size < d
                     THEN first + Len(out) + (d - d + ((i - curpos) % Size) + 1) ELSE line[i]
    BY <1>5
  <2>2. d \in 0 .. Size /\ d \in Nat
    BY <1>3
  <2> HIDE DEF d
  <2>3. Rings(line', (curpos + d) % Size, first, Len(out) + d, Size)
    BY <1>1, <2>1, <2>2, RingAdvances
  <2>4. QED
    BY <2>3 DEF d, c
<1>7. e \in 0 .. Size - 1 /\ c \in 0 .. Size - 1 /\ (e - c) % Size = Size - plugin.tap - 1
  BY <1>1, TapPlace DEF e, c
<1>8. x = Frame(first, Len(out) + 1 - plugin.tap) /\ x \in Int
  <2>1. x = Frame(first, (Len(out) + 1) - Size + 1 + ((e - c) % Size)) /\ x \in Int
    BY <1>4, <1>6, <1>7 DEF Rings, x
  <2>2. (Len(out) + 1) - Size + 1 + (Size - plugin.tap - 1) = Len(out) + 1 - plugin.tap
    BY <1>1
  <2>3. QED
    BY <1>7, <2>1, <2>2
<1>9. out' = Append(out, x)
  BY <1>2, <1>3 DEF e, x
<1>10. <<x>> \in Seq(Int) /\ Len(<<x>>) = 1 /\ <<x>>[1] = x /\ out' = out \o <<x>>
  <2>1. Append(out, x) = out \o <<x>>
    BY <1>1, <1>8, AppendIsConcat, Zenon
  <2>2. <<x>> \in Seq(Int) /\ Len(<<x>>) = 1 /\ <<x>>[1] = x
    BY ONLY <1>8
  <2>3. QED
    BY <1>9, <2>1, <2>2
<1>11. \A i \in 1 .. Len(<<x>>) : <<x>>[i] = Frame(first, Len(out) + i - Delay)
  BY <1>1, <1>8, <1>10
<1>12. Line!Transfer /\ out' \in Seq(Int) /\ Len(out') = Len(out) + 1
  BY <1>2, <1>10, <1>11, OutStep DEF LineInv
<1>13. LineTyped' /\ RingInv'
  <2>1. left' \in Nat /\ 1 \in Nat
    BY <1>1, <1>2
  <2>2. QED
    BY <1>2, <1>4, <1>6, <1>7, <1>12, <2>1, FramesKept
<1>14. SpeexInv'
  BY <1>1, <1>2 DEF SpeexInv
<1>15. QED
  BY <1>12, <1>13, <1>14 DEF LineInv

\* speex, when it is no filter.
LEMMA SpeexCopyStep ==
    ASSUME LineInv, SpeexCopy
    PROVE  LineInv' /\ Line!Transfer
<1> DEFINE new == Inputs(left)
<1> HIDE DEF new
<1>1. /\ plugin.kind = "speex" /\ plugin.dsp = "none" /\ plugin \in Plugins /\ ~Ringed
      /\ left \in Nat /\ Len(out) \in Nat /\ Delay = 0
  BY DelayIs DEF LineInv, LineTyped, Ringed, SpeexCopy
<1>2. out' = out \o new /\ left' = 0 /\ UNCHANGED <<plugin, line, curpos, processed, outbuf, first>>
  BY DEF SpeexCopy, new
<1>3. /\ new \in Seq(Int) /\ Len(new) = left
      /\ \A i \in 1 .. left : new[i] = Frame(first, Len(out) + i)
  BY <1>1, InputsAre DEF LineInv, new
<1>4. \A i \in 1 .. Len(new) : new[i] = Frame(first, Len(out) + i - Delay)
  <2>1. \A i \in 1 .. left : Len(out) + i - 0 = Len(out) + i
    BY <1>1
  <2>2. QED
    BY <1>1, <1>3, <2>1
<1>5. Line!Transfer /\ out' \in Seq(Int) /\ Len(out') = Len(out) + left
  BY <1>1, <1>2, <1>3, <1>4, OutStep DEF LineInv
<1>6. LineTyped' /\ RingInv'
  BY <1>1, <1>2, <1>5, FramesKept
<1>7. SpeexInv'
  BY <1>1, <1>2 DEF SpeexInv
<1>8. QED
  BY <1>5, <1>6, <1>7 DEF LineInv

\* A chunk of speex: what was processed comes out of the block, or of outbuf, and the
\* input takes its place.
LEMMA SpeexChunkStep ==
    ASSUME LineInv, SpeexChunk
    PROVE  LineInv' /\ Line!Transfer
<1> DEFINE chunk == IF curpos + left > Size THEN Size - curpos ELSE left
           databuf == IF plugin.dsp = "echo" THEN outbuf ELSE line
           stored == [i \in 0 .. Size - 1 |->
                        IF i \in curpos .. curpos + chunk - 1 THEN In(i - curpos + 1) ELSE line[i]]
           full == curpos + chunk = Size
           new == [i \in 1 .. chunk |-> IF processed THEN databuf[curpos + i - 1] ELSE 0]
<1>1. /\ plugin.kind = "speex" /\ plugin.dsp # "none" /\ plugin \in Plugins /\ Ringed
      /\ first \in Nat /\ Len(out) \in Nat /\ left \in Nat /\ left > 0
      /\ Size \in Nat \ {0} /\ Delay = Size
      /\ curpos \in 0 .. Size - 1 /\ line \in [0 .. Size - 1 -> Int]
      /\ Rings(line, curpos, first, Len(out), Size)
      /\ ~processed => Len(out) = curpos
      /\ plugin.dsp = "echo" => \A i \in 0 .. Size - 1 : outbuf[i] = Frame(first, Len(out) - curpos - Size + i + 1)
  <2>1. plugin.kind = "speex" /\ plugin.dsp # "none" /\ Ringed /\ left > 0
    BY DEF SpeexChunk, Ringed
  <2>2. plugin \in Plugins /\ first \in Nat /\ Len(out) \in Nat /\ left \in Nat
    BY DEF LineInv, LineTyped
  <2>3. Size \in Nat \ {0} /\ Delay = Size
    BY <2>1, <2>2, PluginFields, DelayIs
  <2>4. /\ curpos \in 0 .. Size - 1 /\ line \in [0 .. Size - 1 -> Int]
        /\ Rings(line, curpos, first, Len(out), Size)
    BY <2>1 DEF LineInv, RingInv
  <2>5. /\ ~processed => Len(out) = curpos
        /\ plugin.dsp = "echo" => \A i \in 0 .. Size - 1 : outbuf[i] = Frame(first, Len(out) - curpos - Size + i + 1)
    BY <2>1 DEF LineInv, SpeexInv
  <2>6. QED
    BY <2>1, <2>2, <2>3, <2>4, <2>5
<1>2. /\ out' = out \o new /\ line' = stored
      /\ outbuf' = IF full /\ plugin.dsp = "echo" THEN stored ELSE outbuf
      /\ processed' = (processed \/ full)
      /\ curpos' = IF full THEN 0 ELSE curpos + chunk
      /\ left' = left - chunk /\ plugin' = plugin /\ first' = first
  BY Zenon DEF SpeexChunk
<1>3. chunk \in 1 .. Size /\ chunk \in Nat /\ chunk <= left /\ curpos + chunk <= Size
  BY <1>1
<1> HIDE DEF chunk
<1>4. ASSUME NEW i \in 1 .. chunk
      PROVE  /\ (IF processed THEN databuf[curpos + i - 1] ELSE 0) = Frame(first, Len(out) + i - Size)
  <2> DEFINE e == curpos + (i - 1)
  <2>1. e \in 0 .. Size - 1 /\ curpos + i - 1 = e /\ e >= curpos /\ e - curpos = i - 1
    BY <1>1, <1>3
  <2> HIDE DEF e
  <2>2. CASE ~processed
    <3>1. ~(Len(out) + i - Size > 0)
      BY <1>1, <1>3, <2>2
    <3>2. QED
      BY <2>2, <3>1 DEF Frame
  <2>3. CASE processed /\ plugin.dsp = "echo"
    <3>1. outbuf[e] = Frame(first, Len(out) - curpos - Size + e + 1)
      BY <1>1, <2>1, <2>3
    <3>2. Len(out) - curpos - Size + e + 1 = Len(out) + i - Size
      BY <1>1, <2>1
    <3>3. QED
      BY <2>1, <2>3, <3>1, <3>2
  <2>4. CASE processed /\ plugin.dsp # "echo"
    <3>1. line[e] = Frame(first, Len(out) - Size + 1 + ((e - curpos) % Size))
      BY <1>1, <2>1 DEF Rings
    <3>2. (e - curpos) % Size = i - 1
      BY <1>1, <2>1, WrappedDifference
    <3>3. Len(out) - Size + 1 + (i - 1) = Len(out) + i - Size
      BY <1>1
    <3>4. QED
      BY <2>1, <2>4, <3>1, <3>2, <3>3
  <2>5. QED
    BY <2>2, <2>3, <2>4
<1>5. /\ new \in Seq(Int) /\ Len(new) = chunk
      /\ \A i \in 1 .. Len(new) : new[i] = Frame(first, Len(out) + i - Delay)
  <2>1. \A i \in 1 .. chunk : Frame(first, Len(out) + i - Size) \in Int
    BY <1>1 DEF Frame
  <2>2. \A i \in 1 .. chunk : (IF processed THEN databuf[curpos + i - 1] ELSE 0) \in Int
    BY <1>4, <2>1
  <2>3. new \in Seq(Int) /\ Len(new) = chunk
    BY <1>3, <2>2, IsASeq
  <2>4. QED
    BY <1>1, <1>4, <2>3
<1> HIDE DEF new
<1>6. Line!Transfer /\ out' \in Seq(Int) /\ Len(out') = Len(out) + chunk
  BY <1>2, <1>5, OutStep DEF LineInv
<1>7. ASSUME NEW i \in 0 .. Size - 1
      PROVE  /\ stored[i] = IF (i - curpos) % Size < chunk
                            THEN first + Len(out) + (chunk - chunk + ((i - curpos) % Size) + 1) ELSE line[i]
             /\ stored[i] \in Int
  <2> DEFINE p == (i - curpos) % Size
  <2>1. p = IF i >= curpos THEN i - curpos ELSE (i - curpos) + Size
    BY <1>1, WrappedDifference
  <2>2. stored[i] = IF i \in curpos .. curpos + chunk - 1 THEN first + Len(out) + (i - curpos + 1) ELSE line[i]
    BY DEF In
  <2> HIDE DEF p, stored
  <2>3. i \in curpos .. curpos + chunk - 1 <=> p < chunk
    BY <1>1, <1>3, <2>1
  <2>4. p < chunk => first + Len(out) + (i - curpos + 1) = first + Len(out) + (chunk - chunk + p + 1)
    BY <1>1, <1>3, <2>1
  <2>5. first + Len(out) + (i - curpos + 1) \in Int /\ line[i] \in Int
    BY <1>1
  <2>6. QED
    BY <2>2, <2>3, <2>4, <2>5 DEF p
<1>8. stored \in [0 .. Size - 1 -> Int]
  <2>1. stored = [i \in 0 .. Size - 1 |-> stored[i]]
    OBVIOUS
  <2> HIDE DEF stored
  <2>2. QED
    BY <1>7, <2>1
<1> HIDE DEF stored
<1>9. curpos' = (curpos + chunk) % Size /\ curpos' \in 0 .. Size - 1
  <2>1. chunk \in 0 .. Size
    BY <1>1, <1>3
  <2>2. (curpos + chunk) % Size = IF curpos + chunk < Size THEN curpos + chunk ELSE (curpos + chunk) - Size
    BY <1>1, <2>1, WrappedSum
  <2>3. (IF curpos + chunk < Size THEN curpos + chunk ELSE (curpos + chunk) - Size)
        = IF full THEN 0 ELSE curpos + chunk
    BY <1>1, <1>3
  <2>4. curpos' \in 0 .. Size - 1
    BY <1>1, <1>2, <1>3
  <2>5. QED
    BY <1>2, <2>2, <2>3, <2>4
<1>10. Rings(line', curpos', first, Len(out) + chunk, Size)
  <2>1. chunk \in 0 .. Size
    BY <1>1, <1>3
  <2>2. Rings(stored, (curpos + chunk) % Size, first, Len(out) + chunk, Size)
    BY <1>1, <1>3, <1>7, <2>1, RingAdvances
  <2>3. QED
    BY <1>2, <1>9, <2>2
<1>11. LineTyped' /\ RingInv' /\ Size' = Size
  <2>1. left' \in Nat
    BY <1>1, <1>2, <1>3
  <2>2. QED
    BY <1>2, <1>3, <1>6, <1>8, <1>9, <1>10, <2>1, FramesKept
<1>12. ~processed' => Len(out') = curpos'
  BY <1>1, <1>2, <1>6
<1>13. ASSUME plugin.dsp = "echo", NEW i \in 0 .. Size - 1
       PROVE  outbuf'[i] = Frame(first, Len(out') - curpos' - Size + i + 1)
  <2>1. CASE full
    <3>1. outbuf' = line' /\ curpos' = 0
      BY <1>2, <1>13, <2>1
    <3>2. line'[i] = Frame(first, (Len(out) + chunk) - Size + 1 + ((i - 0) % Size))
      BY <1>10, <3>1 DEF Rings
    <3>3. \A j \in 0 .. Size - 1 : (j - 0) % Size = j
      BY <1>1, FromZero, Zenon
    <3>4. (i - 0) % Size = i
      BY <3>3, Zenon
    <3>5. (Len(out) + chunk) - Size + 1 + i = Len(out') - 0 - Size + i + 1
      BY <1>1, <1>3, <1>6
    <3>6. QED
      BY <3>1, <3>2, <3>4, <3>5
  <2>2. CASE ~full
    <3>1. outbuf' = outbuf /\ curpos' = curpos + chunk
      BY <1>2, <2>2
    <3>2. outbuf[i] = Frame(first, Len(out) - curpos - Size + i + 1)
      BY <1>1, <1>13
    <3>3. Len(out) - curpos - Size + i + 1 = Len(out') - (curpos + chunk) - Size + i + 1
      BY <1>1, <1>3, <1>6
    <3>4. QED
      BY <3>1, <3>2, <3>3
  <2>3. QED
    BY <2>1, <2>2
<1>14. SpeexInv'
  BY <1>2, <1>11, <1>12, <1>13 DEF SpeexInv
<1>15. QED
  BY <1>6, <1>11, <1>14 DEF LineInv

\* A step of the plugin keeps the invariant, and is a step of the delay or none.
LEMMA StepsOfLine ==
    ASSUME LineInv, [LineNext]_lineVars
    PROVE  LineInv' /\ [Line!Next]_<<Delay, first, out>>
<1>1. CASE InitStream
  BY <1>1, InitStreamStep DEF Line!Next
<1>2. CASE UpmixTransfer
  BY <1>2, UpmixStep DEF Line!Next
<1>3. CASE Transfer
  BY <1>3, TransferStep
<1>4. CASE DownmixFrame
  BY <1>4, DownmixStep DEF Line!Next
<1>5. CASE SpeexCopy
  BY <1>5, SpeexCopyStep DEF Line!Next
<1>6. CASE SpeexChunk
  BY <1>6, SpeexChunkStep DEF Line!Next
<1>7. CASE UNCHANGED lineVars
  <2>1. /\ UNCHANGED <<plugin, line, curpos, processed, outbuf, left, first, out>>
        /\ Size' = Size /\ (Ringed' <=> Ringed) /\ Delay' = Delay
    BY <1>7 DEF lineVars, Size, Ringed, Route, Delay
  <2>2. LineTyped' /\ RingInv' /\ SpeexInv'
    BY <2>1 DEF LineInv, LineTyped, RingInv, SpeexInv, Route
  <2>3. QED
    BY <2>1, <2>2 DEF LineInv
<1>8. QED
  BY <1>1, <1>2, <1>3, <1>4, <1>5, <1>6, <1>7 DEF LineNext

\* However a transfer is cut, and however often the stream is prepared, each of the
\* plugins is a delay: upmix_transfer on every channel that its route writes,
\* vdownmix_transfer for every tap, spx_transfer in each of its modes, for every size
\* of the ring.  The hypothesis leaves out the channels 6 and 7 of a slave of eight
\* where do_upmix has a row of six: what is heard there is not a delay of anything.
THEOREM LinesAreDelays ==
  (plugin.kind = "upmix" => plugin.channel \in DOMAIN Route) /\ LineSpec => ImplementsDelayLine
<1>1. LineInit => Line!Init
  <2>1. SUFFICES ASSUME LineInit PROVE Line!Init
    OBVIOUS
  <2>2. Delay \in Nat
    BY <2>1, DelayIs DEF LineInit
  <2>3. QED
    BY <2>1, <2>2 DEF LineInit, Line!Init
<1>2. LineInit /\ (plugin.kind = "upmix" => plugin.channel \in DOMAIN Route) => LineInv
  BY InitLineInv
<1>3. LineInv /\ [LineNext]_lineVars => LineInv' /\ [Line!Next]_<<Delay, first, out>>
  BY StepsOfLine
<1>4. QED
  BY <1>1, <1>2, <1>3, PTL DEF LineSpec, ImplementsDelayLine, Line!Spec
=============================================================================
