---------------------------- MODULE SessionProofs ----------------------------
(***************************************************************************)
(* The log and the tick store of a session, for any consumers, symbols and *)
(* capacity.  Every step of the session is a step of the ring or leaves it *)
(* alone, so the ring's own invariant is there to be used.                 *)
(***************************************************************************)
EXTENDS Session, RingBufferProofs

-----------------------------------------------------------------------------
(* Nothing is written before the socket is connected, and every consumer   *)
(* has its reader by then.                                                 *)
ReadersFirst ==
  IF mpc = "boot" THEN writePos = 0 /\ wpc = "idle"
  ELSE \A r \in Readers : rpc[r] # "absent"

(* What "never lapped" says of the logger's distance from the producer.    *)
WithinALap ==
  ~lapped /\ rpc[Logger] # "exited" => Written - readPos[Logger] <= Capacity

(* A logger that found nothing stands where it looked. *)
StandsWhereItLooked ==
  rpc[Logger] \in {"spin", "exited"} => readPos[Logger] = looked

(* The export, and the file, come after the logger's end. *)
LoggerIsDone ==
  /\ mpc \in {"export", "save"} \/ ticksFile # NoTicks => rpc[Logger] = "exited"
  /\ ticksFile # NoTicks => ticksFile = ticksLog

SInv ==
  /\ IInv
  /\ SessionTypeOK
  /\ ReadersFirst
  /\ WithinALap
  /\ StandsWhereItLooked
  /\ LoggerIsDone
  /\ LogIsWhole
  /\ StoreEndsOnLast

(* Every step of the session is a step of the ring or leaves it alone. *)
LEMMA SessionStepIsRingStep == [SessionNext]_sessionVars => [Next]_vars
  BY DEF SessionNext, sessionVars, ringVars, Next, Attach, ConnectSocket, ConnectFails,
         TickArrives, TickPublished, Looks, Spins, Deliver, CloseSocket, CloseRing,
         WaitForLogger, Export, SaveTicks

(* The log of n + 1 ticks is that of n ticks and the next one. *)
LEMMA FirstTicksGrow ==
  ASSUME NEW n \in Nat
  PROVE  /\ FirstTicks(n) \in Seq(Nat)
         /\ Append(FirstTicks(n), n) = FirstTicks(n + 1)
<1>1. FirstTicks(n) \in Seq(Nat) /\ Len(FirstTicks(n)) = n
  BY DEF FirstTicks
<1>2. DOMAIN Append(FirstTicks(n), n) = 1..(n + 1)
  BY <1>1
<1>3. \A i \in 1..(n + 1) : Append(FirstTicks(n), n)[i] = i - 1
  BY <1>1 DEF FirstTicks
<1>4. \A i \in 1..(n + 1) : FirstTicks(n + 1)[i] = i - 1
  BY DEF FirstTicks
<1> QED
  BY <1>1, <1>2, <1>3, <1>4 DEF FirstTicks

(* What Next hands to a consumer: a tick not before its cursor, and not    *)
(* yet overwritten; its own tick if it is within a lap.                    *)
LEMMA Delivered ==
  ASSUME IInv, NEW r \in Readers, ReadSlot(r)
  PROVE  /\ got'[r] \in readPos[r]..(Written - 1)
         /\ got'[r] \in Nat /\ got'[r] # Nil
         /\ Written - readPos[r] <= Capacity => got'[r] = readPos[r]
         /\ rpc' = [rpc EXCEPT ![r] = "load"]
         /\ readPos' = [readPos EXCEPT ![r] = @ + 1]
<1>1. /\ got'[r] = buffer[Idx(readPos[r])] /\ rpc[r] = "slot"
      /\ readPos[r] \in Nat /\ Written \in Int
  BY CapacityAssumption DEF ReadSlot, IInv, TypeOK, Written
<1>2. /\ got'[r] \in readPos[r]..(Written - 1)
      /\ Written - readPos[r] <= Capacity => got'[r] = readPos[r]
  BY <1>1, SlotHasTickForCursor
<1>3. got'[r] \in Nat /\ got'[r] # Nil
  BY <1>1, <1>2 DEF Nil
<1> QED
  BY <1>1, <1>2, <1>3 DEF ReadSlot

LEMMA InitEstablishesSInv == SessionInit => SInv
<1> SUFFICES ASSUME SessionInit PROVE SInv
  OBVIOUS
<1> USE SessionAssumption, CapacityAssumption
<1>1. IInv
  BY InitEstablishesIInv DEF SessionInit
<1>2. /\ writePos = 0 /\ wpc = "idle" /\ Written = 0 /\ mpc = "boot"
      /\ rpc[Logger] = "absent" /\ readPos[Logger] = 0 /\ rpc[TickStore] = "absent"
      /\ ticksLog = <<>> /\ ticksFile = NoTicks /\ looked = 0 /\ lapped = FALSE
  BY DEF SessionInit, Init, Written
<1>3. SessionTypeOK
  <2>1. store \in [TickSymbols -> Nat \cup {Nil}]
    BY DEF SessionInit
  <2>2. lapped \in BOOLEAN
    BY <1>2
  <2>3. ticksLog \in Seq(Nat) /\ looked \in 0..writePos
    BY <1>2
  <2> QED
    BY <1>1, <1>2, <2>1, <2>2, <2>3 DEF SessionTypeOK, IInv
<1>4. FirstTicks(0) = <<>>
  BY DEF FirstTicks
<1> QED
  BY <1>1, <1>2, <1>3, <1>4
     DEF SInv, ReadersFirst, WithinALap, StandsWhereItLooked, LoggerIsDone, LogIsWhole,
         StoreEndsOnLast

-----------------------------------------------------------------------------
LEMMA StepKeepsIInvOfRing == SInv /\ [SessionNext]_sessionVars => IInv'
  BY StepKeepsIInv, SessionStepIsRingStep DEF SInv

LEMMA StepKeepsReadersFirst == SInv /\ [SessionNext]_sessionVars => ReadersFirst'
<1> SUFFICES ASSUME SInv, [SessionNext]_sessionVars PROVE ReadersFirst'
  OBVIOUS
<1> USE DEF SInv, IInv, TypeOK, ReadersFirst
<1>1. ASSUME NEW r \in Readers, Attach(r) PROVE ReadersFirst'
  BY <1>1 DEF Attach, NewReader
<1>2. CASE ConnectSocket \/ ConnectFails
  BY <1>2 DEF ConnectSocket, ConnectFails, ringVars, vars
<1>3. CASE TickArrives \/ TickPublished
  BY <1>3 DEF TickArrives, WriteSlot, TickPublished, Publish
<1>4. ASSUME NEW r \in Readers, Looks(r) \/ Spins(r) \/ Deliver(r) PROVE ReadersFirst'
  BY <1>4 DEF Looks, LoadPos, Spins, CheckClosed, Deliver, ReadSlot
<1>5. CASE CloseRing
  BY <1>5 DEF CloseRing, Close
<1>6. CASE CloseSocket \/ WaitForLogger \/ Export \/ SaveTicks
  BY <1>6 DEF CloseSocket, WaitForLogger, Export, SaveTicks, ringVars, vars
<1>7. CASE UNCHANGED sessionVars
  BY <1>7 DEF sessionVars, ringVars, vars
<1> QED
  BY <1>1, <1>2, <1>3, <1>4, <1>5, <1>6, <1>7 DEF SessionNext

LEMMA StepKeepsWithinALap == SInv /\ [SessionNext]_sessionVars => WithinALap'
<1> SUFFICES ASSUME SInv, [SessionNext]_sessionVars PROVE WithinALap'
  OBVIOUS
<1> USE CapacityAssumption, SessionAssumption
<1>0. /\ Logger \in Readers /\ readPos[Logger] \in Nat /\ writePos \in Nat /\ Capacity >= 1
      /\ Written \in writePos..(writePos + 1)
      /\ wpc \in {"idle", "publish"} /\ rpc \in [Readers -> ReaderStates]
      /\ readPos \in [Readers -> Nat]
  BY DEF SInv, IInv, TypeOK, Written
<1>1. ASSUME NEW r \in Readers, Attach(r) PROVE WithinALap'
  <2>1. lapped' = lapped /\ Written' = Written /\ writePos' = writePos
    BY <1>1 DEF Attach, NewReader, Written
  <2>2. CASE r = Logger
    BY <1>0, <1>1, <2>1, <2>2 DEF Attach, NewReader, WithinALap
  <2>3. CASE r # Logger
    BY <1>0, <1>1, <2>1, <2>3 DEF Attach, NewReader, WithinALap, SInv
  <2> QED
    BY <2>2, <2>3
<1>2. CASE TickArrives
  <2>1. /\ Written' = writePos + 1 /\ rpc' = rpc /\ readPos' = readPos
        /\ rpc[Logger] # "exited" /\ writePos - readPos[Logger] >= Capacity => lapped'
    BY <1>2 DEF TickArrives, WriteSlot, Written
  <2>2. Capacity \in Nat
    OBVIOUS
  <2> QED
    BY <1>0, <2>1, <2>2 DEF WithinALap
<1>3. CASE TickPublished
  BY <1>0, <1>3 DEF TickPublished, Publish, WithinALap, Written, SInv
<1>4. ASSUME NEW r \in Readers, Looks(r) PROVE WithinALap'
  BY <1>0, <1>4 DEF Looks, LoadPos, WithinALap, Written, SInv
<1>5. ASSUME NEW r \in Readers, Spins(r) PROVE WithinALap'
  BY <1>0, <1>5 DEF Spins, CheckClosed, WithinALap, Written, SInv
<1>6. ASSUME NEW r \in Readers, Deliver(r) PROVE WithinALap'
  <2>1. /\ rpc[r] = "slot" /\ lapped' = lapped /\ Written' = Written
        /\ readPos' = [readPos EXCEPT ![r] = @ + 1]
        /\ \A q \in Readers : q # r => rpc'[q] = rpc[q]
    BY <1>0, <1>6 DEF Deliver, ReadSlot, Written
  <2> QED
    BY <1>0, <2>1 DEF WithinALap, SInv
<1>7. CASE CloseRing
  BY <1>0, <1>7 DEF CloseRing, Close, WithinALap, Written, SInv
<1>8. CASE \/ ConnectSocket \/ ConnectFails \/ CloseSocket \/ WaitForLogger \/ Export
           \/ SaveTicks \/ UNCHANGED sessionVars
  BY <1>8 DEF ConnectSocket, ConnectFails, CloseSocket, WaitForLogger, Export, SaveTicks,
              sessionVars, ringVars, vars, WithinALap, Written, SInv
<1> QED
  BY <1>1, <1>2, <1>3, <1>4, <1>5, <1>6, <1>7, <1>8 DEF SessionNext

LEMMA StepKeepsStandsWhereItLooked ==
  SInv /\ [SessionNext]_sessionVars => StandsWhereItLooked'
<1> SUFFICES ASSUME SInv, [SessionNext]_sessionVars PROVE StandsWhereItLooked'
  OBVIOUS
<1> USE CapacityAssumption, SessionAssumption
<1>0. /\ Logger \in Readers /\ readPos \in [Readers -> Nat] /\ writePos \in Nat
      /\ rpc \in [Readers -> ReaderStates]
  BY DEF SInv, IInv, TypeOK
<1>1. ASSUME NEW r \in Readers, Attach(r) PROVE StandsWhereItLooked'
  BY <1>0, <1>1 DEF Attach, NewReader, StandsWhereItLooked, SInv
<1>2. CASE TickArrives \/ TickPublished \/ CloseRing
  BY <1>2 DEF TickArrives, WriteSlot, TickPublished, Publish, CloseRing, Close,
              StandsWhereItLooked, SInv
<1>3. ASSUME NEW r \in Readers, Looks(r) PROVE StandsWhereItLooked'
  BY <1>0, <1>3 DEF Looks, LoadPos, StandsWhereItLooked, SInv
<1>4. ASSUME NEW r \in Readers, Spins(r) PROVE StandsWhereItLooked'
  BY <1>0, <1>4 DEF Spins, CheckClosed, StandsWhereItLooked, SInv
<1>5. ASSUME NEW r \in Readers, Deliver(r) PROVE StandsWhereItLooked'
  <2>1. /\ rpc' = [rpc EXCEPT ![r] = "load"] /\ readPos' = [readPos EXCEPT ![r] = @ + 1]
        /\ looked' = looked
    BY <1>5, Delivered DEF Deliver, SInv
  <2> QED
    BY <1>0, <2>1 DEF StandsWhereItLooked, SInv
<1>6. CASE \/ ConnectSocket \/ ConnectFails \/ CloseSocket \/ WaitForLogger \/ Export
           \/ SaveTicks \/ UNCHANGED sessionVars
  BY <1>6 DEF ConnectSocket, ConnectFails, CloseSocket, WaitForLogger, Export, SaveTicks,
              sessionVars, ringVars, vars, StandsWhereItLooked, SInv
<1> QED
  BY <1>1, <1>2, <1>3, <1>4, <1>5, <1>6 DEF SessionNext

LEMMA StepKeepsLogIsWhole == SInv /\ [SessionNext]_sessionVars => LogIsWhole'
<1> SUFFICES ASSUME SInv, [SessionNext]_sessionVars, ~lapped' PROVE LogIsWhole'
  BY DEF LogIsWhole
<1> USE CapacityAssumption, SessionAssumption
<1>0. /\ Logger \in Readers /\ readPos \in [Readers -> Nat] /\ writePos \in Nat
      /\ rpc \in [Readers -> ReaderStates] /\ readPos[Logger] <= writePos
      /\ readPos[Logger] \in Nat
  BY DEF SInv, IInv, TypeOK, CursorBehindTail
<1>1. ASSUME ticksLog' = ticksLog, readPos'[Logger] = readPos[Logger], ~lapped
      PROVE  LogIsWhole'
  BY <1>1 DEF LogIsWhole, FirstTicks, SInv
<1>2. ASSUME NEW r \in Readers, Attach(r) PROVE LogIsWhole'
  <2>1. writePos = 0
    BY <1>2 DEF SInv, ReadersFirst, Attach, NewReader
  <2>2. readPos'[Logger] = readPos[Logger]
    BY <1>0, <1>2, <2>1 DEF Attach, NewReader
  <2> QED
    BY <1>1, <1>2, <2>2 DEF Attach
<1>3. CASE TickArrives
  BY <1>1, <1>3 DEF TickArrives, WriteSlot
<1>4. CASE TickPublished \/ CloseRing
  BY <1>1, <1>4 DEF TickPublished, Publish, CloseRing, Close
<1>5. ASSUME NEW r \in Readers, Looks(r) PROVE LogIsWhole'
  <2>1. CASE r = Logger
    <3>1. Written - readPos[Logger] <= Capacity /\ Written >= writePos /\ Written \in Int
      BY <1>0, <1>5, <2>1 DEF SInv, WithinALap, Looks, LoadPos, Written
    <3>2. ~(writePos - readPos[Logger] > Capacity)
      BY <1>0, <3>1
    <3>3. readPos'[Logger] = readPos[Logger]
      BY <1>0, <1>5, <2>1, <3>2 DEF Looks, LoadPos
    <3> QED
      BY <1>1, <1>5, <3>3 DEF Looks
  <2>2. CASE r # Logger
    BY <1>0, <1>1, <1>5, <2>2 DEF Looks, LoadPos
  <2> QED
    BY <2>1, <2>2
<1>6. ASSUME NEW r \in Readers, Spins(r) PROVE LogIsWhole'
  BY <1>1, <1>6 DEF Spins, CheckClosed
<1>7. ASSUME NEW r \in Readers, Deliver(r) PROVE LogIsWhole'
  <2>0. ReadSlot(r) /\ ~lapped /\ rpc[r] = "slot"
    BY <1>7 DEF Deliver, ReadSlot
  <2>1. CASE r = Logger
    <3>1. Written - readPos[Logger] <= Capacity
      BY <2>0, <2>1 DEF SInv, WithinALap
    <3>2. got'[Logger] = readPos[Logger] /\ readPos'[Logger] = readPos[Logger] + 1
          /\ got'[Logger] # Nil
      BY <1>0, <2>0, <2>1, <3>1, Delivered DEF SInv
    <3>3. ticksLog' = Append(ticksLog, readPos[Logger])
      BY <1>7, <2>1, <3>2 DEF Deliver, Logged
    <3>4. ticksLog' = FirstTicks(readPos[Logger] + 1)
      BY <1>0, <2>0, <3>3, FirstTicksGrow DEF SInv, LogIsWhole
    <3> QED
      BY <3>2, <3>4 DEF LogIsWhole, FirstTicks
  <2>2. CASE r # Logger
    <3>1. readPos'[Logger] = readPos[Logger] /\ ticksLog' = ticksLog
      BY <1>0, <1>7, <2>2 DEF Deliver, Logged, ReadSlot
    <3> QED
      BY <1>1, <2>0, <3>1
  <2> QED
    BY <2>1, <2>2
<1>8. CASE \/ ConnectSocket \/ ConnectFails \/ CloseSocket \/ WaitForLogger \/ Export
           \/ SaveTicks \/ UNCHANGED sessionVars
  BY <1>1, <1>8 DEF ConnectSocket, ConnectFails, CloseSocket, WaitForLogger, Export,
              SaveTicks, sessionVars, ringVars, vars
<1> QED
  BY <1>2, <1>3, <1>4, <1>5, <1>6, <1>7, <1>8 DEF SessionNext

LEMMA StepKeepsLoggerIsDone == SInv /\ [SessionNext]_sessionVars => LoggerIsDone'
<1> SUFFICES ASSUME SInv, [SessionNext]_sessionVars PROVE LoggerIsDone'
  OBVIOUS
<1> USE SessionAssumption
<1>0. Logger \in Readers /\ rpc \in [Readers -> ReaderStates]
  BY DEF SInv, IInv, TypeOK
<1>1. ASSUME NEW r \in Readers, Attach(r) PROVE LoggerIsDone'
  BY <1>0, <1>1 DEF Attach, NewReader, LoggerIsDone, SInv
<1>2. CASE TickArrives \/ TickPublished \/ CloseRing
  BY <1>2 DEF TickArrives, WriteSlot, TickPublished, Publish, CloseRing, Close,
              LoggerIsDone, SInv
<1>3. ASSUME NEW r \in Readers, Looks(r) PROVE LoggerIsDone'
  BY <1>0, <1>3 DEF Looks, LoadPos, LoggerIsDone, SInv
<1>4. ASSUME NEW r \in Readers, Spins(r) PROVE LoggerIsDone'
  BY <1>0, <1>4 DEF Spins, CheckClosed, LoggerIsDone, SInv
<1>5. ASSUME NEW r \in Readers, Deliver(r) PROVE LoggerIsDone'
  <2>1. /\ rpc' = [rpc EXCEPT ![r] = "load"] /\ rpc[r] = "slot"
        /\ mpc' = mpc /\ ticksFile' = ticksFile
    BY <1>5, Delivered DEF Deliver, ReadSlot, SInv
  <2>2. r # Logger => ticksLog' = ticksLog
    BY <1>5 DEF Deliver, Logged
  <2> QED
    BY <1>0, <2>1, <2>2 DEF LoggerIsDone, SInv
<1>6. CASE ConnectSocket \/ ConnectFails \/ CloseSocket \/ UNCHANGED sessionVars
  BY <1>6 DEF ConnectSocket, ConnectFails, CloseSocket, sessionVars, ringVars, vars,
              LoggerIsDone, SInv
<1>7. CASE WaitForLogger \/ Export \/ SaveTicks
  BY <1>7 DEF WaitForLogger, Export, SaveTicks, ringVars, vars, LoggerIsDone, SInv
<1> QED
  BY <1>1, <1>2, <1>3, <1>4, <1>5, <1>6, <1>7 DEF SessionNext

LEMMA StepKeepsStoreEndsOnLast ==
  SInv /\ [SessionNext]_sessionVars => StoreEndsOnLast'
<1> SUFFICES ASSUME SInv, [SessionNext]_sessionVars PROVE StoreEndsOnLast'
  OBVIOUS
<1> USE CapacityAssumption, MaxWritesAssumption, SessionAssumption
<1>0. /\ TickStore \in Readers /\ readPos \in [Readers -> Nat] /\ writePos \in Nat
      /\ rpc \in [Readers -> ReaderStates] /\ readPos[TickStore] <= writePos
      /\ readPos[TickStore] \in Nat
  BY DEF SInv, IInv, TypeOK, CursorBehindTail
<1>1. ASSUME NEW r \in Readers, Attach(r) PROVE StoreEndsOnLast'
  <2>1. writePos' = 0
    BY <1>1 DEF SInv, ReadersFirst, Attach, NewReader
  <2> QED
    BY <2>1 DEF StoreEndsOnLast
<1>2. CASE TickArrives
  BY <1>2 DEF TickArrives, WriteSlot, StoreEndsOnLast
<1>3. CASE TickPublished
  BY <1>0, <1>3 DEF TickPublished, Publish, StoreEndsOnLast
<1>4. ASSUME NEW r \in Readers, Looks(r) PROVE StoreEndsOnLast'
  <2>1. CASE r = TickStore
    <3>1. readPos[TickStore] = writePos => readPos'[TickStore] = readPos[TickStore]
      BY <1>0, <1>4, <2>1 DEF Looks, LoadPos
    <3>2. rpc[TickStore] = "load" /\ rpc'[TickStore] # "slot" => readPos[TickStore] = writePos
      BY <1>0, <1>4, <2>1 DEF Looks, LoadPos
    <3> QED
      BY <1>0, <1>4, <2>1, <3>1, <3>2 DEF Looks, LoadPos, StoreEndsOnLast, SInv
  <2>2. CASE r # TickStore
    BY <1>0, <1>4, <2>2 DEF Looks, LoadPos, StoreEndsOnLast, SInv
  <2> QED
    BY <2>1, <2>2
<1>5. ASSUME NEW r \in Readers, Spins(r) PROVE StoreEndsOnLast'
  BY <1>0, <1>5 DEF Spins, CheckClosed, StoreEndsOnLast, SInv
<1>6. ASSUME NEW r \in Readers, Deliver(r) PROVE StoreEndsOnLast'
  <2>0. ReadSlot(r) /\ UNCHANGED <<writePos, wpc>> /\ got'[r] # Nil
        /\ got'[r] \in readPos[r]..(Written - 1)
        /\ readPos' = [readPos EXCEPT ![r] = @ + 1] /\ rpc' = [rpc EXCEPT ![r] = "load"]
    BY <1>6, Delivered DEF Deliver, ReadSlot, SInv
  <2>1. CASE r = TickStore
    <3> SUFFICES ASSUME readPos'[TickStore] = writePos, wpc = "idle"
                 PROVE  store'[SymbolOf[writePos - 1]] = writePos - 1
      BY <2>0 DEF StoreEndsOnLast
    <3>1. got'[TickStore] = writePos - 1 /\ writePos - 1 \in 0..MaxWrites
      BY <1>0, <2>0, <2>1 DEF Written, SInv, IInv, TypeOK
    <3>2. SymbolOf[writePos - 1] \in TickSymbols
      BY <3>1 DEF TickSymbols
    <3>3. store \in [TickSymbols -> Nat \cup {Nil}]
      BY DEF SInv, SessionTypeOK
    <3>4. store' = [store EXCEPT ![SymbolOf[writePos - 1]] = writePos - 1]
      BY <1>6, <2>0, <2>1, <3>1 DEF Deliver, Stored
    <3> QED
      BY <3>2, <3>3, <3>4
  <2>2. CASE r # TickStore
    <3>1. store' = store
      BY <1>6, <2>2 DEF Deliver, Stored
    <3> QED
      BY <1>0, <2>0, <2>2, <3>1 DEF StoreEndsOnLast, SInv
  <2> QED
    BY <2>1, <2>2
<1>7. CASE CloseRing
  BY <1>7 DEF CloseRing, Close, StoreEndsOnLast, SInv
<1>8. CASE \/ ConnectSocket \/ ConnectFails \/ CloseSocket \/ WaitForLogger \/ Export
           \/ SaveTicks \/ UNCHANGED sessionVars
  BY <1>8 DEF ConnectSocket, ConnectFails, CloseSocket, WaitForLogger, Export, SaveTicks,
              sessionVars, ringVars, vars, StoreEndsOnLast, SInv
<1> QED
  BY <1>1, <1>2, <1>3, <1>4, <1>5, <1>6, <1>7, <1>8 DEF SessionNext

LEMMA StepKeepsSessionTypeOK == SInv /\ [SessionNext]_sessionVars => SessionTypeOK'
<1> SUFFICES ASSUME SInv, [SessionNext]_sessionVars PROVE SessionTypeOK'
  OBVIOUS
<1> USE CapacityAssumption, MaxWritesAssumption, SessionAssumption
<1>1. TypeOK'
  BY StepKeepsIInvOfRing DEF IInv
<1>2. /\ writePos \in Nat /\ TypeOK /\ looked \in 0..writePos /\ ticksLog \in Seq(Nat)
      /\ store \in [TickSymbols -> Nat \cup {Nil}] /\ lapped \in BOOLEAN
      /\ ticksFile \in Seq(Nat) \cup {NoTicks}
      /\ mpc \in {"boot", "serving", "closing", "waiting", "export", "save", "over"}
  BY DEF SInv, SessionTypeOK, TypeOK
<1> DEFINE Scalars == /\ lapped \in BOOLEAN
                      /\ mpc \in {"boot", "serving", "closing", "waiting", "export",
                                  "save", "over"}
                      /\ ticksFile \in Seq(Nat) \cup {NoTicks}
                      /\ looked \in 0..writePos
           Records == /\ store \in [TickSymbols -> Nat \cup {Nil}]
                      /\ ticksLog \in Seq(Nat)
<1>3. Scalars'
  <2>1. ASSUME NEW r \in Readers, Attach(r) PROVE Scalars'
    BY <1>2, <2>1 DEF Attach, NewReader
  <2>2. CASE TickArrives
    <3>1. lapped' \in BOOLEAN
      BY <2>2 DEF TickArrives
    <3> QED
      BY <1>2, <2>2, <3>1 DEF TickArrives, WriteSlot
  <2>3. CASE TickPublished
    BY <1>2, <2>3 DEF TickPublished, Publish
  <2>4. ASSUME NEW r \in Readers, Looks(r) PROVE Scalars'
    BY <1>2, <2>4 DEF Looks, LoadPos
  <2>5. ASSUME NEW r \in Readers, Spins(r) PROVE Scalars'
    BY <1>2, <2>5 DEF Spins, CheckClosed
  <2>6. ASSUME NEW r \in Readers, Deliver(r) PROVE Scalars'
    BY <1>2, <2>6 DEF Deliver, ReadSlot
  <2>7. CASE CloseRing
    BY <1>2, <2>7 DEF CloseRing, Close
  <2>8. CASE \/ ConnectSocket \/ ConnectFails \/ CloseSocket \/ WaitForLogger \/ Export
             \/ SaveTicks \/ UNCHANGED sessionVars
    BY <1>2, <2>8 DEF ConnectSocket, ConnectFails, CloseSocket, WaitForLogger, Export,
                SaveTicks, sessionVars, ringVars, vars
  <2> QED
    BY <2>1, <2>2, <2>3, <2>4, <2>5, <2>6, <2>7, <2>8 DEF SessionNext
<1>4. Records'
  <2>1. ASSUME NEW r \in Readers, Deliver(r) PROVE Records'
    <3>1. got'[r] \in Nat
      BY <2>1, Delivered DEF Deliver, SInv
    <3>2. store' = store \/ store' = [store EXCEPT ![SymbolOf[got'[r]]] = got'[r]]
      BY <2>1 DEF Deliver, Stored
    <3>3. ticksLog' = ticksLog \/ ticksLog' = Append(ticksLog, got'[r])
      BY <2>1 DEF Deliver, Logged
    <3>4. Append(ticksLog, got'[r]) \in Seq(Nat)
      BY <1>2, <3>1
    <3> QED
      BY <1>2, <3>1, <3>2, <3>3, <3>4
  <2>2. ASSUME ~(\E r \in Readers : Deliver(r)) PROVE store' = store /\ ticksLog' = ticksLog
    BY <2>2 DEF SessionNext, sessionVars, Attach, ConnectSocket, ConnectFails, TickArrives,
         TickPublished, Looks, Spins, CloseSocket, CloseRing, WaitForLogger, Export, SaveTicks
  <2> QED
    BY <1>2, <2>1, <2>2
<1> QED
  BY <1>1, <1>3, <1>4 DEF SessionTypeOK

-----------------------------------------------------------------------------
(* The whole invariant holds in every reachable state of a session.        *)
THEOREM SessionInvariant == SessionSpec => []SInv
<1>1. SInv /\ [SessionNext]_sessionVars => SInv'
  BY StepKeepsIInvOfRing, StepKeepsSessionTypeOK, StepKeepsReadersFirst,
     StepKeepsWithinALap, StepKeepsStandsWhereItLooked, StepKeepsLoggerIsDone,
     StepKeepsLogIsWhole, StepKeepsStoreEndsOnLast DEF SInv
<1> QED
  BY InitEstablishesSInv, <1>1, PTL DEF SessionSpec

(* Type correctness of main.go's session, its ring included. *)
THEOREM SessionTypeCorrect == SessionSpec => []SessionTypeOK
<1>1. SInv => SessionTypeOK
  BY DEF SInv
<1> QED
  BY <1>1, SessionInvariant, PTL

(* A logger that keeps up logs every tick of the session, in order. *)
THEOREM SessionLogsEverything == SessionSpec => []LogIsWhole
<1>1. SInv => LogIsWhole
  BY DEF SInv
<1> QED
  BY <1>1, SessionInvariant, PTL

(* ... and main writes out all of it. *)
THEOREM SessionFileIsDrained == SessionSpec => []FileIsDrained
<1>1. SInv => FileIsDrained
  BY DEF SInv, LoggerIsDone, StandsWhereItLooked, LogIsWhole, FileIsDrained
<1> QED
  BY <1>1, SessionInvariant, PTL

(* A tick store that has caught up holds the last published tick. *)
THEOREM SessionStoreEndsOnLast == SessionSpec => []StoreEndsOnLast
<1>1. SInv => StoreEndsOnLast
  BY DEF SInv
<1> QED
  BY <1>1, SessionInvariant, PTL

-----------------------------------------------------------------------------
(* What main.go, the tick store and the logger do to the ring is what any  *)
(* user of ringbuffer.go may do: a session is a behaviour of the ring.     *)
THEOREM SessionImplementsRing == SessionSpec => Spec
<1>1. SessionInit => Init
  BY DEF SessionInit
<1> QED
  BY <1>1, SessionStepIsRingStep, PTL DEF SessionSpec, Spec

(* So the consumers of a session get what the abstract feed promises,      *)
(* whatever main does at boot and at shutdown.                             *)
THEOREM SessionImplementsFeed == SessionSpec => ImplementsFeed
  BY SessionImplementsRing, RingImplementsFeed, PTL
=============================================================================
