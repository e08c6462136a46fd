--------------------------- MODULE PipelineProofs ---------------------------
(***************************************************************************)
(* What holds of the pipeline for every set of prices, every option chain, *)
(* every configuration and every choice of faults.                         *)
(***************************************************************************)
EXTENDS Pipeline, StateStoreProofs

USE DEF None

-----------------------------------------------------------------------------
(* calculateSymbols returns options, whatever the week and the offset.     *)
LEMMA CalculatedAreOptions ==
  ASSUME ProcessOK, NEW week \in Weeks, NEW offset \in Nat, NEW atm \in Candidates,
         CalculationWorks(week, offset)
  PROVE  Calculated(week, offset, atm) \in SUBSET Options
<1>1. week + offset \in Int
  BY PipelineAssumption
<1>2. WeekIndex(week, offset) \in Int /\ WeekIndex(week, offset) >= 0
  BY <1>1 DEF WeekIndex
<1>3. expiries \in Nat /\ WeekIndex(week, offset) \in 0..(expiries - 1)
  BY <1>2, SymbolsAssumption DEF CalculationWorks, ProcessOK
<1> QED BY <1>3, SymbolsAssumption DEF Calculated, ProcessOK, Options

LEMMA CandidateOfPrice == \A ltp \in Prices : ATMOf[ltp] \in Candidates
BY DEF Candidates

(* The newest shift of a queue that is not empty.                          *)
LEMMA LastShift ==
  ASSUME QueueOK, pendingShifts # <<>>
  PROVE  /\ Len(pendingShifts) \in Nat \ {0}
         /\ Last(pendingShifts) = pendingShifts[Len(pendingShifts)]
         /\ Last(pendingShifts) \in Shift
<1>1. Len(pendingShifts) \in Nat \ {0}
  BY EmptySeq DEF QueueOK
<1> QED BY <1>1, ElementOfSeq DEF QueueOK, Last

LEMMA PendingShiftTyped ==
  ASSUME QueueOK, NEW i \in DOMAIN pendingShifts
  PROVE  /\ pendingShifts[i] \in Shift
         /\ pendingShifts[i].atm \in Candidates
         /\ pendingShifts[i].symbols \in SUBSET Options
         /\ pendingShifts[i].at \in 0..now
<1>1. pendingShifts[i] \in Shift
  BY ElementOfSeq, LenProperties DEF QueueOK
<1> QED BY <1>1 DEF Shift

(* A panic in a timer's goroutine leaves a save of one of the shifts.      *)
SavesPending ==
  \E i \in DOMAIN pendingShifts :
    SavePipelineState(pendingShifts[i].atm, pendingShifts[i].symbols)

(* Every step of the pipeline is one of these, or changes nothing.         *)
LEMMA StepCases ==
  ASSUME [Next]_vars
  PROVE  \/ \E ltp \in Prices : RestoreState(ltp)
         \/ \E ltp \in Prices : InitialiseFromPrice(ltp)
         \/ \E ltp \in Prices : InitialisationFails(ltp)
         \/ \E ltp \in Prices : NiftyTickNoShift(ltp)
         \/ \E ltp \in Prices : NiftyTickShift(ltp)
         \/ FireTimer
         \/ FireStray
         \/ EvaluateNothing
         \/ \E i \in DOMAIN pendingShifts : EvaluateMarketMoved(i)
         \/ \E i \in DOMAIN pendingShifts : EvaluateFollowUp(i)
         \/ \E i \in DOMAIN pendingShifts : EvaluateCaughtUp(i)
         \/ IgnoreRejection
         \/ AdvanceExpiry
         \/ AdvanceExpiryFails
         \/ \E how \in {"crashed", "panicked"} :
              Die(how) /\ (UNCHANGED storeVars \/ SavesPending)
         \/ Restart
         \/ ConnectionStep
         \/ StoreStep
         \/ ClockTick
         \/ UNCHANGED vars
BY DEF Next, Evaluate, IndexOutOfRange, EvaluatePanics, Crash, SavesPending

-----------------------------------------------------------------------------
(* What is active stays a candidate strike with options of the exchange.   *)
LEMMA ActiveStep ==
  ASSUME TypeOK, [Next]_vars
  PROVE  ActiveOK'
<1> USE DEF TypeOK
<1>1. ASSUME NEW ltp \in Prices, RestoreState(ltp) PROVE ActiveOK'
  <2>1. redis["atm"].val \in Candidates /\ redis["symbols"].val \in SUBSET Options
    BY <1>1 DEF RestoreState, Loadable, StoreTypeOK
  <2> QED BY <1>1, <2>1 DEF RestoreState, ActiveOK
<1>2. ASSUME NEW ltp \in Prices, InitialiseFromPrice(ltp) PROVE ActiveOK'
  BY <1>2, CalculatedAreOptions, CandidateOfPrice DEF InitialiseFromPrice, ActiveOK
<1>3. ASSUME NEW ltp \in Prices, InitialisationFails(ltp) PROVE ActiveOK'
  BY <1>3, CandidateOfPrice DEF InitialisationFails, ActiveOK
<1>4. ASSUME NEW ltp \in Prices, NiftyTickNoShift(ltp) \/ NiftyTickShift(ltp) PROVE ActiveOK'
  BY <1>4 DEF NiftyTickNoShift, NiftyTickShift, ActiveOK, activeVars
<1>5. ASSUME NEW i \in DOMAIN pendingShifts, Evaluates(i) PROVE ActiveOK'
  BY <1>5, PendingShiftTyped DEF Evaluates, SwitchTo, ActiveOK
<1>6. CASE AdvanceExpiry
  <2>1. activeATM \in Candidates /\ activeExpiryOffset' \in Nat
    BY <1>6 DEF AdvanceExpiry, RejectionOfActive, ActiveOK
  <2> QED BY <1>6, <2>1, CalculatedAreOptions DEF AdvanceExpiry, ActiveOK
<1>7. CASE AdvanceExpiryFails
  BY <1>7 DEF AdvanceExpiryFails, ActiveOK
<1>8. ASSUME NEW how \in {"crashed", "panicked"}, Die(how) PROVE ActiveOK'
  BY <1>8 DEF Die, ActiveOK
<1>9. CASE UNCHANGED <<activeVars, lastNiftyLTP>>
  BY <1>9 DEF ActiveOK, activeVars
<1> QED
  BY <1>1, <1>2, <1>3, <1>4, <1>5, <1>6, <1>7, <1>8, <1>9, StepCases
  DEF FireTimer, FireStray, EvaluateNothing, EvaluateMarketMoved, EvaluateFollowUp,
      EvaluateCaughtUp, IgnoreRejection, Restart, ConnectionStep, StoreStep, ClockTick, vars

(* The process: its clock and its restarts.                                *)
LEMMA ProcessStep ==
  ASSUME TypeOK, [Next]_vars
  PROVE  ProcessOK'
<1> USE DEF TypeOK, ProcessOK
<1>1. ASSUME NEW ltp \in Prices,
             \/ RestoreState(ltp) \/ InitialiseFromPrice(ltp) \/ InitialisationFails(ltp)
             \/ NiftyTickNoShift(ltp) \/ NiftyTickShift(ltp)
      PROVE  ProcessOK'
  BY <1>1 DEF RestoreState, InitialiseFromPrice, InitialisationFails, NiftyTickNoShift,
              NiftyTickShift, procVars
<1>2. ASSUME NEW i \in DOMAIN pendingShifts, Evaluates(i) PROVE ProcessOK'
  BY <1>2 DEF Evaluates, procVars
<1>3. ASSUME NEW how \in {"crashed", "panicked"}, Die(how) PROVE ProcessOK'
  BY <1>3 DEF Die
<1>4. CASE Restart
  BY <1>4 DEF Restart
<1>5. CASE ClockTick
  BY <1>5, PipelineAssumption DEF ClockTick, procVars
<1>6. CASE UNCHANGED <<procVars, now>>
  BY <1>6 DEF procVars
<1> QED
  BY <1>1, <1>2, <1>3, <1>4, <1>5, <1>6, StepCases
  DEF FireTimer, FireStray, EvaluateNothing, EvaluateMarketMoved, EvaluateFollowUp,
      EvaluateCaughtUp, IgnoreRejection, AdvanceExpiry, AdvanceExpiryFails, ConnectionStep,
      StoreStep, vars

(* Every step uses the store as StateStoreProofs expects.                  *)
LEMMA StoreStepIsOperation ==
  ASSUME TypeOK, [Next]_vars
  PROVE  StoreOperation(Candidates, SUBSET Options)
<1> USE DEF TypeOK, StoreOperation
<1>0. ActiveOK'
  BY ActiveStep
<1>1. ASSUME SaveActive, activeATM' \in Candidates PROVE StoreOperation(Candidates, SUBSET Options)
  BY <1>0, <1>1 DEF SaveActive, ActiveOK
<1>2. ASSUME NEW ltp \in Prices,
             RestoreState(ltp) \/ InitialisationFails(ltp)
             \/ NiftyTickNoShift(ltp) \/ NiftyTickShift(ltp)
      PROVE  StoreOperation(Candidates, SUBSET Options)
  BY <1>2 DEF RestoreState, InitialisationFails, NiftyTickNoShift, NiftyTickShift
<1>3. ASSUME NEW ltp \in Prices, InitialiseFromPrice(ltp)
      PROVE  StoreOperation(Candidates, SUBSET Options)
  BY <1>1, <1>3, CandidateOfPrice DEF InitialiseFromPrice
<1>4. ASSUME NEW i \in DOMAIN pendingShifts, Evaluates(i)
      PROVE  StoreOperation(Candidates, SUBSET Options)
  BY <1>1, <1>4, PendingShiftTyped DEF Evaluates, SwitchTo
<1>5. CASE AdvanceExpiry
  BY <1>1, <1>5 DEF AdvanceExpiry, RejectionOfActive, ActiveOK
<1>6. CASE SavesPending
  BY <1>6, PendingShiftTyped DEF SavesPending
<1>9. CASE Restart
  BY <1>9 DEF Restart
<1>7. CASE StoreStep
  BY <1>7 DEF StoreStep
<1>8. CASE UNCHANGED storeVars
  BY <1>8
<1> QED
  BY <1>2, <1>3, <1>4, <1>5, <1>6, <1>7, <1>8, <1>9, StepCases
  DEF FireTimer, FireStray, EvaluateNothing, EvaluateMarketMoved, EvaluateFollowUp,
      EvaluateCaughtUp, IgnoreRejection, AdvanceExpiryFails, ConnectionStep,
      ClockTick, vars

-----------------------------------------------------------------------------
(* The queue as time passes. *)
LEMMA ShiftLater ==
  ASSUME TypeOK, now' \in Nat, now' >= now
  PROVE  Seq(Shift) \subseteq Seq(Shift')
<1>1. Shift \subseteq Shift'
  BY DEF Shift, TypeOK, ProcessOK
<1> QED BY <1>1, SeqMonotonic

(* startShift appends one shift, of now. *)
LEMMA StartShiftQueue ==
  ASSUME TypeOK, NEW pend \in Seq(Shift), NEW ltp \in Prices,
         StartShift(pend, ATMOf[ltp]), now' = now
  PROVE  QueueOK'
<1>1. PICK week \in Weeks :
        /\ CalculationWorks(week, activeExpiryOffset)
        /\ Len(pend) < MaxPending
        /\ pendingShifts' = Append(pend, [atm |-> ATMOf[ltp],
                                          symbols |-> Calculated(week, activeExpiryOffset, ATMOf[ltp]),
                                          at |-> now])
  BY DEF StartShift
<1>2. Calculated(week, activeExpiryOffset, ATMOf[ltp]) \in SUBSET Options
  BY <1>1, CalculatedAreOptions, CandidateOfPrice DEF TypeOK, ActiveOK
<1>3. [atm |-> ATMOf[ltp], symbols |-> Calculated(week, activeExpiryOffset, ATMOf[ltp]),
       at |-> now] \in Shift
  BY <1>2, CandidateOfPrice DEF Shift, TypeOK, ProcessOK
<1>4. pendingShifts' \in Seq(Shift) /\ Len(pendingShifts') = Len(pend) + 1 /\ Len(pend) \in Nat
  BY <1>1, <1>3, AppendProperties, LenProperties
<1>5. Shift' = Shift
  BY DEF Shift
<1> QED BY <1>1, <1>4, <1>5, PipelineAssumption DEF QueueOK

(* The price that starts a new cycle after a switch is a tick's. *)
LEMMA MovedPrice ==
  ASSUME ActiveOK, NEW atm, MarketMovedOn(atm)
  PROVE  lastNiftyLTP \in Prices
BY DEF ActiveOK, MarketMovedOn

LEMMA QueueStep ==
  ASSUME TypeOK, [Next]_vars
  PROVE  QueueOK'
<1> USE DEF TypeOK
<1>1. ASSUME now' = now, pendingShifts' = pendingShifts PROVE QueueOK'
  BY <1>1 DEF QueueOK, Shift
<1>2. ASSUME pendingShifts' = <<>> PROVE QueueOK'
  <2>1. pendingShifts' \in Seq(Shift') /\ Len(pendingShifts') = 0
    BY <1>2, EmptySeq
  <2> QED BY <2>1, PipelineAssumption DEF QueueOK
<1>3. ASSUME NEW ltp \in Prices, NiftyTickShift(ltp) PROVE QueueOK'
  <2>1. CASE StartShift(pendingShifts, ATMOf[ltp])
    BY <1>3, <2>1, StartShiftQueue DEF NiftyTickShift, QueueOK
  <2>2. CASE StartShiftFails
    BY <1>1, <1>3, <2>2 DEF NiftyTickShift, StartShiftFails, shiftVars
  <2> QED BY <1>3, <2>1, <2>2 DEF NiftyTickShift
<1>4. ASSUME NEW i \in DOMAIN pendingShifts, EvaluateMarketMoved(i) PROVE QueueOK'
  <2>1. lastNiftyLTP \in Prices
    BY <1>4, MovedPrice DEF EvaluateMarketMoved
  <2>2. <<>> \in Seq(Shift)
    BY EmptySeq
  <2> QED BY <1>4, <2>1, <2>2, StartShiftQueue DEF EvaluateMarketMoved, Evaluates
<1>5. ASSUME NEW i \in DOMAIN pendingShifts, EvaluateFollowUp(i) PROVE QueueOK'
  <2>1. pendingShifts \in Seq(Shift) /\ Len(pendingShifts) \in Nat /\ i \in 1..Len(pendingShifts)
    BY LenProperties DEF QueueOK
  <2>2. pendingShifts' = SubSeq(pendingShifts, i + 1, Len(pendingShifts))
    BY <1>5 DEF EvaluateFollowUp
  <2>3. /\ pendingShifts' \in Seq(Shift)
        /\ Len(pendingShifts') = Len(pendingShifts) - i
    <3>1. \A j \in 1..Len(pendingShifts) : pendingShifts[j] \in Shift
      BY <2>1, ElementOfSeq
    <3> QED BY <2>1, <2>2, <3>1, SubSeqProperties
  <2>4. Shift' = Shift
    BY <1>5 DEF EvaluateFollowUp, Evaluates, Shift
  <2> QED BY <2>1, <2>3, <2>4, PipelineAssumption DEF QueueOK
<1>6. CASE ClockTick
  <2>1. pendingShifts' = pendingShifts /\ now' \in Nat /\ now' >= now
    BY <1>6, PipelineAssumption DEF ClockTick, shiftVars, ProcessOK
  <2> QED BY <2>1, ShiftLater DEF QueueOK
<1>7. ASSUME NEW how \in {"crashed", "panicked"}, Die(how) PROVE QueueOK'
  BY <1>2, <1>7 DEF Die
<1>8. ASSUME NEW i \in DOMAIN pendingShifts, EvaluateCaughtUp(i) PROVE QueueOK'
  BY <1>2, <1>8 DEF EvaluateCaughtUp
<1> QED
  BY <1>1, <1>3, <1>4, <1>5, <1>6, <1>7, <1>8, StepCases
  DEF RestoreState, InitialiseFromPrice, InitialisationFails, NiftyTickNoShift, FireTimer,
      FireStray, EvaluateNothing, IgnoreRejection, AdvanceExpiry, AdvanceExpiryFails, Restart,
      ConnectionStep, StoreStep, shiftVars, vars

-----------------------------------------------------------------------------
(* Dropping the reference to a timer leaves it among the strays. *)
LEMMA AbandonedTimers ==
  ASSUME TypeOK
  PROVE  Abandoned \in Seq(Nat)
BY AppendProperties DEF Abandoned, TypeOK, TimersOK

LEMMA StartTimerStep ==
  ASSUME TypeOK, StartTimer
  PROVE  /\ timerTarget' \in Nat /\ maxTimerDeadline' \in Nat
         /\ shiftTimer' = timerTarget'
         /\ strays' \in Seq(Nat)
BY AbandonedTimers, PipelineAssumption DEF StartTimer, TypeOK, ProcessOK

LEMMA ExtendTimerStep ==
  ASSUME TypeOK, ExtendTimer
  PROVE  /\ timerTarget' \in Nat /\ maxTimerDeadline' = maxTimerDeadline
         /\ timerTarget' <= maxTimerDeadline
         /\ shiftTimer' = timerTarget'
         /\ strays' = strays
<1>1. PICK extra \in Extras : timerTarget' = ExtendedTarget(extra)
  BY DEF ExtendTimer
<1>2. extra \in Nat /\ FallbackExtra \in Nat /\ timerTarget \in Nat /\ maxTimerDeadline \in Nat
  BY PipelineAssumption DEF TypeOK, TimersOK
<1>3. ExtendedTarget(extra) \in Nat /\ ExtendedTarget(extra) <= maxTimerDeadline
  BY <1>2 DEF ExtendedTarget
<1> QED BY <1>1, <1>3 DEF ExtendTimer

LEMMA StartShiftTimers ==
  ASSUME TypeOK, NEW pend, NEW atm, StartShift(pend, atm)
  PROVE  /\ timerTarget' \in Nat /\ maxTimerDeadline' \in Nat
         /\ shiftTimer' = timerTarget'
         /\ strays' \in Seq(Nat)
BY StartTimerStep, ExtendTimerStep DEF StartShift, TypeOK, TimersOK

(* A goroutine that got the lock is one less in the queue for it. *)
LEMMA TakeLockStep ==
  ASSUME TypeOK, TakeLock
  PROVE  evals' \in Seq(0..now) /\ evals # <<>>
BY RemoveAtProperties, EmptySeq DEF TakeLock, TypeOK, TimersOK

LEMMA FiredTimer ==
  ASSUME TypeOK, evals' = Append(evals, now)
  PROVE  evals' \in Seq(0..now) /\ evals' # <<>>
<1>1. now \in 0..now /\ evals \in Seq(0..now)
  BY PipelineAssumption DEF TypeOK, TimersOK, ProcessOK
<1>2. evals' \in Seq(0..now) /\ Len(evals') = Len(evals) + 1 /\ Len(evals) \in Nat
  BY <1>1, AppendProperties, LenProperties
<1>3. Len(evals') # 0
  BY <1>2
<1> QED BY <1>2, <1>3, EmptySeq

(* An armed timer is armed for the current target. *)
LEMMA TimersStep ==
  ASSUME TypeOK, [Next]_vars
  PROVE  TimersOK'
<1> USE DEF TypeOK
<1>1. ASSUME UNCHANGED <<shiftTimer, timerTarget, maxTimerDeadline, strays, evals, now>>
      PROVE  TimersOK'
  BY <1>1 DEF TimersOK
<1>2. ASSUME NEW ltp \in Prices, NiftyTickShift(ltp) PROVE TimersOK'
  <2>1. CASE StartShift(pendingShifts, ATMOf[ltp])
    BY <1>2, <2>1, StartShiftTimers DEF NiftyTickShift, TimersOK
  <2>2. CASE StartShiftFails
    BY <1>1, <1>2, <2>2 DEF NiftyTickShift, StartShiftFails, shiftVars
  <2> QED BY <1>2, <2>1, <2>2 DEF NiftyTickShift
<1>3. CASE FireTimer
  BY <1>3, FiredTimer DEF FireTimer, TimersOK
<1>4. CASE FireStray
  <2>1. strays' \in Seq(Nat)
    BY <1>4, RemoveAtProperties DEF FireStray, TimersOK
  <2>2. evals' \in Seq(0..now)
    BY <1>4, FiredTimer DEF FireStray
  <2> QED BY <1>4, <2>1, <2>2 DEF FireStray, TimersOK
<1>5. CASE EvaluateNothing
  BY <1>5, TakeLockStep DEF EvaluateNothing, TimersOK, shiftVars
<1>6. ASSUME NEW i \in DOMAIN pendingShifts, EvaluateMarketMoved(i) PROVE TimersOK'
  BY <1>6, TakeLockStep, StartShiftTimers DEF EvaluateMarketMoved, Evaluates, TimersOK
<1>7. ASSUME NEW i \in DOMAIN pendingShifts, EvaluateFollowUp(i) PROVE TimersOK'
  <2>1. timerTarget' \in Nat
    BY <1>7, PipelineAssumption DEF EvaluateFollowUp, ProcessOK
  <2> QED
    BY <1>7, <2>1, TakeLockStep, AbandonedTimers DEF EvaluateFollowUp, Evaluates, TimersOK
<1>8. ASSUME NEW i \in DOMAIN pendingShifts, EvaluateCaughtUp(i) PROVE TimersOK'
  BY <1>8, TakeLockStep, AbandonedTimers DEF EvaluateCaughtUp, Evaluates, TimersOK
<1>9. ASSUME NEW how \in {"crashed", "panicked"}, Die(how) PROVE TimersOK'
  <2>1. strays' \in Seq(Nat) /\ evals' \in Seq(0..now)
    BY <1>9, EmptySeq DEF Die
  <2> QED BY <1>9, <2>1 DEF Die, TimersOK
<1>10. CASE ClockTick
  <2>1. now \in Nat /\ now' = now + 1
    BY <1>10, PipelineAssumption DEF ClockTick, ProcessOK
  <2>2. 0..now \subseteq 0..now'
    BY <2>1
  <2>3. evals' \in Seq(0..now')
    BY <1>10, <2>2, SeqMonotonic DEF ClockTick, TimersOK
  <2> QED BY <1>10, <2>3 DEF ClockTick, TimersOK, shiftVars
<1> QED
  BY <1>1, <1>2, <1>3, <1>4, <1>5, <1>6, <1>7, <1>8, <1>9, <1>10, StepCases
  DEF RestoreState, InitialiseFromPrice, InitialisationFails, NiftyTickNoShift,
      IgnoreRejection, AdvanceExpiry, AdvanceExpiryFails, Restart, ConnectionStep, StoreStep,
      shiftVars, vars

-----------------------------------------------------------------------------
(* Subscriptions and reconnects: the exchange streams no more than the     *)
(* client's own list.                                                      *)
LEMMA SubscribeStep ==
  ASSUME ClientOK, NEW syms \in SUBSET Options, NEW msgs, SubscribeUnread(syms, msgs)
  PROVE  ClientOK'
BY DEF ClientOK, SubscribeUnread, Granted, Options

LEMMA StartShiftClient ==
  ASSUME TypeOK, NEW pend, NEW ltp \in Prices, StartShift(pend, ATMOf[ltp])
  PROVE  ClientOK'
<1>1. PICK week \in Weeks :
        /\ CalculationWorks(week, activeExpiryOffset)
        /\ Subscribe(Calculated(week, activeExpiryOffset, ATMOf[ltp]))
  BY DEF StartShift
<1>2. Calculated(week, activeExpiryOffset, ATMOf[ltp]) \in SUBSET Options
  BY <1>1, CalculatedAreOptions, CandidateOfPrice DEF TypeOK, ActiveOK
<1> QED BY <1>1, <1>2, SubscribeStep DEF Subscribe, TypeOK

LEMMA ClientStep ==
  ASSUME TypeOK, [Next]_vars
  PROVE  ClientOK'
<1> USE DEF TypeOK
<1>0. activeSymbols' \in SUBSET Options
  BY ActiveStep DEF ActiveOK
<1>1. ASSUME UNCHANGED <<connected, symbols, feed>> PROVE ClientOK'
  BY <1>1 DEF ClientOK
<1>2. ASSUME NEW ltp \in Prices, RestoreState(ltp) \/ InitialiseFromPrice(ltp)
      PROVE  ClientOK'
  BY <1>0, <1>2, SubscribeStep DEF RestoreState, InitialiseFromPrice, Subscribe
<1>3. ASSUME NEW ltp \in Prices, NiftyTickShift(ltp) PROVE ClientOK'
  <2>1. CASE StartShift(pendingShifts, ATMOf[ltp])
    BY <2>1, StartShiftClient
  <2>2. CASE StartShiftFails
    BY <1>1, <2>2 DEF StartShiftFails, clientVars
  <2> QED BY <1>3, <2>1, <2>2 DEF NiftyTickShift
<1>4. ASSUME NEW i \in DOMAIN pendingShifts, EvaluateMarketMoved(i) PROVE ClientOK'
  BY <1>4, MovedPrice, StartShiftClient DEF EvaluateMarketMoved
<1>5. ASSUME NEW syms, Unsubscribe(syms) PROVE ClientOK'
  BY <1>5 DEF Unsubscribe, ClientOK
<1>6. CASE AdvanceExpiry
  BY <1>0, <1>6, SubscribeStep DEF AdvanceExpiry
<1>7. ASSUME NEW how \in {"crashed", "panicked"}, Die(how) PROVE ClientOK'
  BY <1>7 DEF Die, ClientDown, ClientOK
<1>8. CASE Restart
  BY <1>8, SubscriptionsAssumption DEF Restart, ClientBoot, ClientOK
<1>9. CASE ConnectionStep
  BY <1>9 DEF ConnectionStep, Disconnect, Reconnect, Granted, ClientOK
<1> QED
  BY <1>1, <1>2, <1>3, <1>4, <1>5, <1>6, <1>7, <1>8, <1>9, StepCases
  DEF InitialisationFails, NiftyTickNoShift, FireTimer, FireStray, EvaluateNothing,
      EvaluateFollowUp, EvaluateCaughtUp, IgnoreRejection, AdvanceExpiryFails, StoreStep,
      ClockTick, clientVars, vars

-----------------------------------------------------------------------------
(* The types and the order of the batches, together, are inductive.        *)
LEMMA InitTyped ==
  ASSUME Init
  PROVE  TypeOK /\ BatchOrder
<1>1. ActiveOK
  BY DEF Init, ActiveOK
<1>2. QueueOK
  BY EmptySeq, PipelineAssumption DEF Init, QueueOK
<1>3. TimersOK
  <2>1. <<>> \in Seq(Nat) /\ <<>> \in Seq(0..now)
    BY EmptySeq
  <2> QED BY <2>1 DEF Init, TimersOK
<1>4. ClientOK
  BY SubscriptionsAssumption DEF Init, ClientOK
<1>5. ProcessOK
  <2>1. now \in 0..MaxTime
    BY PipelineAssumption DEF Init
  <2>2. initialSetupDone \in BOOLEAN
    BY Zenon DEF Init
  <2> QED BY <2>1, <2>2 DEF Init, ProcessOK
<1>6. /\ DOMAIN redis = {"atm", "symbols", "date"}
      /\ \A k \in DOMAIN redis : redis[k].day = 0
      /\ saves = <<>> /\ DOMAIN saves = {} /\ Len(saves) = 0 /\ today = 1
  BY EmptySeq DEF Init, EmptyRedis
<1>7. saves \in Seq(SaveRecord(Candidates, Options))
  BY <1>6, EmptySeq
<1>8. StoreTypeOK(Candidates, SUBSET Options) /\ BatchOrder
  BY <1>6, <1>7, StateStoreAssumption DEF StoreTypeOK, SaveRecord, BatchOrder
<1> QED BY <1>1, <1>2, <1>3, <1>4, <1>5, <1>8 DEF TypeOK

LEMMA TypedStep ==
  ASSUME TypeOK, BatchOrder, [Next]_vars
  PROVE  TypeOK' /\ BatchOrder'
<1>1. StoreTypeOK(Candidates, SUBSET Options)' /\ BatchOrder'
  BY StoreStepIsOperation, StoreOperationKeepsStore DEF TypeOK
<1> QED
  BY <1>1, ActiveStep, QueueStep, TimersStep, ClientStep, ProcessStep DEF TypeOK

LEMMA PipelineTyped == Spec => []TypeOK /\ []BatchOrder
<1>1. (TypeOK /\ BatchOrder) /\ [Next]_vars => (TypeOK /\ BatchOrder)'
  BY TypedStep
<1> QED BY InitTyped, <1>1, PTL DEF Spec

(* Every variable of the pipeline keeps its range in every behaviour: the  *)
(* pair traded and the shifts buffered are options of candidate strikes,   *)
(* an armed timer is armed for the target in force.                        *)
THEOREM PipelineTypeCorrect == Spec => []TypeOK
BY PipelineTyped, PTL

(* Whenever a restart finds a state it may use, strike and symbols were    *)
(* both written on this trading day, wherever batches were cut off or      *)
(* overtook each other.                                                    *)
THEOREM RestoresTodayOnly == Spec => []NeverRestoresYesterday
<1>1. BatchOrder => NeverRestoresYesterday
  BY DEF BatchOrder, NeverRestoresYesterday, Loadable
<1> QED BY <1>1, PipelineTyped, PTL

-----------------------------------------------------------------------------
(* After a countdown was started or extended, its timer is armed. *)
LEMMA ArmedByStartShift ==
  ASSUME TypeOK, NEW pend, NEW atm, StartShift(pend, atm)
  PROVE  shiftTimer' # None
BY StartShiftTimers

(* No countdown hangs, whichever stale timers fire and whoever gets the    *)
(* lock first.                                                             *)
THEOREM CountdownsAreArmed == Spec => []CountdownIsArmed
<1>1. Init => CountdownIsArmed
  BY DEF Init, CountdownIsArmed
<1>2. ASSUME TypeOK, CountdownIsArmed, [Next]_vars PROVE CountdownIsArmed'
  <2>1. ASSUME UNCHANGED <<pendingShifts, shiftTimer, evals>> PROVE CountdownIsArmed'
    BY <1>2, <2>1 DEF CountdownIsArmed
  <2>2. ASSUME NEW ltp \in Prices, NiftyTickShift(ltp) PROVE CountdownIsArmed'
    <3>1. CASE StartShift(pendingShifts, ATMOf[ltp])
      BY <1>2, <3>1, ArmedByStartShift DEF CountdownIsArmed
    <3>2. CASE StartShiftFails
      BY <2>1, <2>2, <3>2 DEF NiftyTickShift, StartShiftFails, shiftVars
    <3> QED BY <2>2, <3>1, <3>2 DEF NiftyTickShift
  <2>3. CASE FireTimer \/ FireStray
    BY <1>2, <2>3, FiredTimer DEF FireTimer, FireStray, CountdownIsArmed
  <2>4. CASE EvaluateNothing
    BY <2>4 DEF EvaluateNothing, shiftVars, CountdownIsArmed
  <2>5. ASSUME NEW i \in DOMAIN pendingShifts, EvaluateMarketMoved(i) PROVE CountdownIsArmed'
    BY <1>2, <2>5, ArmedByStartShift DEF EvaluateMarketMoved, CountdownIsArmed
  <2>6. ASSUME NEW i \in DOMAIN pendingShifts, EvaluateFollowUp(i) PROVE CountdownIsArmed'
    BY <1>2, <2>6, TimersStep DEF EvaluateFollowUp, TimersOK, CountdownIsArmed
  <2>7. ASSUME pendingShifts' = <<>> PROVE CountdownIsArmed'
    BY <2>7 DEF CountdownIsArmed
  <2> QED
    BY <1>2, <2>1, <2>2, <2>3, <2>4, <2>5, <2>6, <2>7, StepCases
    DEF RestoreState, InitialiseFromPrice, InitialisationFails, NiftyTickNoShift,
        EvaluateCaughtUp, IgnoreRejection, AdvanceExpiry, AdvanceExpiryFails, Die, Restart,
        ConnectionStep, StoreStep, ClockTick, shiftVars, vars
<1> QED BY <1>1, <1>2, PipelineTypeCorrect, PTL DEF Spec

-----------------------------------------------------------------------------
(* No tick is without a price, or below half a strike: 0 is then never a   *)
(* strike, and a pipeline with the strike 0 is one that did not start.     *)
PositiveMarket == \A ltp \in Prices : ltp > 0 /\ ATMOf[ltp] # 0

(* What the queue, the boot and the process have to do with each other.    *)
LifeCycle ==
  /\ pendingShifts # <<>> => initialSetupDone /\ expiries > 0
  /\ initialSetupDone => activeATM # 0
  /\ ~initialSetupDone => lastNiftyLTP = 0
  /\ proc # "running" => ~initialSetupDone

OnMarket == LifeCycle /\ LatestPendingIsLive /\ StableMeansOnMarket

LEMMA WorksMeansExpiries ==
  ASSUME TypeOK, NEW week \in Weeks, CalculationWorks(week, activeExpiryOffset)
  PROVE  expiries > 0
<1>1. week + activeExpiryOffset \in Int /\ expiries \in Nat
  BY PipelineAssumption, SymbolsAssumption DEF TypeOK, ActiveOK, ProcessOK
<1> QED BY <1>1 DEF CalculationWorks, WeekIndex

(* startShift makes its strike the newest of the queue. *)
LEMMA StartShiftLast ==
  ASSUME TypeOK, NEW pend \in Seq(Shift), NEW ltp \in Prices, StartShift(pend, ATMOf[ltp])
  PROVE  /\ pendingShifts' # <<>> /\ Last(pendingShifts').atm = ATMOf[ltp]
         /\ expiries > 0
<1>1. PICK week \in Weeks :
        /\ CalculationWorks(week, activeExpiryOffset)
        /\ pendingShifts' = Append(pend, [atm |-> ATMOf[ltp],
                                          symbols |-> Calculated(week, activeExpiryOffset, ATMOf[ltp]),
                                          at |-> now])
  BY DEF StartShift
<1> DEFINE shift == [atm |-> ATMOf[ltp],
                     symbols |-> Calculated(week, activeExpiryOffset, ATMOf[ltp]), at |-> now]
<1>2. Calculated(week, activeExpiryOffset, ATMOf[ltp]) \in SUBSET Options
  BY <1>1, CalculatedAreOptions, CandidateOfPrice DEF TypeOK, ActiveOK
<1>3. shift \in Shift /\ shift.atm = ATMOf[ltp]
  BY <1>2, CandidateOfPrice DEF Shift, TypeOK, ProcessOK
<1>4. pendingShifts' = Append(pend, shift)
  BY <1>1
<1> HIDE DEF shift
<1>5. /\ Len(pend) \in Nat
      /\ Len(pendingShifts') = Len(pend) + 1
      /\ pendingShifts'[Len(pend) + 1] = shift
  BY <1>3, <1>4, AppendProperties, LenProperties
<1>6. pendingShifts' # <<>>
  BY <1>5, EmptySeq
<1> QED BY <1>1, <1>3, <1>5, <1>6, WorksMeansExpiries DEF Last

(* A tick finds the newest candidate, or moves it. *)
LEMMA TickOnMarket ==
  ASSUME TypeOK, OnMarket, NEW ltp \in Prices, NiftyTickNoShift(ltp) \/ NiftyTickShift(ltp)
  PROVE  OnMarket'
<1> USE DEF OnMarket, LifeCycle
<1>1. /\ initialSetupDone /\ activeATM # 0
      /\ lastNiftyLTP' = ltp
      /\ UNCHANGED <<activeATM, initialSetupDone, expiries, proc>>
  BY DEF NiftyTickNoShift, NiftyTickShift, activeVars, procVars
<1>2. CASE NiftyTickNoShift(ltp)
  BY <1>1, <1>2 DEF NiftyTickNoShift, Moves, ReferenceATM, shiftVars, LatestPendingIsLive,
                    StableMeansOnMarket
<1>3. CASE NiftyTickShift(ltp) /\ StartShift(pendingShifts, ATMOf[ltp])
  <2>1. /\ pendingShifts' # <<>> /\ Last(pendingShifts').atm = ATMOf[ltp]
        /\ expiries > 0
    BY <1>3, StartShiftLast DEF TypeOK, QueueOK
  <2> QED BY <1>1, <2>1 DEF LatestPendingIsLive, StableMeansOnMarket
<1>4. CASE NiftyTickShift(ltp) /\ StartShiftFails
  BY <1>1, <1>4 DEF StartShiftFails, CalculationFails, shiftVars, LatestPendingIsLive,
                    StableMeansOnMarket
<1> QED BY <1>2, <1>3, <1>4 DEF NiftyTickShift

(* What is left of the queue after a follow-up ends in the newest shift.   *)
LEMMA FollowUpLast ==
  ASSUME QueueOK, NEW i \in DOMAIN pendingShifts, EvaluateFollowUp(i)
  PROVE  pendingShifts' # <<>> /\ Last(pendingShifts') = Last(pendingShifts)
<1>1. pendingShifts \in Seq(Shift) /\ Len(pendingShifts) \in Nat /\ i \in 1..Len(pendingShifts)
  BY LenProperties DEF QueueOK
<1>2. i # Len(pendingShifts)
  BY DEF EvaluateFollowUp, Last
<1>3. pendingShifts' = SubSeq(pendingShifts, i + 1, Len(pendingShifts))
  BY DEF EvaluateFollowUp
<1>4. \A j \in 1..Len(pendingShifts) : pendingShifts[j] \in Shift
  BY <1>1, ElementOfSeq
<1>5. /\ Len(pendingShifts') = Len(pendingShifts) - i
      /\ \A j \in 1..(Len(pendingShifts) - i) : pendingShifts'[j] = pendingShifts[i + j]
  BY <1>1, <1>2, <1>3, <1>4, SubSeqProperties
<1>6. Len(pendingShifts) - i \in 1..(Len(pendingShifts) - i)
      /\ i + (Len(pendingShifts) - i) = Len(pendingShifts)
  BY <1>1, <1>2
<1>7. pendingShifts'[Len(pendingShifts) - i] = pendingShifts[Len(pendingShifts)]
  BY <1>5, <1>6
<1>8. pendingShifts' # <<>>
  BY <1>5, <1>6, EmptySeq
<1> QED BY <1>5, <1>7, <1>8 DEF Last

(* An evaluation switches to the live strike or leaves a countdown for it. *)
LEMMA EvaluationOnMarket ==
  ASSUME TypeOK, OnMarket, PositiveMarket, NEW i \in DOMAIN pendingShifts,
         EvaluateMarketMoved(i) \/ EvaluateFollowUp(i) \/ EvaluateCaughtUp(i)
  PROVE  OnMarket'
<1> USE DEF OnMarket, LifeCycle
<1>1. pendingShifts # <<>>
  BY LenProperties, EmptySeq DEF TypeOK, QueueOK
<1>2. /\ activeATM' = pendingShifts[i].atm
      /\ UNCHANGED <<lastNiftyLTP, initialSetupDone, expiries, proc>>
  BY DEF EvaluateMarketMoved, EvaluateFollowUp, EvaluateCaughtUp, Evaluates, SwitchTo, procVars
<1>3. activeATM' # 0
  BY <1>2, PendingShiftTyped DEF TypeOK, PositiveMarket, Candidates
<1>4. CASE EvaluateMarketMoved(i)
  <2>1. lastNiftyLTP \in Prices
    BY <1>4, MovedPrice DEF EvaluateMarketMoved, TypeOK
  <2>2. <<>> \in Seq(Shift)
    BY EmptySeq
  <2>3. pendingShifts' # <<>> /\ Last(pendingShifts').atm = ATMOf[lastNiftyLTP]
    BY <1>4, <2>1, <2>2, StartShiftLast DEF EvaluateMarketMoved
  <2> QED BY <1>1, <1>2, <1>3, <2>3 DEF LatestPendingIsLive, StableMeansOnMarket
<1>5. CASE EvaluateFollowUp(i)
  BY <1>1, <1>2, <1>3, <1>5, FollowUpLast DEF TypeOK, LatestPendingIsLive, StableMeansOnMarket
<1>6. CASE EvaluateCaughtUp(i)
  BY <1>1, <1>2, <1>3, <1>6
  DEF EvaluateCaughtUp, MarketMovedOn, LatestPendingIsLive, StableMeansOnMarket
<1> QED BY <1>4, <1>5, <1>6

LEMMA OnMarketStep ==
  ASSUME TypeOK, OnMarket, PositiveMarket, [Next]_vars
  PROVE  OnMarket'
<1>1. ASSUME NEW ltp \in Prices, RestoreState(ltp) \/ InitialiseFromPrice(ltp) PROVE OnMarket'
  <2>1. /\ activeATM' # 0 /\ initialSetupDone' /\ proc = "running"
        /\ lastNiftyLTP = 0 /\ pendingShifts = <<>>
        /\ UNCHANGED <<lastNiftyLTP, pendingShifts, expiries, proc>>
    BY <1>1, StateStoreAssumption
    DEF RestoreState, InitialiseFromPrice, TickArrives, Running, OnMarket, LifeCycle,
        PositiveMarket, shiftVars, TypeOK, StoreTypeOK, Loadable
  <2> QED BY <2>1 DEF OnMarket, LifeCycle, LatestPendingIsLive, StableMeansOnMarket
<1>2. ASSUME UNCHANGED <<lastNiftyLTP, pendingShifts, procVars>>,
             activeATM' = activeATM \/ ~initialSetupDone
      PROVE  OnMarket'
  BY <1>2 DEF OnMarket, LifeCycle, LatestPendingIsLive, StableMeansOnMarket, procVars
<1>3. ASSUME NEW how \in {"crashed", "panicked"}, Die(how) PROVE OnMarket'
  BY <1>3 DEF Die, OnMarket, LifeCycle, LatestPendingIsLive, StableMeansOnMarket
<1>4. CASE Restart
  BY <1>4 DEF Restart, OnMarket, LifeCycle, LatestPendingIsLive, StableMeansOnMarket, shiftVars
<1> QED
  BY <1>1, <1>2, <1>3, <1>4, StepCases, TickOnMarket, EvaluationOnMarket
  DEF InitialisationFails, FireTimer, FireStray, EvaluateNothing, IgnoreRejection,
      AdvanceExpiry, AdvanceExpiryFails, ConnectionStep, StoreStep, ClockTick, activeVars,
      shiftVars, vars

(* As long as every tick has a price, the newest candidate is the strike   *)
(* of the latest one, and with no countdown running so is what is traded.  *)
THEOREM PipelineFollowsMarket ==
  ASSUME PositiveMarket
  PROVE  Spec => [](LatestPendingIsLive /\ StableMeansOnMarket)
<1>1. Init => OnMarket
  BY DEF Init, OnMarket, LifeCycle, LatestPendingIsLive, StableMeansOnMarket
<1>2. TypeOK /\ OnMarket /\ [Next]_vars => OnMarket'
  BY OnMarketStep, PositiveMarket
<1>3. OnMarket => LatestPendingIsLive /\ StableMeansOnMarket
  BY DEF OnMarket
<1> QED BY <1>1, <1>2, <1>3, PipelineTypeCorrect, PTL DEF Spec

-----------------------------------------------------------------------------
(* The client's own list covers what is traded or buffered, and a dead     *)
(* process has neither.                                                    *)
ListCoversInterest ==
  /\ proc = "running" => activeSymbols \cup SymbolsOf(pendingShifts) \cup {Index} \subseteq symbols
  /\ proc # "running" => ~connected /\ activeSymbols = {} /\ pendingShifts = <<>>

InterestCovered == ListCoversInterest /\ FeedCoversInterest

LEMMA SymbolsOfEmpty == SymbolsOf(<<>>) = {}
BY DEF SymbolsOf

LEMMA SymbolsOfElement ==
  ASSUME NEW i \in DOMAIN pendingShifts
  PROVE  pendingShifts[i].symbols \subseteq SymbolsOf(pendingShifts)
BY DEF SymbolsOf

(* Subscribing to everything that becomes of interest keeps it covered.    *)
LEMMA SubscribeCovers ==
  ASSUME InterestCovered, proc = "running", proc' = "running",
         NEW syms, NEW msgs, SubscribeUnread(syms, msgs),
         (activeSymbols \cup SymbolsOf(pendingShifts))'
           \subseteq activeSymbols \cup SymbolsOf(pendingShifts) \cup syms
  PROVE  InterestCovered'
BY DEF InterestCovered, ListCoversInterest, FeedCoversInterest, SubscribeUnread, Granted

(* Nothing happens to client, queue and active pair. *)
LEMMA UnchangedCovers ==
  ASSUME InterestCovered,
         UNCHANGED <<proc, connected, symbols, feed, activeSymbols, pendingShifts>>
  PROVE  InterestCovered'
BY DEF InterestCovered, ListCoversInterest, FeedCoversInterest, Granted, SymbolsOf

(* startShift subscribes to the symbols of the shift it appends.           *)
LEMMA StartShiftCovers ==
  ASSUME TypeOK, InterestCovered, NEW pend \in Seq(Shift), NEW ltp \in Prices,
         StartShift(pend, ATMOf[ltp]),
         proc = "running", proc' = "running",
         activeSymbols' \cup SymbolsOf(pend)
           \subseteq activeSymbols \cup SymbolsOf(pendingShifts)
  PROVE  InterestCovered'
<1>1. PICK week \in Weeks :
        /\ CalculationWorks(week, activeExpiryOffset)
        /\ Subscribe(Calculated(week, activeExpiryOffset, ATMOf[ltp]))
        /\ pendingShifts' = Append(pend, [atm |-> ATMOf[ltp],
                                          symbols |-> Calculated(week, activeExpiryOffset, ATMOf[ltp]),
                                          at |-> now])
  BY DEF StartShift
<1> DEFINE syms == Calculated(week, activeExpiryOffset, ATMOf[ltp])
           shift == [atm |-> ATMOf[ltp], symbols |-> syms, at |-> now]
<1>2. syms \in SUBSET Options
  BY <1>1, CalculatedAreOptions, CandidateOfPrice DEF TypeOK, ActiveOK
<1>3. shift \in Shift /\ shift.symbols = syms
  BY <1>2, CandidateOfPrice DEF Shift, TypeOK, ProcessOK
<1>4. pendingShifts' = Append(pend, shift) /\ Subscribe(syms)
  BY <1>1
<1> HIDE DEF shift, syms
<1>5. /\ Len(pend) \in Nat /\ DOMAIN pend = 1..Len(pend)
      /\ DOMAIN pendingShifts' = 1..(Len(pend) + 1)
      /\ \A i \in 1..Len(pend) : pendingShifts'[i] = pend[i]
      /\ pendingShifts'[Len(pend) + 1] = shift
  BY <1>3, <1>4, AppendProperties, LenProperties
<1>6. \A i \in DOMAIN pendingShifts' : pendingShifts'[i].symbols \subseteq SymbolsOf(pend) \cup syms
  <2> TAKE i \in DOMAIN pendingShifts'
  <2>1. CASE i = Len(pend) + 1
    BY <1>3, <1>5, <2>1
  <2>2. CASE i # Len(pend) + 1
    BY <1>5, <2>2 DEF SymbolsOf
  <2> QED BY <2>1, <2>2
<1>7. SymbolsOf(pendingShifts)' \subseteq SymbolsOf(pend) \cup syms
  BY <1>6 DEF SymbolsOf
<1>8. (activeSymbols \cup SymbolsOf(pendingShifts))'
        \subseteq activeSymbols \cup SymbolsOf(pendingShifts) \cup syms
  BY <1>7
<1> QED BY <1>4, <1>8, SubscribeCovers DEF Subscribe

(* The clean-up of a cycle spares what the new cycle shares with the old.  *)
LEMMA UnsubscribeCovers ==
  ASSUME TypeOK, InterestCovered, NEW i \in DOMAIN pendingShifts,
         activeSymbols' = pendingShifts[i].symbols,
         SymbolsOf(pendingShifts') \subseteq SymbolsOf(pendingShifts),
         Unsubscribe(Obsolete(pendingShifts[i], pendingShifts')),
         proc = "running", proc' = "running"
  PROVE  InterestCovered'
<1> DEFINE gone == Obsolete(pendingShifts[i], pendingShifts')
<1>1. gone \cap (activeSymbols \cup SymbolsOf(pendingShifts))' = {}
  BY DEF Obsolete, SymbolsOf
<1>2. Index \notin gone
  <2>1. \A j \in DOMAIN pendingShifts : Index \notin pendingShifts[j].symbols
    BY PendingShiftTyped DEF TypeOK, Options
  <2> QED BY <2>1 DEF Obsolete, SymbolsOf, TypeOK, ActiveOK, Options
<1>3. (activeSymbols \cup SymbolsOf(pendingShifts))'
        \subseteq activeSymbols \cup SymbolsOf(pendingShifts)
  BY SymbolsOfElement DEF SymbolsOf
<1>4. feed' = feed \ gone /\ UNCHANGED <<connected, symbols>>
  BY DEF Unsubscribe
<1> HIDE DEF gone
<1> QED
  BY <1>1, <1>2, <1>3, <1>4 DEF InterestCovered, ListCoversInterest, FeedCoversInterest, Granted

LEMMA InterestStep ==
  ASSUME TypeOK, InterestCovered, [Next]_vars
  PROVE  InterestCovered'
<1>1. ASSUME NEW ltp \in Prices, RestoreState(ltp) \/ InitialiseFromPrice(ltp)
      PROVE  InterestCovered'
  <2>1. /\ SubscribeUnread(activeSymbols', rejections)
        /\ pendingShifts' = pendingShifts /\ proc = "running" /\ proc' = "running"
    BY <1>1 DEF RestoreState, InitialiseFromPrice, Subscribe, TickArrives, Running, shiftVars
  <2> QED BY <2>1, SubscribeCovers DEF SymbolsOf
<1>2. ASSUME NEW ltp \in Prices, NiftyTickShift(ltp) PROVE InterestCovered'
  <2>1. CASE StartShift(pendingShifts, ATMOf[ltp])
    BY <1>2, <2>1, StartShiftCovers
    DEF NiftyTickShift, TickArrives, Running, TypeOK, QueueOK, activeVars, procVars
  <2>2. CASE StartShiftFails
    BY <1>2, <2>2, UnchangedCovers
    DEF NiftyTickShift, StartShiftFails, activeVars, shiftVars, procVars, clientVars
  <2> QED BY <1>2, <2>1, <2>2 DEF NiftyTickShift
<1>3. ASSUME NEW i \in DOMAIN pendingShifts, Evaluates(i)
      PROVE  activeSymbols' = pendingShifts[i].symbols /\ proc = "running" /\ proc' = "running"
  BY <1>3 DEF Evaluates, SwitchTo, Running, procVars
<1>4. ASSUME NEW i \in DOMAIN pendingShifts, EvaluateMarketMoved(i) PROVE InterestCovered'
  <2>1. lastNiftyLTP \in Prices
    BY <1>4, MovedPrice DEF EvaluateMarketMoved, TypeOK
  <2>2. <<>> \in Seq(Shift)
    BY EmptySeq
  <2>3. activeSymbols' \cup SymbolsOf(<<>>) \subseteq activeSymbols \cup SymbolsOf(pendingShifts)
    BY <1>3, <1>4, SymbolsOfEmpty, SymbolsOfElement DEF EvaluateMarketMoved
  <2> QED BY <1>3, <1>4, <2>1, <2>2, <2>3, StartShiftCovers DEF EvaluateMarketMoved
<1>5. ASSUME NEW i \in DOMAIN pendingShifts, EvaluateFollowUp(i) PROVE InterestCovered'
  <2>1. pendingShifts \in Seq(Shift) /\ Len(pendingShifts) \in Nat /\ i \in 1..Len(pendingShifts)
    BY LenProperties DEF TypeOK, QueueOK
  <2>2. \A j \in 1..Len(pendingShifts) : pendingShifts[j] \in Shift
    BY <2>1, ElementOfSeq
  <2>3. /\ pendingShifts' \in Seq(Shift)
        /\ Len(pendingShifts') = Len(pendingShifts) - i
        /\ \A j \in 1..(Len(pendingShifts) - i) : pendingShifts'[j] = pendingShifts[i + j]
    BY <1>5, <2>1, <2>2, SubSeqProperties DEF EvaluateFollowUp
  <2>4. DOMAIN pendingShifts' = 1..(Len(pendingShifts) - i)
        /\ DOMAIN pendingShifts = 1..Len(pendingShifts)
    BY <2>1, <2>3, LenProperties
  <2>5. \A j \in DOMAIN pendingShifts' : i + j \in DOMAIN pendingShifts
    BY <2>1, <2>4
  <2>6. SymbolsOf(pendingShifts') \subseteq SymbolsOf(pendingShifts)
    BY <2>3, <2>4, <2>5 DEF SymbolsOf
  <2> QED BY <1>3, <1>5, <2>6, UnsubscribeCovers DEF EvaluateFollowUp
<1>6. ASSUME NEW i \in DOMAIN pendingShifts, EvaluateCaughtUp(i) PROVE InterestCovered'
  <2>1. pendingShifts' = <<>> /\ SymbolsOf(pendingShifts') \subseteq SymbolsOf(pendingShifts)
    BY <1>6, SymbolsOfEmpty DEF EvaluateCaughtUp
  <2> QED BY <1>3, <1>6, <2>1, UnsubscribeCovers DEF EvaluateCaughtUp
<1>7. CASE AdvanceExpiry
  <2>1. /\ SubscribeUnread(activeSymbols', Tail(rejections))
        /\ pendingShifts' = pendingShifts /\ proc = "running" /\ proc' = "running"
    BY <1>7 DEF AdvanceExpiry, Running, shiftVars, procVars
  <2> QED BY <2>1, SubscribeCovers DEF SymbolsOf
<1>8. ASSUME NEW how \in {"crashed", "panicked"}, Die(how) PROVE InterestCovered'
  BY <1>8 DEF Die, ClientDown, InterestCovered, ListCoversInterest, FeedCoversInterest
<1>9. CASE Restart
  <2>1. activeSymbols = {} /\ pendingShifts = <<>>
        /\ UNCHANGED <<activeSymbols, pendingShifts>> /\ symbols' = {Index} /\ feed' = {Index}
        /\ proc' = "running"
    BY <1>9 DEF Restart, ClientBoot, InterestCovered, ListCoversInterest, activeVars, shiftVars
  <2> QED BY <2>1, SymbolsOfEmpty
          DEF InterestCovered, ListCoversInterest, FeedCoversInterest, Granted
<1>10. CASE ConnectionStep
  BY <1>10 DEF ConnectionStep, Disconnect, Reconnect, Running, InterestCovered,
               ListCoversInterest, FeedCoversInterest, SymbolsOf, Granted, activeVars,
               shiftVars, procVars
<1> QED
  BY <1>1, <1>2, <1>4, <1>5, <1>6, <1>7, <1>8, <1>9, <1>10, StepCases, UnchangedCovers
  DEF InitialisationFails, NiftyTickNoShift, FireTimer, FireStray, EvaluateNothing,
      IgnoreRejection, AdvanceExpiryFails, StoreStep, ClockTick, activeVars, shiftVars,
      procVars, clientVars, vars

(* What is traded or buffered is streamed as far as the exchange has it,   *)
(* across shifts, clean-ups, rejections, reconnects and restarts.          *)
THEOREM InterestIsStreamed == Spec => []FeedCoversInterest
<1>1. Init => InterestCovered
  BY DEF Init, InterestCovered, ListCoversInterest, FeedCoversInterest, SymbolsOf, Granted
<1>2. TypeOK /\ InterestCovered /\ [Next]_vars => InterestCovered'
  BY InterestStep
<1>3. InterestCovered => FeedCoversInterest
  BY DEF InterestCovered
<1> QED BY <1>1, <1>2, <1>3, PipelineTypeCorrect, PTL DEF Spec

-----------------------------------------------------------------------------
(* The ceiling of a countdown is that of its first shift, and its target   *)
(* is moved no further.                                                    *)
CeilingOfHead ==
  pendingShifts # <<>> =>
    /\ lastNiftyLTP > 0
    /\ maxTimerDeadline = pendingShifts[1].at + MaxConfirm
    /\ \E limit \in Limits : timerTarget >= pendingShifts[1].at + limit
    /\ \E limit \in Limits : timerTarget <= pendingShifts[1].at + limit

(* With prices, the evaluation never leaves newer shifts behind: whenever  *)
(* the confirmed strike is not the newest, the market has moved on.        *)
LEMMA NoFollowUp ==
  ASSUME TypeOK, OnMarket, CeilingOfHead, NEW i \in DOMAIN pendingShifts
  PROVE  ~EvaluateFollowUp(i)
<1>1. pendingShifts # <<>>
  BY LenProperties, EmptySeq DEF TypeOK, QueueOK
<1> QED
  BY <1>1 DEF EvaluateFollowUp, MarketMovedOn, OnMarket, LatestPendingIsLive, CeilingOfHead

LEMMA LimitsTyped == MaxConfirm \in Limits /\ Confirms \subseteq Limits /\ Limits \subseteq Nat
<1>1. MaxConfirm \in Nat /\ Confirms \subseteq Nat
  BY PipelineAssumption
<1> QED BY <1>1 DEF Limits

(* A new cycle gets its target and its ceiling from now; extending keeps   *)
(* the ceiling and moves the target on, or back to the ceiling.            *)
LEMMA StartShiftCeiling ==
  ASSUME TypeOK, NEW pend \in Seq(Shift), NEW ltp \in Prices, StartShift(pend, ATMOf[ltp]),
         lastNiftyLTP' > 0,
         pend = <<>> \/ (pend = pendingShifts /\ CeilingOfHead)
  PROVE  CeilingOfHead'
<1>1. PICK week \in Weeks :
        /\ CalculationWorks(week, activeExpiryOffset)
        /\ pendingShifts' = Append(pend, [atm |-> ATMOf[ltp],
                                          symbols |-> Calculated(week, activeExpiryOffset, ATMOf[ltp]),
                                          at |-> now])
  BY DEF StartShift
<1> DEFINE shift == [atm |-> ATMOf[ltp],
                     symbols |-> Calculated(week, activeExpiryOffset, ATMOf[ltp]), at |-> now]
<1>2. Calculated(week, activeExpiryOffset, ATMOf[ltp]) \in SUBSET Options
  BY <1>1, CalculatedAreOptions, CandidateOfPrice DEF TypeOK, ActiveOK
<1>3. shift \in Shift /\ shift.at = now
  BY <1>2, CandidateOfPrice DEF Shift, TypeOK, ProcessOK
<1>4. pendingShifts' = Append(pend, shift)
  BY <1>1
<1> HIDE DEF shift
<1>5. /\ Len(pend) \in Nat
      /\ \A i \in 1..Len(pend) : pendingShifts'[i] = pend[i]
      /\ pendingShifts'[Len(pend) + 1] = shift
  BY <1>3, <1>4, AppendProperties, LenProperties
<1>6. now \in Nat /\ MaxConfirm \in Limits /\ Confirms \subseteq Limits /\ Limits \subseteq Nat
  BY LimitsTyped, PipelineAssumption DEF TypeOK, ProcessOK
<1>7. CASE pend = <<>>
  <2>1. pendingShifts'[1] = shift
    BY <1>5, <1>7
  <2>2. StartTimer
    BY <1>7 DEF StartShift
  <2> QED BY <1>3, <1>6, <2>1, <2>2 DEF StartTimer, CeilingOfHead
<1>8. CASE pend # <<>>
  <2>1. pend = pendingShifts /\ pendingShifts'[1] = pendingShifts[1]
    BY <1>5, <1>8, EmptySeq
  <2>2. ExtendTimer
    BY <1>8 DEF StartShift
  <2>3. PICK extra \in Extras : timerTarget' = ExtendedTarget(extra)
    BY <2>2 DEF ExtendTimer
  <2>4. pendingShifts[1].at \in Nat
    <3>1. Len(pendingShifts) \in Nat \ {0}
      BY <1>8, <2>1, LastShift DEF TypeOK
    <3>2. 1 \in DOMAIN pendingShifts
      BY <3>1, LenProperties DEF TypeOK, QueueOK
    <3> QED BY <1>6, <3>2, PendingShiftTyped DEF TypeOK
  <2>5. /\ timerTarget \in Nat /\ maxTimerDeadline = pendingShifts[1].at + MaxConfirm
        /\ \E limit \in Limits : timerTarget >= pendingShifts[1].at + limit
    BY <1>8, <2>1 DEF CeilingOfHead, TypeOK, TimersOK
  <2>6. \/ timerTarget' = maxTimerDeadline
        \/ timerTarget' >= timerTarget /\ timerTarget' <= maxTimerDeadline
    <3>1. extra \in Nat /\ FallbackExtra \in Nat /\ maxTimerDeadline \in Nat
      BY PipelineAssumption DEF TypeOK, TimersOK
    <3> QED BY <2>3, <2>5, <3>1 DEF ExtendedTarget
  <2>7. timerTarget' \in Nat /\ maxTimerDeadline' = maxTimerDeadline
    BY <2>2, ExtendTimerStep
  <2>8. \E limit \in Limits : timerTarget' >= pendingShifts[1].at + limit
    BY <1>6, <2>4, <2>5, <2>6, <2>7
  <2>9. \E limit \in Limits : timerTarget' <= pendingShifts[1].at + limit
    BY <1>6, <2>4, <2>5, <2>6, <2>7
  <2> QED BY <2>1, <2>5, <2>7, <2>8, <2>9 DEF CeilingOfHead, Limits
<1> QED BY <1>7, <1>8

LEMMA CeilingStep ==
  ASSUME TypeOK, OnMarket, CeilingOfHead, PositiveMarket, [Next]_vars
  PROVE  CeilingOfHead'
<1>1. ASSUME UNCHANGED <<lastNiftyLTP, pendingShifts, timerTarget, maxTimerDeadline>>
      PROVE  CeilingOfHead'
  BY <1>1 DEF CeilingOfHead
<1>2. ASSUME NEW ltp \in Prices, NiftyTickNoShift(ltp) PROVE CeilingOfHead'
  BY <1>2 DEF NiftyTickNoShift, shiftVars, CeilingOfHead, PositiveMarket
<1>3. ASSUME NEW ltp \in Prices, NiftyTickShift(ltp) PROVE CeilingOfHead'
  <2>1. lastNiftyLTP' > 0
    BY <1>3 DEF NiftyTickShift, PositiveMarket
  <2>2. CASE StartShift(pendingShifts, ATMOf[ltp])
    BY <2>1, <2>2, StartShiftCeiling DEF TypeOK, QueueOK
  <2>3. CASE StartShiftFails
    BY <2>1, <2>3 DEF StartShiftFails, shiftVars, CeilingOfHead
  <2> QED BY <1>3, <2>2, <2>3 DEF NiftyTickShift
<1>4. ASSUME NEW i \in DOMAIN pendingShifts, EvaluateMarketMoved(i) PROVE CeilingOfHead'
  <2>1. lastNiftyLTP \in Prices /\ lastNiftyLTP' > 0
    BY <1>4, MovedPrice DEF EvaluateMarketMoved, Evaluates, MarketMovedOn, TypeOK
  <2>2. <<>> \in Seq(Shift)
    BY EmptySeq
  <2> QED BY <1>4, <2>1, <2>2, StartShiftCeiling DEF EvaluateMarketMoved
<1>5. ASSUME pendingShifts' = <<>> PROVE CeilingOfHead'
  BY <1>5 DEF CeilingOfHead
<1> QED
  BY <1>1, <1>2, <1>3, <1>4, <1>5, StepCases, NoFollowUp
  DEF RestoreState, InitialiseFromPrice, InitialisationFails, FireTimer, FireStray,
      EvaluateNothing, EvaluateCaughtUp, IgnoreRejection, AdvanceExpiry, AdvanceExpiryFails,
      Die, Restart, ConnectionStep, StoreStep, ClockTick, shiftVars, vars

(* While shifts are pending, the timer is not long overdue, or an          *)
(* evaluation that was in time is waiting for the lock.                    *)
EvaluationIsNear ==
  pendingShifts # <<>> =>
    \/ /\ shiftTimer # None
       /\ \E limit \in Limits : now <= pendingShifts[1].at + limit + Lateness
    \/ \E k \in DOMAIN evals :
         /\ now <= evals[k] + Lateness
         /\ \E limit \in Limits : evals[k] <= pendingShifts[1].at + limit + Lateness

(* A new cycle is evaluated in time; an extension, even to a target in the *)
(* past, leaves the timer armed, and the goroutine that waits waiting.     *)
LEMMA StartShiftNear ==
  ASSUME TypeOK, NEW pend \in Seq(Shift), NEW ltp \in Prices, StartShift(pend, ATMOf[ltp]),
         now' = now, pend = <<>> \/ (pend = pendingShifts /\ EvaluationIsNear /\ evals' = evals)
  PROVE  EvaluationIsNear'
<1>1. PICK week \in Weeks :
        /\ CalculationWorks(week, activeExpiryOffset)
        /\ pendingShifts' = Append(pend, [atm |-> ATMOf[ltp],
                                          symbols |-> Calculated(week, activeExpiryOffset, ATMOf[ltp]),
                                          at |-> now])
  BY DEF StartShift
<1> DEFINE shift == [atm |-> ATMOf[ltp],
                     symbols |-> Calculated(week, activeExpiryOffset, ATMOf[ltp]), at |-> now]
<1>2. Calculated(week, activeExpiryOffset, ATMOf[ltp]) \in SUBSET Options
  BY <1>1, CalculatedAreOptions, CandidateOfPrice DEF TypeOK, ActiveOK
<1>3. shift \in Shift /\ shift.at = now
  BY <1>2, CandidateOfPrice DEF Shift, TypeOK, ProcessOK
<1>4. pendingShifts' = Append(pend, shift)
  BY <1>1
<1> HIDE DEF shift
<1>5. /\ Len(pend) \in Nat
      /\ \A i \in 1..Len(pend) : pendingShifts'[i] = pend[i]
      /\ pendingShifts'[Len(pend) + 1] = shift
  BY <1>3, <1>4, AppendProperties, LenProperties
<1>6. shiftTimer' # None
  BY ArmedByStartShift
<1>7. CASE pend = <<>>
  <2>1. pendingShifts'[1].at = now
    BY <1>3, <1>5, <1>7
  <2>2. now \in Nat /\ Lateness \in Nat /\ now <= now + MaxConfirm + Lateness
    BY PipelineAssumption DEF TypeOK, ProcessOK
  <2>3. now' <= pendingShifts'[1].at + MaxConfirm + Lateness
    BY <2>1, <2>2
  <2> QED BY <1>6, <2>3, LimitsTyped DEF EvaluationIsNear, Limits
<1>8. CASE pend # <<>>
  <2>1. pend = pendingShifts /\ pendingShifts'[1] = pendingShifts[1]
    BY <1>5, <1>8, EmptySeq
  <2> QED BY <1>6, <1>8, <2>1 DEF EvaluationIsNear, Limits
<1> QED BY <1>7, <1>8

(* A timer that fires in time hands over to its goroutine; a stray one     *)
(* only adds another.                                                      *)
LEMMA FiresInTime ==
  ASSUME TypeOK, EvaluationIsNear, FireTimer \/ FireStray
  PROVE  EvaluationIsNear'
<1>1. CASE pendingShifts = <<>>
  BY <1>1 DEF FireTimer, FireStray, EvaluationIsNear
<1>2. CASE pendingShifts # <<>>
  <2>1. now \in Nat /\ Lateness \in Nat
    BY PipelineAssumption DEF TypeOK, ProcessOK
  <2>2. /\ evals \in Seq(Nat) /\ Len(evals) \in Nat /\ DOMAIN evals = 1..Len(evals)
        /\ evals' = Append(evals, now) /\ UNCHANGED <<pendingShifts, now>>
    BY LenProperties, SeqMonotonic, <2>1 DEF FireTimer, FireStray, TypeOK, TimersOK
  <2>3. /\ \A k \in 1..Len(evals) : evals'[k] = evals[k]
        /\ evals'[Len(evals) + 1] = now
        /\ DOMAIN evals' = 1..(Len(evals) + 1)
    BY <2>1, <2>2, AppendProperties, LenProperties
  <2>4. CASE \E limit \in Limits : now <= pendingShifts[1].at + limit + Lateness
    <3>1. Len(evals) + 1 \in DOMAIN evals' /\ now <= now + Lateness
      BY <2>1, <2>2, <2>3
    <3> QED BY <2>2, <2>3, <2>4, <3>1 DEF EvaluationIsNear, Limits
  <2>5. CASE \E k \in DOMAIN evals :
               /\ now <= evals[k] + Lateness
               /\ \E limit \in Limits : evals[k] <= pendingShifts[1].at + limit + Lateness
    <3>1. \A k \in DOMAIN evals : k \in DOMAIN evals' /\ evals'[k] = evals[k]
      BY <2>2, <2>3
    <3> QED BY <2>2, <2>5, <3>1 DEF EvaluationIsNear, Limits
  <2> QED BY <1>2, <2>4, <2>5 DEF EvaluationIsNear
<1> QED BY <1>1, <1>2

(* A second passes only if the timer is not due for too long, and no       *)
(* goroutine has waited for too long.                                      *)
LEMMA TicksInTime ==
  ASSUME TypeOK, CeilingOfHead, EvaluationIsNear, ClockTick
  PROVE  EvaluationIsNear'
<1>1. UNCHANGED <<pendingShifts, shiftTimer, evals>> /\ now' = now + 1
  BY DEF ClockTick, shiftVars
<1>2. CASE pendingShifts = <<>>
  BY <1>1, <1>2 DEF EvaluationIsNear
<1>3. CASE pendingShifts # <<>>
  <2>1. now \in Nat /\ Lateness \in Nat
    BY PipelineAssumption DEF TypeOK, ProcessOK
  <2>2. pendingShifts[1].at \in Nat
    <3>1. Len(pendingShifts) \in Nat \ {0}
      BY <1>3, LastShift DEF TypeOK
    <3>2. 1 \in DOMAIN pendingShifts
      BY <3>1, LenProperties DEF TypeOK, QueueOK
    <3> QED BY <2>1, <3>2, PendingShiftTyped DEF TypeOK
  <2>3. CASE shiftTimer # None
    <3>1. timerTarget \in Nat /\ shiftTimer = timerTarget
      BY <2>3 DEF TypeOK, TimersOK
    <3>2. ~(now >= timerTarget + Lateness)
      BY <2>3, <3>1 DEF ClockTick, Due
    <3>3. PICK limit \in Limits : timerTarget <= pendingShifts[1].at + limit
      BY <1>3 DEF CeilingOfHead
    <3>4. now' <= pendingShifts[1].at + limit + Lateness
      BY <1>1, <2>1, <2>2, <3>1, <3>2, <3>3, LimitsTyped
    <3> QED BY <1>1, <2>3, <3>4 DEF EvaluationIsNear, Limits
  <2>4. CASE shiftTimer = None
    <3>1. PICK k \in DOMAIN evals :
            \E limit \in Limits : evals[k] <= pendingShifts[1].at + limit + Lateness
      BY <1>3, <2>4 DEF EvaluationIsNear
    <3>2. evals[k] \in Nat
      BY <2>1, ElementOfSeq, LenProperties DEF TypeOK, TimersOK
    <3>3. ~(now >= evals[k] + Lateness)
      BY <3>2 DEF ClockTick, Due
    <3>4. now' <= evals[k] + Lateness
      BY <1>1, <2>1, <3>2, <3>3
    <3> QED BY <1>1, <3>1, <3>4 DEF EvaluationIsNear, Limits
  <2> QED BY <2>3, <2>4
<1> QED BY <1>2, <1>3

LEMMA EvaluationStep ==
  ASSUME TypeOK, OnMarket, CeilingOfHead, EvaluationIsNear, [Next]_vars
  PROVE  EvaluationIsNear'
<1>1. ASSUME UNCHANGED <<pendingShifts, shiftTimer, evals, now>> PROVE EvaluationIsNear'
  BY <1>1 DEF EvaluationIsNear
<1>2. ASSUME pendingShifts' = <<>> PROVE EvaluationIsNear'
  BY <1>2 DEF EvaluationIsNear
<1>3. ASSUME NEW ltp \in Prices, NiftyTickShift(ltp) PROVE EvaluationIsNear'
  <2>1. CASE StartShift(pendingShifts, ATMOf[ltp])
    BY <1>3, <2>1, StartShiftNear DEF NiftyTickShift, TypeOK, QueueOK
  <2>2. CASE StartShiftFails
    BY <1>1, <1>3, <2>2 DEF NiftyTickShift, StartShiftFails, shiftVars
  <2> QED BY <1>3, <2>1, <2>2 DEF NiftyTickShift
<1>4. ASSUME NEW i \in DOMAIN pendingShifts, EvaluateMarketMoved(i) PROVE EvaluationIsNear'
  <2>1. lastNiftyLTP \in Prices
    BY <1>4, MovedPrice DEF EvaluateMarketMoved, TypeOK
  <2>2. <<>> \in Seq(Shift)
    BY EmptySeq
  <2> QED BY <1>4, <2>1, <2>2, StartShiftNear DEF EvaluateMarketMoved, Evaluates
<1>5. CASE FireTimer \/ FireStray
  BY <1>5, FiresInTime
<1>6. CASE ClockTick
  BY <1>6, TicksInTime
<1> QED
  BY <1>1, <1>2, <1>3, <1>4, <1>5, <1>6, StepCases, NoFollowUp
  DEF RestoreState, InitialiseFromPrice, InitialisationFails, NiftyTickNoShift,
      EvaluateNothing, EvaluateCaughtUp, IgnoreRejection, AdvanceExpiry, AdvanceExpiryFails,
      Die, Restart, ConnectionStep, StoreStep, shiftVars, vars

(* As long as ticks have prices: extensions keep the target of a countdown *)
(* between the shorter and the longer of base confirmation and ceiling,    *)
(* and its shifts are confirmed or replaced no later than that, up to what *)
(* the timer and the goroutine may be late.                                *)
THEOREM CountdownIsBounded ==
  ASSUME PositiveMarket
  PROVE  Spec => [](CountdownWithinBounds /\ CountdownEndsInTime)
<1> DEFINE Bounded == OnMarket /\ CeilingOfHead /\ EvaluationIsNear
<1>1. Init => Bounded
  BY DEF Init, OnMarket, LifeCycle, LatestPendingIsLive, StableMeansOnMarket, CeilingOfHead,
         EvaluationIsNear
<1>2. TypeOK /\ Bounded /\ [Next]_vars => Bounded'
  BY OnMarketStep, CeilingStep, EvaluationStep, PositiveMarket
<1>3. TypeOK /\ Bounded => CountdownWithinBounds
  BY DEF CeilingOfHead, CountdownWithinBounds
<1>4. ASSUME TypeOK, Bounded, pendingShifts # <<>> PROVE CountdownEndsInTime
  <2>1. now \in Nat /\ Lateness \in Nat
    BY <1>4, PipelineAssumption DEF TypeOK, ProcessOK
  <2>2. pendingShifts[1].at \in Nat
    <3>1. Len(pendingShifts) \in Nat \ {0}
      BY <1>4, LastShift DEF TypeOK
    <3>2. 1 \in DOMAIN pendingShifts
      BY <1>4, <3>1, LenProperties DEF TypeOK, QueueOK
    <3> QED BY <1>4, <2>1, <3>2, PendingShiftTyped DEF TypeOK
  <2>3. CASE \E limit \in Limits : now <= pendingShifts[1].at + limit + Lateness
    <3>1. PICK limit \in Limits : now <= pendingShifts[1].at + limit + Lateness
      BY <2>3
    <3>2. now <= pendingShifts[1].at + limit + 2 * Lateness
      BY <2>1, <2>2, <3>1, LimitsTyped
    <3> QED BY <3>2 DEF CountdownEndsInTime
  <2>4. CASE \E k \in DOMAIN evals :
               /\ now <= evals[k] + Lateness
               /\ \E limit \in Limits : evals[k] <= pendingShifts[1].at + limit + Lateness
    <3>1. PICK k \in DOMAIN evals, limit \in Limits :
            now <= evals[k] + Lateness /\ evals[k] <= pendingShifts[1].at + limit + Lateness
      BY <2>4
    <3>2. evals[k] \in Nat
      BY <1>4, <2>1, ElementOfSeq, LenProperties DEF TypeOK, TimersOK
    <3>3. now <= pendingShifts[1].at + limit + 2 * Lateness
      BY <2>1, <2>2, <3>1, <3>2, LimitsTyped
    <3> QED BY <3>3 DEF CountdownEndsInTime
  <2> QED BY <1>4, <2>3, <2>4 DEF EvaluationIsNear
<1>5. TypeOK /\ Bounded => CountdownEndsInTime
  BY <1>4 DEF CountdownEndsInTime
<1>6. Spec => []Bounded
  <2> HIDE DEF Bounded
  <2> QED BY <1>1, <1>2, PipelineTypeCorrect, PTL DEF Spec
<1> HIDE DEF Bounded
<1> QED BY <1>3, <1>5, <1>6, PipelineTypeCorrect, PTL

-----------------------------------------------------------------------------
(* Every expiry an IMF may list has symbols. *)
ExpiriesListed == \A n \in ExpiryCounts : 0..(n - 1) \subseteq DOMAIN SymbolsFor

(* The strike and the symbols of one calculation. *)
IsPair(atm, syms) == \E k \in DOMAIN SymbolsFor : syms = SymbolsFor[k][atm]

(* What is pending, and may become active, is the pair of its own strike.  *)
CandidatesMatch ==
  \A i \in DOMAIN pendingShifts : IsPair(pendingShifts[i].atm, pendingShifts[i].symbols)

LEMMA CalculatedIsPair ==
  ASSUME ProcessOK, ExpiriesListed, NEW week \in Weeks, NEW offset \in Nat, NEW atm,
         CalculationWorks(week, offset)
  PROVE  IsPair(atm, Calculated(week, offset, atm))
<1>1. week + offset \in Int
  BY PipelineAssumption
<1>2. WeekIndex(week, offset) \in Int /\ WeekIndex(week, offset) >= 0
  BY <1>1 DEF WeekIndex
<1>3. expiries \in Nat /\ WeekIndex(week, offset) \in 0..(expiries - 1)
  BY <1>2, SymbolsAssumption DEF CalculationWorks, ProcessOK
<1>4. WeekIndex(week, offset) \in DOMAIN SymbolsFor
  BY <1>3 DEF ExpiriesListed, ProcessOK
<1> QED BY <1>4 DEF Calculated, IsPair

(* A shift joins the queue with the pair of its own calculation.           *)
LEMMA StartShiftPairs ==
  ASSUME TypeOK, ExpiriesListed, NEW pend \in Seq(Shift), NEW ltp \in Prices,
         StartShift(pend, ATMOf[ltp]),
         \A i \in DOMAIN pend : IsPair(pend[i].atm, pend[i].symbols)
  PROVE  \A i \in DOMAIN pendingShifts' :
            IsPair(pendingShifts'[i].atm, pendingShifts'[i].symbols)
<1>1. PICK week \in Weeks :
        /\ CalculationWorks(week, activeExpiryOffset)
        /\ pendingShifts' = Append(pend, [atm |-> ATMOf[ltp],
                                          symbols |-> Calculated(week, activeExpiryOffset, ATMOf[ltp]),
                                          at |-> now])
  BY DEF StartShift
<1> DEFINE syms == Calculated(week, activeExpiryOffset, ATMOf[ltp])
           shift == [atm |-> ATMOf[ltp], symbols |-> syms, at |-> now]
<1>2. syms \in SUBSET Options
  BY <1>1, CalculatedAreOptions, CandidateOfPrice DEF TypeOK, ActiveOK
<1>3. shift \in Shift
  BY <1>2, CandidateOfPrice DEF Shift, TypeOK, ProcessOK
<1>4. IsPair(ATMOf[ltp], syms)
  BY <1>1, CalculatedIsPair DEF TypeOK, ActiveOK
<1>5. IsPair(shift.atm, shift.symbols)
  BY <1>4
<1>6. pendingShifts' = Append(pend, shift)
  BY <1>1
<1> HIDE DEF shift, syms
<1>7. /\ Len(pend) \in Nat /\ DOMAIN pend = 1..Len(pend)
      /\ DOMAIN pendingShifts' = 1..(Len(pend) + 1)
      /\ \A i \in 1..Len(pend) : pendingShifts'[i] = pend[i]
      /\ pendingShifts'[Len(pend) + 1] = shift
  BY <1>3, <1>6, AppendProperties, LenProperties
<1> TAKE i \in DOMAIN pendingShifts'
<1>8. CASE i = Len(pend) + 1
  BY <1>5, <1>7, <1>8
<1>9. CASE i # Len(pend) + 1
  <2>1. i \in DOMAIN pend /\ pendingShifts'[i] = pend[i]
    BY <1>7, <1>9
  <2> QED BY <2>1
<1> QED BY <1>8, <1>9

LEMMA CandidatesMatchStep ==
  ASSUME TypeOK, ExpiriesListed, CandidatesMatch, [Next]_vars
  PROVE  CandidatesMatch'
<1>1. ASSUME UNCHANGED pendingShifts PROVE CandidatesMatch'
  BY <1>1 DEF CandidatesMatch, IsPair
<1>2. ASSUME pendingShifts' = <<>> PROVE CandidatesMatch'
  BY <1>2 DEF CandidatesMatch
<1>3. ASSUME NEW ltp \in Prices, NiftyTickShift(ltp) PROVE CandidatesMatch'
  <2>1. CASE StartShift(pendingShifts, ATMOf[ltp])
    BY <2>1, StartShiftPairs DEF CandidatesMatch, IsPair, TypeOK, QueueOK
  <2>2. CASE StartShiftFails
    BY <1>1, <2>2 DEF StartShiftFails, shiftVars
  <2> QED BY <1>3, <2>1, <2>2 DEF NiftyTickShift
<1>4. ASSUME NEW i \in DOMAIN pendingShifts, EvaluateMarketMoved(i) PROVE CandidatesMatch'
  <2>1. lastNiftyLTP \in Prices
    BY <1>4, MovedPrice DEF EvaluateMarketMoved, TypeOK
  <2>2. <<>> \in Seq(Shift) /\ DOMAIN <<>> = {}
    BY EmptySeq
  <2> QED BY <1>4, <2>1, <2>2, StartShiftPairs DEF EvaluateMarketMoved, CandidatesMatch, IsPair
<1>5. ASSUME NEW i \in DOMAIN pendingShifts, EvaluateFollowUp(i) PROVE CandidatesMatch'
  <2>1. pendingShifts \in Seq(Shift) /\ Len(pendingShifts) \in Nat /\ i \in 1..Len(pendingShifts)
    BY LenProperties DEF TypeOK, QueueOK
  <2>2. \A j \in 1..Len(pendingShifts) : pendingShifts[j] \in Shift
    BY <2>1, ElementOfSeq
  <2>3. /\ pendingShifts' \in Seq(Shift)
        /\ Len(pendingShifts') = Len(pendingShifts) - i
        /\ \A j \in 1..(Len(pendingShifts) - i) : pendingShifts'[j] = pendingShifts[i + j]
    BY <1>5, <2>1, <2>2, SubSeqProperties DEF EvaluateFollowUp
  <2>4. DOMAIN pendingShifts' = 1..(Len(pendingShifts) - i)
        /\ DOMAIN pendingShifts = 1..Len(pendingShifts)
    BY <2>1, <2>3, LenProperties
  <2>5. \A j \in DOMAIN pendingShifts' : i + j \in DOMAIN pendingShifts
    BY <2>1, <2>4
  <2> QED BY <2>3, <2>4, <2>5 DEF CandidatesMatch, IsPair
<1> QED
  BY <1>1, <1>2, <1>3, <1>4, <1>5, StepCases
  DEF RestoreState, InitialiseFromPrice, InitialisationFails, NiftyTickNoShift, FireTimer,
      FireStray, EvaluateNothing, EvaluateCaughtUp, IgnoreRejection, AdvanceExpiry,
      AdvanceExpiryFails, Die, Restart, ConnectionStep, StoreStep, ClockTick, shiftVars, vars

(* The three steps that save: what becomes active is a pair, calculated    *)
(* there and then or when its shift began.                                 *)
Switches ==
  \/ \E ltp \in Prices : InitialiseFromPrice(ltp)
  \/ \E i \in DOMAIN pendingShifts : Evaluates(i)
  \/ AdvanceExpiry

LEMMA SwitchesToPair ==
  ASSUME TypeOK, ExpiriesListed, CandidatesMatch, Switches
  PROVE  SaveActive /\ activeATM' \in Candidates /\ IsPair(activeATM', activeSymbols')
<1>1. ASSUME NEW ltp \in Prices, InitialiseFromPrice(ltp)
      PROVE  SaveActive /\ activeATM' \in Candidates /\ IsPair(activeATM', activeSymbols')
  BY <1>1, CandidateOfPrice, CalculatedIsPair DEF InitialiseFromPrice, TypeOK, ActiveOK
<1>2. ASSUME NEW i \in DOMAIN pendingShifts, Evaluates(i)
      PROVE  SaveActive /\ activeATM' \in Candidates /\ IsPair(activeATM', activeSymbols')
  <2>1. pendingShifts[i].atm \in Candidates /\ IsPair(pendingShifts[i].atm, pendingShifts[i].symbols)
    BY PendingShiftTyped DEF CandidatesMatch, TypeOK
  <2>2. /\ SaveActive
        /\ activeATM' = pendingShifts[i].atm /\ activeSymbols' = pendingShifts[i].symbols
    BY <1>2 DEF Evaluates, SwitchTo
  <2> QED BY <2>1, <2>2
<1>3. CASE AdvanceExpiry
  <2>1. activeExpiryOffset' \in Nat /\ activeATM' = activeATM /\ activeATM \in Candidates
    BY <1>3 DEF AdvanceExpiry, RejectionOfActive, TypeOK, ActiveOK
  <2> QED BY <1>3, <2>1, CalculatedIsPair DEF AdvanceExpiry, TypeOK
<1> QED BY <1>1, <1>2, <1>3 DEF Switches

(* A restart: what had not reached Redis never will.                       *)
SavesLost == saves' = <<>> /\ UNCHANGED <<redis, today>>

(* All the others leave the active pair alone, or end the process, and     *)
(* save no more than the pair of a pending shift.                          *)
LEMMA OtherSteps ==
  ASSUME [Next]_vars, ~Switches
  PROVE  \/ \E ltp \in Prices : RestoreState(ltp)
         \/ activeSymbols' = {} /\ ~initialSetupDone' /\ (UNCHANGED storeVars \/ SavesPending)
         \/ /\ UNCHANGED <<activeSymbols, initialSetupDone>>
            /\ initialSetupDone => activeATM' = activeATM
            /\ SaveStep \/ SaveFail \/ NewDay \/ SavesLost \/ UNCHANGED storeVars
BY StepCases
DEF Switches, InitialisationFails, NiftyTickNoShift, NiftyTickShift, FireTimer, FireStray,
    EvaluateNothing, EvaluateMarketMoved, EvaluateFollowUp, EvaluateCaughtUp, IgnoreRejection,
    AdvanceExpiryFails, Die, Restart, SavesLost, ConnectionStep, StoreStep, ClockTick,
    procVars, activeVars, vars

-----------------------------------------------------------------------------
(* A store without Redis never has anything to restore.                    *)
PairsMatch ==
  /\ ActivePairMatches
  /\ CandidatesMatch
  /\ redis["date"].day = 0
  /\ saves = <<>>

LEMMA PairsStep ==
  ASSUME TypeOK, PairsMatch, ExpiriesListed, ~UsingRedis, [Next]_vars
  PROVE  PairsMatch'
<1> DEFINE Store == redis["date"].day = 0 /\ saves = <<>>
<1>0. CandidatesMatch /\ Store /\ ActivePairMatches
  BY DEF PairsMatch
<1>1. CandidatesMatch'
  BY <1>0, CandidatesMatchStep
<1>2. ActivePairMatches' /\ Store'
  <2>1. CASE Switches
    <3>1. SaveActive /\ IsPair(activeATM', activeSymbols')
      BY <1>0, <2>1, SwitchesToPair
    <3> QED BY <1>0, <3>1 DEF ActivePairMatches, IsPair, SaveActive, SavePipelineState
  <2>2. CASE ~Switches
    <3>1. ~(\E ltp \in Prices : RestoreState(ltp))
      BY <1>0 DEF RestoreState, Loadable
    <3>2. CASE activeSymbols' = {} /\ ~initialSetupDone' /\ (UNCHANGED storeVars \/ SavesPending)
      BY <1>0, <3>2 DEF ActivePairMatches, SavesPending, SavePipelineState, storeVars
    <3>3. CASE /\ UNCHANGED <<activeSymbols, initialSetupDone>>
               /\ initialSetupDone => activeATM' = activeATM
               /\ SaveStep \/ SaveFail \/ NewDay \/ SavesLost \/ UNCHANGED storeVars
      BY <1>0, <3>3 DEF ActivePairMatches, SaveStep, SaveFail, NewDay, SavesLost, storeVars
    <3> QED BY <2>2, <3>1, <3>2, <3>3, OtherSteps
  <2> QED BY <2>1, <2>2
<1> QED BY <1>1, <1>2 DEF PairsMatch

(* Without Redis the pair traded is that of the strike in some expiry,     *)
(* whatever shifts, rejections and restarts happened.  With Redis two      *)
(* saves may mix their keys, and a restart takes them as they are.         *)
THEOREM PairStaysWithStrike ==
  ASSUME ~UsingRedis, ExpiriesListed
  PROVE  Spec => []ActivePairMatches
<1>1. Init => PairsMatch
  BY DEF Init, PairsMatch, CandidatesMatch, ActivePairMatches, EmptyRedis
<1>2. TypeOK /\ PairsMatch /\ [Next]_vars => PairsMatch'
  BY PairsStep, ~UsingRedis, ExpiriesListed
<1>3. PairsMatch => ActivePairMatches
  BY DEF PairsMatch
<1> QED BY <1>1, <1>2, <1>3, PipelineTypeCorrect, PTL DEF Spec

-----------------------------------------------------------------------------
(* What such a mixture can be.  The symbols travel under one key, so what  *)
(* is traded is the pair of one calculation, if not that of the strike.    *)
CalculatedPairs ==
  UNION {{SymbolsFor[k][atm] : atm \in Candidates} : k \in DOMAIN SymbolsFor}

TradesWholePair == initialSetupDone => activeSymbols \in CalculatedPairs

(* And the next confirmed shift, or rejection, brings strike and pair      *)
(* together again, since candidates never lose theirs.                     *)
SwitchMatches == [][Switches => IsPair(activeATM', activeSymbols')]_vars

(* Redis, and the saves on their way to it, hold whole pairs, too.         *)
WholePairs ==
  /\ TradesWholePair
  /\ CandidatesMatch
  /\ StoreTypeOK(Candidates, CalculatedPairs)

LEMMA WholePairsStep ==
  ASSUME TypeOK, BatchOrder, WholePairs, ExpiriesListed, [Next]_vars
  PROVE  WholePairs'
<1>0. CandidatesMatch /\ TradesWholePair /\ StoreTypeOK(Candidates, CalculatedPairs)
  BY DEF WholePairs
<1>1. CandidatesMatch'
  BY <1>0, CandidatesMatchStep
<1>2. TradesWholePair' /\ StoreOperation(Candidates, CalculatedPairs)
  <2>1. CASE Switches
    <3>1. SaveActive /\ activeATM' \in Candidates /\ IsPair(activeATM', activeSymbols')
      BY <1>0, <2>1, SwitchesToPair
    <3>2. activeSymbols' \in CalculatedPairs
      BY <3>1 DEF IsPair, CalculatedPairs
    <3> QED BY <3>1, <3>2 DEF SaveActive, StoreOperation, TradesWholePair
  <2>2. CASE ~Switches
    <3>1. ASSUME NEW ltp \in Prices, RestoreState(ltp)
          PROVE  TradesWholePair' /\ StoreOperation(Candidates, CalculatedPairs)
      BY <1>0, <3>1 DEF RestoreState, Loadable, StoreTypeOK, TradesWholePair, StoreOperation
    <3>2. CASE activeSymbols' = {} /\ ~initialSetupDone' /\ (UNCHANGED storeVars \/ SavesPending)
      <4>1. TradesWholePair'
        BY <3>2 DEF TradesWholePair
      <4>2. CASE SavesPending
        <5>1. PICK i \in DOMAIN pendingShifts :
                SavePipelineState(pendingShifts[i].atm, pendingShifts[i].symbols)
          BY <4>2 DEF SavesPending
        <5>2. pendingShifts[i].atm \in Candidates /\ pendingShifts[i].symbols \in CalculatedPairs
          BY <1>0, PendingShiftTyped DEF CandidatesMatch, IsPair, CalculatedPairs, TypeOK
        <5> QED BY <4>1, <5>1, <5>2 DEF StoreOperation
      <4> QED BY <3>2, <4>1, <4>2 DEF StoreOperation
    <3>3. CASE /\ UNCHANGED <<activeSymbols, initialSetupDone>>
               /\ SaveStep \/ SaveFail \/ NewDay \/ SavesLost \/ UNCHANGED storeVars
      BY <1>0, <3>3 DEF TradesWholePair, StoreOperation, SavesLost
    <3> QED BY <2>2, <3>1, <3>2, <3>3, OtherSteps
  <2> QED BY <2>1, <2>2
<1>3. StoreTypeOK(Candidates, CalculatedPairs)'
  BY <1>0, <1>2, StoreOperationKeepsStore
<1> QED BY <1>1, <1>2, <1>3 DEF WholePairs

LEMMA InitWhole == Init => WholePairs
<1> SUFFICES ASSUME Init PROVE WholePairs
  OBVIOUS
<1>1. saves \in Seq(SaveRecord(Candidates, CalculatedPairs)) /\ Len(saves) = 0
  BY EmptySeq DEF Init
<1>2. StoreTypeOK(Candidates, CalculatedPairs)
  BY <1>1, StateStoreAssumption DEF Init, StoreTypeOK, SaveRecord, EmptyRedis
<1> QED BY <1>2 DEF Init, WholePairs, TradesWholePair, CandidatesMatch

(* With Redis and every fault: interleaved and half-done saves, crashes    *)
(* and restarts never put together a pair that calculateSymbols did not,   *)
(* and a strike that was restored beside another's pair loses it at the    *)
(* next switch (pipeline.go:120, 265, 463).                                *)
THEOREM RestartsTradeWholePairs ==
  ASSUME ExpiriesListed
  PROVE  Spec => []TradesWholePair /\ SwitchMatches
<1>1. TypeOK /\ BatchOrder /\ WholePairs /\ [Next]_vars => WholePairs'
  BY WholePairsStep, ExpiriesListed
<1>2. TypeOK /\ WholePairs => (Switches => IsPair(activeATM', activeSymbols'))
  BY SwitchesToPair, ExpiriesListed DEF WholePairs
<1>3. WholePairs => TradesWholePair
  BY DEF WholePairs
<1>4. Spec => []WholePairs
  BY InitWhole, <1>1, PipelineTyped, PTL DEF Spec
<1>5. Spec => [][TypeOK /\ WholePairs]_vars
  BY <1>4, PipelineTypeCorrect, PTL
<1>6. [][TypeOK /\ WholePairs]_vars => SwitchMatches
  BY <1>2, PTL DEF SwitchMatches
<1> QED BY <1>3, <1>4, <1>5, <1>6, PTL
=============================================================================
