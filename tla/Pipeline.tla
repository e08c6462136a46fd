------------------------------ MODULE Pipeline ------------------------------
(***************************************************************************)
(* symbols/pipeline.go with the tick loop of main.go: which strike the     *)
(* strategy trades, which strikes are buffered as candidates, and when a   *)
(* candidate is confirmed.                                                 *)
(*                                                                         *)
(* Ticks, timer goroutines and rejection callbacks take p.mu, so each      *)
(* critical section is one action; between them anything may happen: a     *)
(* fired timer's goroutine waits for the lock while a tick restarts the    *)
(* countdown, a save is half done when the process dies, a rejection       *)
(* arrives after the switch it was about.                                  *)
(***************************************************************************)
EXTENDS Subscriptions, StateStore

CONSTANTS
  Prices,        \* Nifty prices of the ticks; 0 is a message without "ltp"
  ATMOf,         \* price -> strike, ComputeATMStrike
  SymbolsFor,    \* expiry index -> strike -> symbols, calculateSymbols
  ExpiryCounts,  \* how many expiries an IMF loaded at boot may have
  Weeks,         \* values expiry_week takes under hot reload
  Confirms,      \* strike_change_confirm_seconds, likewise
  Extras,        \* strike_change_extra_seconds, likewise
  MaxConfirm,    \* max_confirm_seconds, never reloaded
  FallbackExtra, \* startShift's 60 when the configured extra is not positive
  Faults,        \* which of "disconnect", "savefail", "crash", "midnight" may happen
  Lateness,      \* BOUND: seconds a due timer, or a goroutine for the lock, may wait
  MaxTime,       \* BOUND: seconds of a behaviour
  QuietAfter,    \* BOUND: no tick arrives later than this
  MaxPending     \* BOUND: shifts pending at once

ASSUME PipelineAssumption ==
  /\ Prices \subseteq Nat
  /\ Extras \subseteq Nat /\ Confirms \subseteq Nat /\ Weeks \subseteq Int
  /\ {MaxConfirm, FallbackExtra, Lateness, MaxTime, QuietAfter, MaxPending} \subseteq Nat
  /\ Faults \subseteq {"disconnect", "savefail", "crash", "midnight"}

Candidates == {ATMOf[p] : p \in Prices}

(* A strike is a number, and its symbols are options of the exchange.      *)
ASSUME SymbolsAssumption ==
  /\ Candidates \subseteq Nat
  /\ ExpiryCounts \subseteq Nat
  /\ \A n \in ExpiryCounts : \A k \in 0..(n - 1), atm \in Candidates :
       SymbolsFor[k][atm] \subseteq Symbols \ {Index}

VARIABLES
  activeATM,          \* 0: not initialised
  activeSymbols,
  activeExpiryOffset,
  lastNiftyLTP,
  pendingShifts,      \* oldest first, [atm, symbols, at]
  shiftTimer,         \* due time of the timer p.shiftTimer refers to, None if not armed
  timerTarget,
  maxTimerDeadline,
  strays,             \* due times of armed timers that nothing refers to any more
  evals,              \* evaluateShifts goroutines waiting for the lock: since when
  initialSetupDone,   \* local to main's pipeline goroutine
  expiries,           \* number of expiries in the IMF
  proc,               \* "running", "crashed", or "panicked"
  now

None == -1

shiftVars == <<pendingShifts, shiftTimer, timerTarget, maxTimerDeadline, strays>>
activeVars == <<activeATM, activeSymbols, activeExpiryOffset>>
procVars == <<initialSetupDone, expiries, proc>>
vars == <<activeVars, lastNiftyLTP, shiftVars, evals, procVars, now, clientVars, storeVars>>

Init ==
  /\ activeATM = 0
  /\ activeSymbols = {}
  /\ activeExpiryOffset = 0
  /\ lastNiftyLTP = 0
  /\ pendingShifts = <<>>
  /\ shiftTimer = None
  /\ timerTarget = 0
  /\ maxTimerDeadline = 0
  /\ strays = <<>>
  /\ evals = <<>>
  /\ initialSetupDone = FALSE
  /\ expiries \in ExpiryCounts
  /\ proc = "running"
  /\ now = 0
  /\ connected = TRUE
  /\ symbols = {Index}
  /\ feed = {Index}
  /\ rejections = <<>>
  /\ redis = EmptyRedis
  /\ saves = <<>>
  /\ today = 1

-----------------------------------------------------------------------------
(* calculateSymbols, as far as the callers can tell: an error when the IMF *)
(* has no expiry, symbols when the week index is in the list, and an index *)
(* out of range when it is past the end.                                   *)
WeekIndex(week, offset) == IF week + offset < 0 THEN 0 ELSE week + offset

CalculationFails == expiries = 0
CalculationPanics(week, offset) == expiries > 0 /\ WeekIndex(week, offset) >= expiries
CalculationWorks(week, offset) == WeekIndex(week, offset) < expiries
Calculated(week, offset, atm) == SymbolsFor[WeekIndex(week, offset)][atm]

(* SavePipelineState in a goroutine of its own. *)
SaveActive == SavePipelineState(activeATM', activeSymbols')

(* Replacing p.shiftTimer drops the reference to the old timer, and does   *)
(* not stop it.                                                            *)
Abandoned == IF shiftTimer = None THEN strays ELSE Append(strays, shiftTimer)

(* The base timer of a countdown and its ceiling. *)
StartTimer ==
  \E confirm \in Confirms :
    /\ timerTarget' = now + confirm
    /\ maxTimerDeadline' = now + MaxConfirm
    /\ shiftTimer' = timerTarget'
    /\ strays' = Abandoned

(* Mutant of ExtendedTarget: the extension is not capped. *)
UncappedTarget(extra) == timerTarget + extra

(* The target moved by the extra time, but never past the ceiling. *)
ExtendedTarget(extra) ==
  LET target == timerTarget + (IF extra <= 0 THEN FallbackExtra ELSE extra)
  IN IF target > maxTimerDeadline THEN maxTimerDeadline ELSE target

(* Mutant of ExtendTimer: the timer is stopped and not armed again. *)
StopTimer ==
  /\ \E extra \in Extras : timerTarget' = ExtendedTarget(extra)
  /\ shiftTimer' = None
  /\ UNCHANGED <<maxTimerDeadline, strays>>

(* Stop the timer and arm it for the new target, which may be in the past. *)
ExtendTimer ==
  /\ \E extra \in Extras : timerTarget' = ExtendedTarget(extra)
  /\ shiftTimer' = timerTarget'
  /\ UNCHANGED <<maxTimerDeadline, strays>>

(* startShift on top of the shifts pend: subscribe at once, then start a   *)
(* countdown or extend the running one.                                    *)
StartShift(pend, atm) ==
  \E week \in Weeks :
    LET syms == Calculated(week, activeExpiryOffset, atm) IN
    /\ CalculationWorks(week, activeExpiryOffset)
    /\ Subscribe(syms)
    /\ Len(pend) < MaxPending
    /\ pendingShifts' = Append(pend, [atm |-> atm, symbols |-> syms, at |-> now])
    /\ IF pend = <<>> THEN StartTimer ELSE ExtendTimer

(* startShift when calculateSymbols returns its error: only logged. *)
StartShiftFails ==
  /\ CalculationFails
  /\ UNCHANGED <<shiftVars, clientVars>>

-----------------------------------------------------------------------------
Running == proc = "running"
TickArrives == Running /\ now <= QuietAfter

(* SetInitialState, first tick of the day with a price: Redis knows the    *)
(* state, which is taken as it is.                                         *)
RestoreState(ltp) ==
  /\ TickArrives
  /\ ~initialSetupDone
  /\ ltp > 0
  /\ Loadable
  /\ redis["atm"].val > 0
  /\ redis["symbols"].val # {}
  /\ activeATM' = redis["atm"].val
  /\ activeSymbols' = redis["symbols"].val
  /\ Subscribe(activeSymbols')
  /\ initialSetupDone' = TRUE
  /\ UNCHANGED <<activeExpiryOffset, lastNiftyLTP, shiftVars, evals, expiries, proc,
                 now, storeVars>>

(* Loading is over when it found nothing; with Redis it may also fail,     *)
(* which counts as nothing found.                                          *)
NothingRestored == UsingRedis \/ ~Loadable

(* SetInitialState from the live price. *)
InitialiseFromPrice(ltp) ==
  /\ TickArrives
  /\ ~initialSetupDone
  /\ ltp > 0
  /\ NothingRestored
  /\ activeATM' = ATMOf[ltp]
  /\ \E week \in Weeks :
       /\ CalculationWorks(week, activeExpiryOffset)
       /\ activeSymbols' = Calculated(week, activeExpiryOffset, ATMOf[ltp])
       /\ Subscribe(activeSymbols')
  /\ SaveActive
  /\ initialSetupDone' = TRUE
  /\ UNCHANGED <<activeExpiryOffset, lastNiftyLTP, shiftVars, evals, expiries, proc, now>>

(* SetInitialState returns an error, with the strike already assigned; the *)
(* tick loop tries again on the next tick.                                 *)
InitialisationFails(ltp) ==
  /\ TickArrives
  /\ ~initialSetupDone
  /\ ltp > 0
  /\ NothingRestored
  /\ CalculationFails
  /\ activeATM' = ATMOf[ltp]
  /\ UNCHANGED <<activeSymbols, activeExpiryOffset, lastNiftyLTP, shiftVars, evals,
                 procVars, now, clientVars, storeVars>>

(* Mutant of ReferenceATM: always the active strike. *)
ReferenceIsActive == activeATM

(* ProcessNiftyTick, which the tick loop calls once initialised, whatever  *)
(* the price.  The reference strike is the newest candidate's while a      *)
(* countdown runs, the active one otherwise.                               *)
ReferenceATM ==
  IF pendingShifts = <<>> THEN activeATM ELSE Last(pendingShifts).atm

Moves(ltp) == activeATM # 0 /\ ATMOf[ltp] # ReferenceATM

NiftyTickNoShift(ltp) ==
  /\ TickArrives
  /\ initialSetupDone
  /\ ~Moves(ltp)
  /\ lastNiftyLTP' = ltp
  /\ UNCHANGED <<activeVars, shiftVars, evals, procVars, now, clientVars, storeVars>>

NiftyTickShift(ltp) ==
  /\ TickArrives
  /\ initialSetupDone
  /\ Moves(ltp)
  /\ lastNiftyLTP' = ltp
  /\ \/ StartShift(pendingShifts, ATMOf[ltp])
     \/ StartShiftFails
  /\ UNCHANGED <<activeVars, evals, procVars, now, storeVars>>

-----------------------------------------------------------------------------
(* A timer fires: its goroutine waits for the lock. *)
FireTimer ==
  /\ Running
  /\ shiftTimer # None
  /\ shiftTimer <= now
  /\ shiftTimer' = None
  /\ evals' = Append(evals, now)
  /\ UNCHANGED <<activeVars, lastNiftyLTP, pendingShifts, timerTarget, maxTimerDeadline,
                 strays, procVars, now, clientVars, storeVars>>

FireStray ==
  /\ Running
  /\ \E i \in DOMAIN strays :
       /\ strays[i] <= now
       /\ strays' = RemoveAt(strays, i)
  /\ evals' = Append(evals, now)
  /\ UNCHANGED <<activeVars, lastNiftyLTP, pendingShifts, shiftTimer, timerTarget,
                 maxTimerDeadline, procVars, now, clientVars, storeVars>>

(* Any of the waiting goroutines gets the lock next. *)
TakeLock == \E k \in DOMAIN evals : evals' = RemoveAt(evals, k)

(* evaluateShifts: the newest shift with at least extra seconds of data,   *)
(* or else the oldest.                                                     *)
HasData(i, extra) == now - pendingShifts[i].at >= extra

Selects(i, extra) ==
  /\ i \in DOMAIN pendingShifts
  /\ HasData(i, extra) \/ i = 1
  /\ \A j \in DOMAIN pendingShifts : j > i => ~HasData(j, extra)

(* Mutant of SwitchTo: the strike changes, its symbols do not. *)
SwitchStrikeOnly(shift) ==
  /\ activeATM' = shift.atm
  /\ UNCHANGED <<activeSymbols, activeExpiryOffset>>
  /\ SaveActive

(* The strategy trades the shift from now on, and Redis will know. *)
SwitchTo(shift) ==
  /\ activeATM' = shift.atm
  /\ activeSymbols' = shift.symbols
  /\ UNCHANGED activeExpiryOffset
  /\ SaveActive

MarketMovedOn(atm) == lastNiftyLTP > 0 /\ ATMOf[lastNiftyLTP] # atm

SymbolsOf(shifts) == UNION {shifts[i].symbols : i \in DOMAIN shifts}

(* Mutant of Obsolete: the shifts that stay pending are forgotten. *)
ObsoleteWithKept(selected, kept) ==
  (activeSymbols \cup SymbolsOf(pendingShifts)) \ selected.symbols

(* What evaluateShifts gives back, when it gets that far. *)
Obsolete(selected, kept) ==
  ((activeSymbols \cup SymbolsOf(pendingShifts)) \ selected.symbols) \ SymbolsOf(kept)

EvaluateNothing ==
  /\ Running
  /\ TakeLock
  /\ pendingShifts = <<>>
  /\ UNCHANGED <<activeVars, lastNiftyLTP, shiftVars, procVars, now, clientVars, storeVars>>

Evaluates(i) ==
  /\ Running
  /\ TakeLock
  /\ \E extra \in Extras : Selects(i, extra)
  /\ SwitchTo(pendingShifts[i])
  /\ UNCHANGED <<lastNiftyLTP, procVars, now>>

(* Mutant of EvaluateMarketMoved: history is cleared, no cycle is started. *)
EvaluateForgetsMarket(i) ==
  /\ Evaluates(i)
  /\ MarketMovedOn(pendingShifts[i].atm)
  /\ pendingShifts' = <<>>
  /\ shiftTimer' = None
  /\ strays' = Abandoned
  /\ UNCHANGED <<timerTarget, maxTimerDeadline, clientVars>>

(* The live strike is not the confirmed one: a cycle of its own starts and *)
(* the function returns before its clean-up.  startShift cannot return its *)
(* error here: the selected shift was calculated from the same expiries.   *)
EvaluateMarketMoved(i) ==
  /\ Evaluates(i)
  /\ MarketMovedOn(pendingShifts[i].atm)
  /\ StartShift(<<>>, ATMOf[lastNiftyLTP])

(* No such mismatch, yet a newer shift is left: another base countdown,    *)
(* under the old ceiling.                                                  *)
EvaluateFollowUp(i) ==
  /\ Evaluates(i)
  /\ ~MarketMovedOn(pendingShifts[i].atm)
  /\ pendingShifts[i].atm # Last(pendingShifts).atm
  /\ pendingShifts' = SubSeq(pendingShifts, i + 1, Len(pendingShifts))
  /\ \E confirm \in Confirms : timerTarget' = now + confirm
  /\ shiftTimer' = timerTarget'
  /\ strays' = Abandoned
  /\ Unsubscribe(Obsolete(pendingShifts[i], pendingShifts'))
  /\ UNCHANGED maxTimerDeadline

(* Caught up with the market: the timer is forgotten, not stopped. *)
EvaluateCaughtUp(i) ==
  /\ Evaluates(i)
  /\ ~MarketMovedOn(pendingShifts[i].atm)
  /\ pendingShifts[i].atm = Last(pendingShifts).atm
  /\ pendingShifts' = <<>>
  /\ shiftTimer' = None
  /\ strays' = Abandoned
  /\ Unsubscribe(Obsolete(pendingShifts[i], <<>>))
  /\ UNCHANGED <<timerTarget, maxTimerDeadline>>

Evaluate ==
  \/ EvaluateNothing
  \/ \E i \in DOMAIN pendingShifts :
       EvaluateMarketMoved(i) \/ EvaluateFollowUp(i) \/ EvaluateCaughtUp(i)

-----------------------------------------------------------------------------
(* handleInvalidSymbols for symbols that are not the active ones. *)
IgnoreRejection ==
  /\ Running
  /\ rejections # <<>>
  /\ Head(rejections) \cap activeSymbols = {}
  /\ rejections' = Tail(rejections)
  /\ UNCHANGED <<connected, symbols, feed, activeVars, lastNiftyLTP, shiftVars, evals,
                 procVars, now, storeVars>>

(* ... and for active ones: the next expiry, from now on. *)
RejectionOfActive ==
  /\ rejections # <<>>
  /\ Head(rejections) \cap activeSymbols # {}

AdvanceExpiry ==
  /\ Running
  /\ RejectionOfActive
  /\ activeExpiryOffset' = activeExpiryOffset + 1
  /\ UNCHANGED activeATM
  /\ \E week \in Weeks :
       /\ CalculationWorks(week, activeExpiryOffset')
       /\ activeSymbols' = Calculated(week, activeExpiryOffset', activeATM)
       /\ SubscribeUnread(activeSymbols', Tail(rejections))
  /\ SaveActive
  /\ UNCHANGED <<lastNiftyLTP, shiftVars, evals, procVars, now>>

AdvanceExpiryFails ==
  /\ Running
  /\ RejectionOfActive
  /\ CalculationFails
  /\ activeExpiryOffset' = activeExpiryOffset + 1
  /\ rejections' = Tail(rejections)
  /\ UNCHANGED <<activeATM, activeSymbols, lastNiftyLTP, shiftVars, evals, procVars, now,
                 connected, symbols, feed, storeVars>>

-----------------------------------------------------------------------------
(* The process ends, and its memory and timers are gone.  Redis may still  *)
(* see some of what it was sending: the goroutines of its saves run on     *)
(* until a panic has ended them.                                           *)
Die(how) ==
  /\ Running
  /\ proc' = how
  /\ activeATM' = 0
  /\ activeSymbols' = {}
  /\ activeExpiryOffset' = 0
  /\ lastNiftyLTP' = 0
  /\ pendingShifts' = <<>>
  /\ shiftTimer' = None
  /\ timerTarget' = 0
  /\ maxTimerDeadline' = 0
  /\ strays' = <<>>
  /\ evals' = <<>>
  /\ initialSetupDone' = FALSE
  /\ ClientDown
  /\ UNCHANGED <<expiries, now>>

(* expiries[weekIdx] past the end of the list: a runtime panic in a tick   *)
(* or a callback goroutine, ...                                            *)
IndexOutOfRange ==
  /\ Die("panicked")
  /\ \E week \in Weeks :
       \/ /\ CalculationPanics(week, activeExpiryOffset)
          /\ \/ TickArrives /\ initialSetupDone /\ \E ltp \in Prices : Moves(ltp)
             \/ TickArrives /\ ~initialSetupDone /\ NothingRestored
       \/ CalculationPanics(week, activeExpiryOffset + 1) /\ RejectionOfActive
  /\ UNCHANGED storeVars

(* ... or in a timer's, when it has begun to save the switch. *)
EvaluatePanics ==
  /\ Die("panicked")
  /\ evals # <<>>
  /\ \E week \in Weeks : CalculationPanics(week, activeExpiryOffset)
  /\ \E i \in DOMAIN pendingShifts, extra \in Extras :
       /\ Selects(i, extra)
       /\ MarketMovedOn(pendingShifts[i].atm)
       /\ SavePipelineState(pendingShifts[i].atm, pendingShifts[i].symbols)

Crash == "crash" \in Faults /\ Die("crashed") /\ UNCHANGED storeVars

(* Started again, possibly with another instrument file; what had not      *)
(* reached Redis never will.                                               *)
Restart ==
  /\ proc # "running"
  /\ proc' = "running"
  /\ expiries' \in ExpiryCounts
  /\ ClientBoot
  /\ saves' = <<>>
  /\ UNCHANGED <<activeVars, lastNiftyLTP, shiftVars, evals, initialSetupDone, now, redis, today>>

ConnectionStep ==
  /\ "disconnect" \in Faults
  /\ Running
  /\ Disconnect \/ Reconnect
  /\ UNCHANGED <<activeVars, lastNiftyLTP, shiftVars, evals, procVars, now, storeVars>>

StoreStep ==
  /\ \/ SaveStep
     \/ "savefail" \in Faults /\ SaveFail
     \/ "midnight" \in Faults /\ NewDay
  /\ UNCHANGED <<activeVars, lastNiftyLTP, shiftVars, evals, procVars, now, clientVars>>

(* A second passes, unless something has been due for too long. *)
Due(target) == target # None /\ now >= target + Lateness

ClockTick ==
  /\ now < MaxTime
  /\ ~Due(shiftTimer)
  /\ \A i \in DOMAIN strays : ~Due(strays[i])
  /\ \A k \in DOMAIN evals : ~Due(evals[k])
  /\ now' = now + 1
  /\ UNCHANGED <<activeVars, lastNiftyLTP, shiftVars, evals, procVars, clientVars, storeVars>>

Next ==
  \/ \E ltp \in Prices :
       \/ RestoreState(ltp)
       \/ InitialiseFromPrice(ltp)
       \/ InitialisationFails(ltp)
       \/ NiftyTickNoShift(ltp)
       \/ NiftyTickShift(ltp)
  \/ FireTimer
  \/ FireStray
  \/ Evaluate
  \/ IgnoreRejection
  \/ AdvanceExpiry
  \/ AdvanceExpiryFails
  \/ IndexOutOfRange
  \/ EvaluatePanics
  \/ Crash
  \/ Restart
  \/ ConnectionStep
  \/ StoreStep
  \/ ClockTick

Spec == Init /\ [][Next]_vars
(* Timers fire and goroutines get the lock: the Go runtime runs what is    *)
(* ready, and sync.Mutex starves nobody.  Ticks, rejections and faults are *)
(* owed to no one.                                                         *)
Fairness ==
  /\ WF_vars(FireTimer)
  /\ WF_vars(FireStray)
  /\ WF_vars(Evaluate)
  /\ WF_vars(ClockTick)

FairSpec == Spec /\ Fairness

-----------------------------------------------------------------------------
Options == Symbols \ {Index}
Shift == [atm : Candidates, symbols : SUBSET Options, at : 0..now]

ActiveOK ==
  /\ activeATM \in Candidates \cup {0}
  /\ activeSymbols \in SUBSET Options
  /\ activeSymbols # {} => activeATM \in Candidates
  /\ activeExpiryOffset \in Nat
  /\ lastNiftyLTP \in Prices \cup {0}

QueueOK ==
  /\ pendingShifts \in Seq(Shift)
  /\ Len(pendingShifts) <= MaxPending

TimersOK ==
  /\ shiftTimer \in {None, timerTarget}
  /\ timerTarget \in Nat
  /\ maxTimerDeadline \in Nat
  /\ strays \in Seq(Nat)
  /\ evals \in Seq(0..now)

ClientOK ==
  /\ connected \in BOOLEAN
  /\ feed \subseteq symbols
  /\ symbols \subseteq Symbols

ProcessOK ==
  /\ initialSetupDone \in BOOLEAN
  /\ expiries \in ExpiryCounts
  /\ proc \in {"running", "crashed", "panicked"}
  /\ now \in 0..MaxTime

(* The values the variables of the pipeline, the client and the store      *)
(* range over: among them, an armed timer is armed for the current target, *)
(* what is active or pending are options of a candidate strike, and the    *)
(* exchange streams nothing that the client would not repeat.              *)
TypeOK ==
  /\ ActiveOK
  /\ QueueOK
  /\ TimersOK
  /\ ClientOK
  /\ ProcessOK
  /\ StoreTypeOK(Candidates, SUBSET Options)

(* A countdown never hangs: while shifts are pending, the current timer is *)
(* armed or its goroutine is on its way, whatever Stop came too late and   *)
(* however many stale timers are about.                                    *)
CountdownIsArmed ==
  pendingShifts # <<>> => shiftTimer # None \/ evals # <<>>

(* The newest candidate is the strike of the latest price: ticks, cut      *)
(* history and fresh cycles never leave the queue aiming elsewhere.        *)
LatestPendingIsLive ==
  pendingShifts # <<>> => Last(pendingShifts).atm = ATMOf[lastNiftyLTP]

(* With nothing pending the strategy trades the strike of the latest       *)
(* price: no evaluation, however early or late, leaves it on a stale one.  *)
StableMeansOnMarket ==
  (initialSetupDone /\ pendingShifts = <<>> /\ expiries > 0 /\ lastNiftyLTP > 0)
    => activeATM = ATMOf[lastNiftyLTP]

(* What is traded or buffered is streamed: the clean-up of one cycle never *)
(* cuts a symbol that the new active pair or a kept shift shares with an   *)
(* old one, and a reconnect brings everything back.                        *)
FeedCoversInterest ==
  connected => Granted(activeSymbols \cup SymbolsOf(pendingShifts) \cup {Index}) \subseteq feed

(* What may bound a countdown: a base confirmation or the ceiling, which   *)
(* nothing in the code compares with each other.                           *)
Limits == Confirms \cup {MaxConfirm}

(* TestPipeline_MaxCeiling: extensions never push the target of a          *)
(* countdown past max_confirm_seconds after its first shift, unless the    *)
(* base confirmation was longer than that, nor do they move it before the  *)
(* shorter of the two.  This is the target alone: a stray timer may end    *)
(* the countdown before it.                                                *)
CountdownWithinBounds ==
  pendingShifts # <<>> =>
    /\ \E limit \in Limits : timerTarget >= Head(pendingShifts).at + limit
    /\ \E limit \in Limits : timerTarget <= Head(pendingShifts).at + limit

(* And the shifts are not pending for longer, apart from what a due timer  *)
(* and then its goroutine may be late: no extension, late Stop or target   *)
(* in the past delays the evaluation any further.                          *)
CountdownEndsInTime ==
  pendingShifts # <<>> =>
    \E limit \in Limits : now <= Head(pendingShifts).at + limit + 2 * Lateness

(* The strikes subscribed for an ATM stay with that ATM: what is traded is *)
(* the pair of the active strike in some expiry.                           *)
ActivePairMatches ==
  initialSetupDone =>
    \E k \in DOMAIN SymbolsFor : activeSymbols = SymbolsFor[k][activeATM]

(* A restart never resumes what an earlier trading day left behind, however *)
(* a batch was cut off: the date is written last and read first.           *)
NeverRestoresYesterday ==
  Loadable => redis["atm"].day = today /\ redis["symbols"].day = today

(* Once the market is quiet the pipeline ends up on its strike, with no    *)
(* countdown left.                                                         *)
Settles ==
  <>[](lastNiftyLTP > 0 => activeATM = ATMOf[lastNiftyLTP] /\ pendingShifts = <<>>)

-----------------------------------------------------------------------------
(* What comments and docs say of the program and the code does not keep;   *)
(* a run of its own shows each.                                            *)

(* "One Nifty index + 1-2 option strikes subscribed at any time"           *)
(* (implementation_plan.md:89): in a stable market, the active pair only.  *)
StableFeedIsActivePair ==
  (initialSetupDone /\ pendingShifts = <<>>) => feed \subseteq activeSymbols \cup {Index}

(* "Automatically increments if Fyers rejects an expiry" (pipeline.go:83): *)
(* once every rejection was handled, nothing rejected is traded.           *)
RejectedIsReplaced ==
  (connected /\ rejections = <<>>) => activeSymbols \cap Invalid = {}

(* "switch to the chronologically newest strike that has AT LEAST          *)
(* `extra_time` worth of data" (pipeline.go:285): also the very first      *)
(* shift, which is confirmed without being asked for it.                   *)
SwitchesHaveExtraData ==
  [][\A i \in DOMAIN pendingShifts :
        Evaluates(i) => \E extra \in Extras : HasData(i, extra)]_vars

(* "Ensure the new valid state makes it to Redis" (pipeline.go:502): when  *)
(* every save has gone through, Redis holds the active state.              *)
RedisHoldsActive ==
  (UsingRedis /\ initialSetupDone /\ saves = <<>>)
    => redis["atm"].val = activeATM /\ redis["symbols"].val = activeSymbols
=============================================================================
