# A TLA+ model of the Fyers options trading system

The system (Go, `src/`) listens to the Nifty index on a broker's websocket,
decides which at-the-money strike its strategy trades, keeps the option symbols
of that strike subscribed, and survives restarts through Redis. This directory
holds TLA+ modules for the parts with state and concurrency, TLC
configurations that check them on small instances, and TLAPS proofs for every
value of the constants.

Contents: [inventory](#1-inventory), [modules and code](#2-modules-and-code),
[runs](#3-what-each-run-checks), [bounds](#4-bounds-and-why-they-are-enough),
[fairness](#5-fairness), [proofs](#6-what-is-proved),
[disagreements](#7-where-the-code-and-its-documentation-disagree),
[not modelled](#8-not-modelled-and-why), [plan](#9-plan).

## 1. Inventory

```
 Fyers websocket --onMessage--> RingBuffer --Reader.Next--> TickStore
   ^      |                                             --> LatencyMonitor
   |      | invalid_symbols                             --> tick logger (main)
   |      v                                             --> tick loop (main)
 FyersWSClient <--Subscribe/Unsubscribe-- Pipeline <--------------+
                                           |   ^  ^
                      SavePipelineState    |   |  +-- timers: evaluateShifts
                      (own goroutine)      v   +-- IMF expiries, trading.json getters
                                         Redis
```

| component | source | state | operations | hard behaviour | what makes it correct |
|---|---|---|---|---|---|
| Ring buffer | `marketdata/ringbuffer.go` | slots, `writePos`, `closed`, a cursor per reader | `Write`, `Close`, `NewReader`, `Next` | lock-free: the producer overwrites a slot between a reader's lap check and its read; a nil result ends a consumer | nobody gets a stale tick, is skipped early, or ends before `Close`; everybody ends after it |
| Subscription pipeline | `symbols/pipeline.go`, the tick loop of `main.go` | active strike, symbols and expiry offset; pending shifts; a timer, its target and ceiling | first tick, later ticks, `startShift`, `evaluateShifts`, `handleInvalidSymbols` | timers that fire while they are stopped or replaced, goroutines waiting for `p.mu`, rejections that arrive late, config that changes between two getters | a countdown never hangs or overruns, candidates and the traded strike follow the market, what is traded or buffered is streamed |
| WebSocket client | `marketdata/client.go` | connection, `c.symbols` (a slice without a lock) | `Connect`, `Subscribe`, `Unsubscribe`, `onConnect`, `onMessage`, `onError` | dropped connections, a resubscription that reads the slice while it is appended to, messages in flight | a reconnect brings back all of interest |
| State store | `infra/redis.go`, `infra/noop.go` | three keys of the pipeline (others have no caller) | `SavePipelineState`, `LoadPipelineState`, `DumpAll` | batches that fail half way or interleave, process death with a save in flight | a restart never resumes an earlier day |
| Instrument master file (IMF) | `symbols/imf.go` | `data/NSE_FO.csv` and its modification time, the parsed expiries and strikes | `Initialize`, `FindNearestStrike` | a download cut off or running over midnight; the next boot trusts it; a binary search at the ends of its list | a boot serves one download from its first row on, fetched or last written on the day it checks; the search ends and is right |
| Option symbols | `symbols/nifty.go`, `calculateSymbols` | none | rounding, offsets, snapping to listed strikes, walking the expiries | a reload between two of its getters; strikes that snap to the same symbol; an expiry index past the list | the nearest pair of a configuration that was in force |
| Trading expiry | `symbols/expiry.go` | none | `GetTradingExpiry` | none; only tests call it | - |
| Configuration | `config/config.go` | `trading.json` fields under an RWMutex | `LoadTradingConfig`, getters, `Reload` every 2 s | an edit read half written; a reload between two getters; fields `Reload` forgets | what is in force was in the file; an edit comes into force |
| Tick store | `marketdata/tickstore.go` | symbol -> latest tick | `StartReader`, `Get` | after a lap the ring hands it a tick out of order | it ends on the last tick |
| Latency monitor | `marketdata/latency.go` | counters | a periodic log line | none | - |
| Tick pool | `marketdata/tick.go` | `sync.Pool` | acquire, release | ticks in the ring are never released | - |
| Replicator, export | `infra/replicator.go` | none | `Run` (no caller), `ConnectStore`, `ExportStateJSON` | none while running | - |
| Boot and shutdown | `main.go` | order of goroutines, `ticksLog`, `doneChan` | boot, wait for a signal, close, write `ticks.txt` | shutdown waits for one reader only, and not for the socket's callback | it ends; what the logger could see is in the file |
| Analytics, test indexer | `analytics/`, `test_indexer/` | none | offline tools | none | - |

The pipeline calls the client while it holds `p.mu`; ticks, timers and
rejections are three kinds of goroutine that compete for that lock. Saves are
goroutines that hold no lock. The ring is the only thing the socket's thread
and the consumers share.

## 2. Modules and code

| module | models | what corresponds to what |
|---|---|---|
| `TickFeed` | what consumers may rely on | the abstract feed: numbered ticks, a window, cursors. No slots, no atomics. |
| `RingBuffer` | `ringbuffer.go` | one action per atomic load or store: `WriteSlot`/`Publish` are the two halves of `Write`; `LoadPos`, `CheckClosed` and `ReadSlot` are the three accesses of `Next`. A tick is its arrival number. `ImplementsFeed` is the refinement of `TickFeed`, with `Written` (the tick in its slot but not yet published counts) for `produced`. |
| `Session` | `main.go` from the readers to "Goodbye!", `tickstore.go` | extends `RingBuffer`: each of its actions is taken by `main`, the socket or a consumer. `mpc` is where `main` stands; `Deliver` is the return of `Next` with what the tick store or the logger does with the tick; `CloseSocket`, `CloseRing`, `WaitForLogger`, `Export`, `SaveTicks` are the shutdown line by line. |
| `Subscriptions` | `client.go` as callers see it | `symbols` is `c.symbols`; `feed` is what the exchange streams; `rejections` the error messages not yet handled. Each call is atomic. |
| `WSClient` | `Subscribe`, `Unsubscribe`, `onConnect` taken apart | `array` and `length` are the slice header of `c.symbols`; `AppendInPlace`, or `AppendLength` then `AppendPointer`, is `append`; `LoadLength`, `LoadSlice`, `AskAgain` are the accesses of `onConnect` on the SDK's goroutine; `late` counts the `onConnect`s whose connection is gone, `AskLate` is what they still do. |
| `StateStore` | `redis.go`, `noop.go` | a save is a record in `saves` that executes its three SETs one `SaveStep` at a time; `SaveFail` gives up the rest; `Loadable` is the date check. |
| `Pipeline` | `pipeline.go` and the tick loop | extends `Subscriptions` and `StateStore`. One action per critical section of `p.mu` (below). |
| `Strikes` | symbols, the nearest strike | pure: what "nearest" means. |
| `OptionSymbols` | `nifty.go`, the result of `calculateSymbols` | pure: gives `Pipeline` its `ATMOf` and `SymbolsFor`, and is the reference of `SymbolChoice`. |
| `StrikeSearch` | `FindNearestStrike` | one action per turn of the binary search, one for the comparison with the neighbour below. |
| `IMFCache` | `imf.go` at boot | `Boot`, `UseCached`/`Get`, `Create`, `CopyRow`, `CopyDone`, `CopyFails`, `Parse`; `file.day` is the modification time; a row is an option's expiry, type and strike, `Ascending` the two sorts of the parser. The history `source` is the day of the response that the file's rows are of, `whole` whether its copy went through. |
| `HotReload` | `config.go` and the reload goroutine of `main.go` | `Edit` is somebody's editor, `Load` and `Copy` the two halves of `Reload`; a content that does not load is `Broken`. |
| `SymbolChoice` | `calculateSymbols` step by step | composes `IMFCache`, `HotReload` and `StrikeSearch`: one action per getter, per search and per expiry of the loop, with reloads, edits, crashes and boots in between. |
| `MCRingBuffer`, `MCSession`, `MCPipeline`, `MCIMFCache`, `MCSymbolChoice` | - | instances for TLC (`WSClient` needs none). |
| `RingBufferProofs`, `SessionProofs`, `WSClientProofs`, `StateStoreProofs`, `PipelineProofs`, `StrikeSearchProofs`, `IMFCacheProofs`, `SymbolChoiceProofs` | - | theorems. |

`Pipeline` action by action:

| code | actions |
|---|---|
| `SetInitialState` | `RestoreState`, `InitialiseFromPrice`, `InitialisationFails` (the strike is assigned before the error) |
| `ProcessNiftyTick` + `startShift` | `NiftyTickNoShift`, `NiftyTickShift` |
| `time.AfterFunc` firing | `FireTimer` for `p.shiftTimer`, `FireStray` for a timer whose reference was overwritten; both put a goroutine in `evals` |
| `evaluateShifts` | `EvaluateNothing`, `EvaluateMarketMoved` (post-cycle check, early return), `EvaluateFollowUp`, `EvaluateCaughtUp` |
| `handleInvalidSymbols` | `IgnoreRejection`, `AdvanceExpiry`, `AdvanceExpiryFails` |
| runtime panic of `expiries[weekIdx]` | `IndexOutOfRange` in a tick or a rejection; `EvaluatePanics` in `evaluateShifts`, which has started its save by then (`pipeline.go:303`) |
| environment | `Crash`, `Restart`, `ConnectionStep`, `StoreStep`, `ClockTick` |

Choices worth knowing:

- `p.shiftTimer` is one variable but the program may have many armed timers:
  `startShift` (line 243) and `evaluateShifts` (364, 368) replace or forget the
  reference without `Stop`. The forgotten ones are `strays`. `ExtendTimer` is the
  one place that calls `Stop`, which does not call back a goroutine that already
  waits for the lock; such goroutines are in `evals`, and any of them may be next.
- Each call of a config getter picks a value of its own (`\E extra \in Extras`),
  which is what hot reload allows. `MaxConfirm` is a constant because `Reload` never
  copies `max_confirm_seconds`.
- A message without `"ltp"` becomes a tick of price 0 (`client.go:75`); the tick
  loop filters it before the first successful initialisation only, so 0 may be
  among `Prices`.
- Midnight comes with no save in flight (`NewDay`): saves give up after 3 seconds
  and are started by ticks and timers of a market that closes in the afternoon.
- A death of the process leaves the saves in flight as they are: until the restart,
  Redis may still execute what was sent. The restart forgets the rest. How far a
  save gets after a panic or a kill is so left open.
- A late `onConnect` (`AskLate`) asks with any part of the list, whichever it loaded,
  on whatever connection there is by then, or dies of it once anything was appended.
- Seconds are the grain of time. What happens within a second is in any order,
  and `Lateness` lets a timer or a goroutine fall behind the clock.
- The log line and event file of a shift, the text of symbols, and
  `GetActiveSymbols` (a plain read) are left out.
- `Pipeline` takes `calculateSymbols` as a function of a week index, an offset and
  a strike. That the program computes it from several reads, and what a reload
  between them does, is the subject of `SymbolChoice`, whose reference is the same
  `OptionSymbols`. There the call is made at any time, not by the pipeline.
- `Subscriptions` takes the client's calls whole; `WSClient` is not a refinement of
  it. An `Unsubscribe` between `onConnect`'s load of the slice and its request is
  overtaken by that request, and the symbol stays streamed without being wanted.
  What does hold, and is what the pipeline relies on, is `WantedIsAsked`.
- In `WSClient` the length of the slice is counted in calls, since a call appends
  its whole batch. A build may load the length again or keep the one it compared;
  a torn slice may be read past its array, which is junk or a fault.
- In `Session`, storing or logging a tick is one step with the read of the slot:
  nobody else touches either until the goroutine is over. The context's
  cancellation reaches nothing that consumes ticks, so it is part of `CloseSocket`.
- `Session` lets the socket's callback write after `CloseSocket`: nothing waits for
  it. Ticks of one price and symbol are still different ticks.
- The exchange streams what it knows and reports all unknown symbols of a request
  in one message; this is inferred from how the client handles it, and marked
  external.

## 3. What each run checks

Passing runs:

| run | checks | shows |
|---|---|---|
| `ring` (`RingBuffer.cfg`, `FairSpec`) | `TypeOK`, `SlotsHoldWindow`, `CursorBehindTail`, `NeverBehindCursor`, `ExitOnlyAfterClose`, `ImplementsFeed`, `CloseEndsReaders`, `ReadersCatchUp` | two readers attach and lag at will while the producer wraps: a slot overwritten under a reader gives a newer tick, never an older one; no nil from an empty slot; all readers catch up and end |
| `market` (`FairSpec`) | `CountdownIsArmed`, `LatestPendingIsLive`, `StableMeansOnMarket`, `CountdownWithinBounds`, `CountdownEndsInTime`, `Settles` | a market over three strikes that goes quiet, timers and goroutines late by up to a second: countdowns do not hang, aim at the market, move their target no further than the ceiling, are over within two such delays of it, and the last one leaves the pipeline on the market's strike |
| `rejections` | `ActivePairMatches`, `FeedCoversInterest` | rejected expiries, dropped connections, shared symbols and ticks without a price: the clean-up never cuts what is traded or buffered, and the pair traded is that of the strike |
| `recovery` | `TypeOK`, `NeverRestoresYesterday` | failing saves, crashes, panics (of ticks, rejections and timers, the last with a save begun) and restarts over two days, with and without an IMF, and with a week reloaded that is past the end of the list |
| `client` (`FairSpec`) | `TypeOK`, `WantedIsAsked`, `StreamsInTheEnd` | three overlapping calls of `Subscribe` against connections that come and go at every step: nothing wanted falls between the call and `onConnect`, although they share the slice without a lock and an `onConnect` may outlive its connection |
| `session` (`FairSessionSpec`) | `SessionTypeOK`, `LogIsWhole`, `FileIsDrained`, `StoreEndsOnLast`, `ShutdownEnds` | five ticks on a ring of two slots, a signal at any time, late ticks: the logger misses nothing before it is lapped, the file has all it could see, the tick store ends on the last tick, and the shutdown ends |
| `imf` (`SymbolChoice.cfg`, `FairSpec`) | `TypeOK`, `ServesOneDownload`, `InForceWasWritten`, `FindsNearest`, `PairOfConfigsInForce`, `EditsTakeEffect`, `CallsEnd` | boots, refused or cut-off downloads, crashes and a midnight, with edits and reloads at every step of `calculateSymbols`: a process runs on the rows of one response, from the first on and all of them unless the copy was cut off, and the response, or the last write of the file, is of the day of the check; the pair is what the reference computes from values in force during the call |

Violated on purpose, each stating what a comment or document of the repository
says (section 7): `leak`, `pendingrejected`, `savesrace`, `imffresh`, `earlyconfirm`.

Deadlock checking is off where a behaviour really ends: the pipeline's and the
ring's bounds (`MaxTime`, `MaxWrites`) stop the environment, after which nothing
needs to happen; a session ends with `main`, and the client with a fault or
its last call. Every property of a passing run has a mutant of the code
model, kept beside the definition it changes (`... Mutant of ...`), that breaks it.

## 4. Bounds and why they are enough

| bound | value | reason |
|---|---|---|
| ring `Capacity`, `MaxWrites` | 2 and 6 | the producer wraps three times, so a reader can be lapped at each of its steps and again before it recovers; the proofs drop both bounds |
| session `Capacity`, `MaxWrites` | 2 and 5 | each of the two consumers may be lapped twice, before and after the signal; the proofs drop both bounds |
| client `Batches`, `MaxCalls`, `MaxLate` | the index and two pairs that share the call; 3; 1 | an append within the array and one that outgrows it, a symbol wanted by two calls, one unsubscribed in between; one `onConnect` that outlives its connection beside the one of the next |
| `Prices` | three strikes (`market`), two and the missing price (`rejections`), two (`recovery`) | three are the fewest for a candidate that is neither the active nor the live strike |
| `Confirms`, `Extras`, `MaxConfirm` | 2, 1, 3 in `market`; 3, 2, 4 in `earlyconfirm` | one extension fits under the ceiling, the next is capped; a shift may be younger than the extra time when a forgotten timer fires |
| `Weeks` | 0; 0 and 2 in `recovery` | with two expiries, week 2 is past the list whatever the offset |
| `MaxTime`, `QuietAfter` | 12 and 4 in `market` | ticks for two overlapping countdowns, then time for every timer and a fresh cycle to end; `Settles` needs the quiet part |
| `Lateness` | 1 in `market` | a timer or a goroutine can be overtaken by a tick of the next second; 0 elsewhere, where order within a second is enough |
| `MaxPending` | 1 to 3 | a kept, a selected and a dropped shift at once |
| `MaxSaves`, `MaxDays` | 2, 2 | two batches interleaving, one midnight |
| `MaxRejections` | 0 or 1 | messages still unread when a reconnect repeats a rejected symbol |
| option chain | 2 expiries, one strike missing | two strikes of the first expiry snap to the same call |
| IMF days, rows | 2 and up to 5 (`imf`), 1 and 3 (`imffresh`) | a file of yesterday, one over midnight, one cut at each row; an expiry with calls only, one with both, a target between and outside the listed strikes |
| versions of `trading.json` | 2, different in every field | a mixture of two shows; a third adds no new kind of mixture of three getters |
| `ATMs`, `Offsets` | 75; 0 and 1 | both versions search within the chain, and a week of 1 with an offset of 1 is past it |

## 5. Fairness

`RingBuffer`: `WF` of `Publish` (a producer past its slot store is a runnable
goroutine) and of each reader's step (`Next` spins with `runtime.Gosched`).
Nothing obliges a tick to arrive or `Close` to be called.

`Pipeline`: `WF` of timers firing, of goroutines getting `p.mu` (`sync.Mutex`
starves nobody) and of time. No fairness for ticks, rejections, the connection,
saves, or a restart. Weak fairness is enough since nothing disables these steps
for good without achieving what they were for.

`WSClient`: `WF` of the caller's steps and of `onConnect`'s: both are goroutines
that nothing blocks. No fairness for calls or for the connection;
`StreamsInTheEnd` is about one that stays up.

`Session`: `WF` of `main` after the signal (closing does not block, the export
gives up after ten seconds), of the second half of a write, and of each consumer.
Nobody owes a tick or a signal. `ShutdownEnds` rests on ticks that stop, which
`MaxWrites` stands for: a callback that never stopped writing could keep the logger
busy for ever.

`HotReload`: `WF` of the reloader (a ticker of two seconds; the file is read in
bounded time), none for edits. `SymbolChoice` adds `WF` of a call that has begun.
`IMFCache` states no liveness: a boot may fail for as long as the server does.

## 6. What is proved

All with TLAPS, for any constants that satisfy the named assumptions
(`CapacityAssumption`, `MaxWritesAssumption`, `SessionAssumption`,
`WSClientAssumption`, `SubscriptionsAssumption`, `StateStoreAssumption`,
`PipelineAssumption`, `SymbolsAssumption`, `HotReloadAssumption`,
`IMFCacheAssumption`, `SymbolChoiceAssumption`). `SymbolsAssumption` says what the pipeline needs of
`OptionSymbols`: strikes are natural numbers and the symbols of a candidate, for a
week index inside the list, are symbols of the exchange other than the index.

| theorem | statement | argument |
|---|---|---|
| `RingInvariant` and its corollaries | the five safety invariants of `ring`, any readers, any capacity | `IInv` is inductive only as a whole: what a reader is handed depends on which tick a slot holds, hence on the remainders of positions. Three lemmas on remainders (a position has a slot; two positions of one slot are a lap apart; one lap earlier is the same slot) carry the arithmetic |
| `RingImplementsFeed` | `Spec => ImplementsFeed` | every step maps to a step of `TickFeed` or a stutter, given `IInv` |
| `StoreOperationKeepsStore` | types and `BatchOrder` are kept by every use of the store | a batch past key *k* wrote keys 1..*k* today; the date goes last, so it is today's only if the others are |
| `PipelineTypeCorrect` | `Spec => []TypeOK` | one lemma per part (`ActiveStep`, `QueueStep`, `TimersStep`, `ClientStep`, `ProcessStep`, store), each by the cases of `StepCases`. `TypeOK` needs `BatchOrder` beside it because `RestoreState` takes its strike from Redis |
| `RestoresTodayOnly` | `Spec => []NeverRestoresYesterday` | from `BatchOrder` |
| `CountdownsAreArmed` | `Spec => []CountdownIsArmed` | an evaluation that leaves shifts always arms a timer; one that fires leaves a goroutine |
| `PipelineFollowsMarket` | `LatestPendingIsLive` and `StableMeansOnMarket`, if every tick has a price of a strike that is not 0 (`PositiveMarket`) | `OnMarket` adds `LifeCycle`: pending shifts imply an initialised pipeline and a loaded IMF, and an initialised pipeline has a strike. Without the hypothesis a tick of price 0 makes 0 the strike, which the code reads as "not initialised" |
| `CountdownIsBounded` | `CountdownWithinBounds` and `CountdownEndsInTime`, with `PositiveMarket` | `CeilingOfHead` ties the target and its ceiling to the oldest shift, whichever of base confirmation and ceiling is longer (the code does not compare them); `EvaluationIsNear` ties the clock to the armed timer, or to a goroutine that was fired in time, so that a late `Stop` or a target in the past adds no delay. Nothing is claimed about an earlier end: a stray timer may bring it (`earlyconfirm`). `NoFollowUp` shows that with prices the follow-up branch, which would break the tie, is never taken: when the confirmed strike is not the newest, the market has moved on |
| `InterestIsStreamed` | `Spec => []FeedCoversInterest` | `ListCoversInterest`: `c.symbols` covers what is traded or buffered, so a reconnect repeats it; `UnsubscribeCovers` shows that the clean-up spares it |
| `PairStaysWithStrike` | `ActivePairMatches`, without Redis | `PairsMatch` adds that every pending shift is a pair of its own strike, and that a store without Redis never has anything to restore. With Redis the property fails for a known reason: two saves of one day may mix their keys |
| `RestartsTradeWholePairs` | with Redis and every fault: what is traded is always the whole pair of one calculation, and after every switch that of the active strike | the types of the store are proved for any set of pairs, so they also hold for the calculated ones (`WholePairs`): what is saved was traded, what is restored was saved under one key. `CandidatesMatch`, shared with the theorem above, says why a switch mends a mixture |
| `SessionInvariant` and its corollaries | the safety properties of `session`, any consumers, symbols and capacity | every step of a session is a step of the ring or leaves it alone (`SessionStepIsRingStep`), so `IInv` of the ring is carried over by its own theorem. On top: the consumers attach before the first tick (`ReadersFirst`), a logger that was never lapped is within one lap of the producer (`WithinALap`), and one that found nothing stands where it looked (`StandsWhereItLooked`), which is why its end means a drained log |
| `SessionImplementsRing`, `SessionImplementsFeed` | a session is a behaviour of the ring, hence of the abstract feed | `SessionStepIsRingStep` |
| `ClientInvariant` and its corollaries | `TypeOK` and `WantedIsAsked`, any batches and number of calls | `WantedIsPromised`: at every step, what is wanted was asked for, or is in the call, or in what `onConnect` is going to ask from where it stands, a torn slice included. It needs `WantedIsListed`: the array loses no batch |
| `SearchInvariant`, `SearchFindsNearest` | `FindsNearest`, every sorted list of integers and every target | the loop invariant: below `lo` everything is below the target, and `hi` is the end of the list or not below it; at the end the two meet, and the nearest strike is there or one below. `NearestIsUnique` makes the `CHOOSE` of the reference determinate |
| `EveryTurnShrinks` | every turn leaves a smaller interval of natural size | the ranking function of the search's termination; the liveness itself stays with TLC |
| `InForceIsWritten` | `ConfigSpec => []InForceWasWritten`, any contents | what was loaded was in the file since the program started, and is still remembered when it is copied |
| `CacheInvariant` and its corollaries | `TypeOK` and `ServesOneDownload` (`CacheServesOneDownload`) of the boot, any files and days | the file's rows are a beginning of one response, and all of it once the copy is done (`FileIsOfOneDownload`); while it is copied, the rest in the body completes it (`CopyFillsFile`); a response is fetched on the day of the check (`FetchedWhenChecked`), and a file that is trusted was written on it (`FileIsTrusted`) |
| `BootListsAreSorted` | the expiries and strikes of a boot are exactly what was parsed, ascending (a row stands for an option, so a repeated line is not seen) | `AscendingLists`: the rank of an element (how many are not above it) grows with it, so it maps a finite set into `1..n` one to one, hence onto it, and the `CHOOSE` of `Ascending` always finds its element |
| `ImplementsCache`, `ImplementsReload`, `PartsKeepTheirPromises` | the composition `SymbolChoice` implements `IMFSpec` and `ConfigSpec`, and `TypeOK`, `ServesOneDownload`, `InForceWasWritten` and `FindsNearest` hold in it | every step is a step of each part or leaves it alone; the search is given sorted lists only (`ListsAreAscending`), which is what its own invariant asks for |
| `ChoiceInvariant`, `CallReturnsPairInForce` | `PairOfConfigsInForce`, any files, versions of `trading.json`, strikes and offsets | at each step of `calculateSymbols`: each getter was read under a configuration that was in force (`GettersRead`), every expiry the loop has passed lacks a kind of strikes (`WalkedPast`), a running search is for this expiry and strike (`SearchIsOurs`), the call that was found is the nearest (`CallSeen`). The lemmas `ComputedAtFirst` and `ComputedFallback` lead from there to the two branches of the reference |
| `ATMIsNearestStrike` | `RoundToStrike` gives the nearest multiple of 50, for every price | linear arithmetic on the quotient |

The hypotheses of the conditional theorems are on constants, and each is needed:
the `rejections` run has a price 0, and there `LifeCycle` fails.

Only model-checked: liveness (`Settles`, `CloseEndsReaders`, `ReadersCatchUp`,
`ShutdownEnds`, `StreamsInTheEnd`, `EditsTakeEffect`, `CallsEnd`), which is out of
the proof system's reach. Every invariant and action property that a passing run
checks is a theorem: those of `market`, `rejections` with the hypotheses named above,
the others without. No definition of the project is a RECURSIVE operator.

## 7. Where the code and its documentation disagree

Each has a run whose counterexample TLC prints:

- `leak`: "1-2 option strikes subscribed at any time" (`implementation_plan.md:89`);
  the early return of `evaluateShifts` (`pipeline.go:323`) skips the clean-up and
  the cycle it starts has forgotten the old strikes.
- `pendingrejected`: a rejected expiry is replaced (`pipeline.go:83`); the
  rejection of a candidate that is still pending is ignored and the candidate is
  confirmed later.
- `savesrace`: the new state reaches Redis (`pipeline.go:502`); two saves race and
  the older one may be the last.
- `imffresh`: fresh data every trading morning (`imf.go:149`); a download that was
  cut off has today's date and is the cache of the next boot. A whole download that
  ran over midnight breaks the same promise: its last row gives yesterday's list
  today's date, and the boots of the day take it. The run shows the first case,
  which is shorter; with cut-off copies left out and two days TLC finds the second.
  `ServesOneDownload` states what does hold of both.
- `earlyconfirm`: a confirmed strike has "AT LEAST `extra_time` worth of data", and
  the very first shift has its confirmation time (`pipeline.go:285-286`). A timer
  that was forgotten but not stopped (368, also 243 and 364) fires into a later
  countdown and confirms a shift that has just begun.

Seen while modelling, without a run of their own:

- `implementation_plan.md:139` promises a slow consumer the freshest data. A reader
  lapped between the check and the read (`ringbuffer.go:96`) gets a tick one lap
  ahead, and its next call an older one; the tick store may so go back for a while.
- trading.json is "hot-reloaded", an edit is picked up "within 2 seconds"
  (`commands.md:60-63`); `Reload` copies every field but `max_confirm_seconds`
  (`config.go:120`). `EditsTakeEffect` says so by leaving that field out.
- The expiry offset counts rejections, not rejected expiries (`pipeline.go:490`): a
  shift calculated before an advance and confirmed after it is rejected for the same
  expiry again, and the next advance skips one that was never rejected. It takes a
  chain of three expiries to see.
- "drain ring" (`implementation_plan.md:82`, `505`): a tick published between a
  reader's look at the tail and its look at the flag (`ringbuffer.go:78-83`) stays in
  the ring. `FileIsDrained` states what holds instead.
- `main` waits for the logger alone: other consumers, timers and saves in flight end
  wherever they are.
- `DumpAll` (`redis.go:280`) reads key by key; an export may mix two saves.
- Two saves of one day may mix, and a restart takes the mixture as it is: the
  strike of one, the symbols of the other (`savesrace` shows the race).
  `RestartsTradeWholePairs` bounds the damage.
- A tick without a price can make 0 the active strike, and `ProcessNiftyTick`
  then returns early for good (`pipeline.go:177`).
- The follow-up countdown (`pipeline.go:364`) would keep a ceiling that it may
  exceed; with prices it is unreachable (`NoFollowUp`).
- `calculateSymbols` indexes `expiries[weekIdx]` past the end when the offset has
  outgrown the list (449); the process panics. The model takes the panic.
- `Unsubscribe` does not shorten `c.symbols` (`client.go:158`): a reconnect
  subscribes every strike of the session again.
- The IMF is loaded once per process: one that lives past midnight keeps
  expired expiries.

## 8. Not modelled, and why

- Trading expiry: a pure function that only tests call.
- Latency monitor, analytics: reports. Tick pool: ticks in the ring are never
  released. Test indexer: shares no code. `Replicator.Run`: no caller; when it
  runs it copies, and nothing reads the copies.
- The event log and log lines; parsing and formatting of messages and symbols,
  which are data the properties do not tell apart.
- `client.go`: the fields of a tick other than its symbol and price; the SDK's limit
  of 50 retries, after which the connection is down for good, as it may be in
  every model anyway.
- `redis.go`: keys that have no caller; `DumpAll`, whose result nothing reads back.
- `config.go`: `LoadAppConfig` (the environment, read once) and the order fields of
  `trading.json`, which no code reads yet.
- `main.go`: the token and environment checks before anything runs.
- `SymbolExists` and `Get` of the tick store: reads without a caller in the program.

## 9. Plan

Done: all the components with state and concurrency, their compositions, and the
theorems of section 6, which state every safety property of the passing runs. What is
left would be small:

1. The pipeline over the steps of `SymbolChoice` instead of its result. It would add
   reloads of the strike offsets, which `SymbolsFor` keeps constant in `Pipeline`.
2. `WSClient` as a refinement of a client that may resubscribe what was just given up.
3. The export at shutdown key by key, next to saves in flight, should anything
   come to read it.
4. The order fields and the risk checks of `implementation_plan.md`, once there is
   code for them.
