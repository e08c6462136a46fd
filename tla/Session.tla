------------------------------- MODULE Session -------------------------------
(***************************************************************************)
(* main.go from the readers of the ring to "Goodbye!": consumers attach,   *)
(* the websocket connects, ticks flow until a signal, and the shutdown     *)
(* closes the socket, then the ring, waits for one of the consumers and    *)
(* writes what it has logged to ticks.txt.  With it marketdata/            *)
(* tickstore.go, the latest tick of each symbol.                           *)
(*                                                                         *)
(* Storing a tick and appending it to ticksLog are one step with the read  *)
(* of the slot: the consumer's goroutine alone touches either, until main  *)
(* reads ticksLog after that goroutine is over.                            *)
(***************************************************************************)
EXTENDS RingBuffer, Sequences

CONSTANTS
  TickStore,     \* the reader of tickStore.StartReader
  Logger,        \* testReader, of the goroutine that fills ticksLog
  SymbolOf       \* tick -> its symbol

ASSUME SessionAssumption ==
  /\ {TickStore, Logger} \subseteq Readers /\ TickStore # Logger
  /\ 0..MaxWrites \subseteq DOMAIN SymbolOf

VARIABLES
  mpc,           \* main: "boot", "serving", "closing", "waiting", "export", "save", "over"
  store,         \* symbol -> latest tick; Nil for none
  ticksLog,
  ticksFile,     \* ticks.txt, NoTicks before it is written
  looked,        \* history: writePos as the logger loaded it last
  lapped         \* history: a tick was overwritten before the logger read it

ringVars == vars
sessionVars == <<ringVars, mpc, store, ticksLog, ticksFile, looked, lapped>>

NoTicks == <<Nil>>
TickSymbols == {SymbolOf[n] : n \in 0..MaxWrites}

SessionInit ==
  /\ Init
  /\ mpc = "boot"
  /\ store = [s \in TickSymbols |-> Nil]
  /\ ticksLog = <<>>
  /\ ticksFile = NoTicks
  /\ looked = 0
  /\ lapped = FALSE

-----------------------------------------------------------------------------
(* main takes a reader for each consumer and starts its goroutine; that it *)
(* comes before the first tick is up to ConnectSocket.                     *)
Attach(r) ==
  /\ mpc # "over"
  /\ NewReader(r)
  /\ UNCHANGED <<mpc, store, ticksLog, ticksFile, looked, lapped>>

(* Mutant of ConnectSocket: before the consumers are attached. *)
ConnectFirst ==
  /\ mpc = "boot"
  /\ mpc' = "serving"
  /\ UNCHANGED <<ringVars, store, ticksLog, ticksFile, looked, lapped>>

(* wsClient.Connect, once every consumer has its reader. *)
ConnectSocket ==
  /\ mpc = "boot"
  /\ \A r \in Readers : rpc[r] # "absent"
  /\ mpc' = "serving"
  /\ UNCHANGED <<ringVars, store, ticksLog, ticksFile, looked, lapped>>

(* ... or it fails and main exits. *)
ConnectFails ==
  /\ mpc = "boot"
  /\ \A r \in Readers : rpc[r] # "absent"
  /\ mpc' = "over"
  /\ UNCHANGED <<ringVars, store, ticksLog, ticksFile, looked, lapped>>

(* onMessage writes a tick.  Closing the socket does not wait for it. *)
TickArrives ==
  /\ mpc \notin {"boot", "over"}
  /\ WriteSlot
  /\ lapped' = (lapped \/ (rpc[Logger] # "exited" /\ writePos - readPos[Logger] >= Capacity))
  /\ UNCHANGED <<mpc, store, ticksLog, ticksFile, looked>>

TickPublished ==
  /\ mpc # "over"
  /\ Publish
  /\ UNCHANGED <<mpc, store, ticksLog, ticksFile, looked, lapped>>

(* The three steps of Next in a consumer's goroutine. *)
Looks(r) ==
  /\ mpc # "over"
  /\ LoadPos(r)
  /\ looked' = IF r = Logger THEN writePos ELSE looked
  /\ UNCHANGED <<mpc, store, ticksLog, ticksFile, lapped>>

Spins(r) ==
  /\ mpc # "over"
  /\ CheckClosed(r)
  /\ UNCHANGED <<mpc, store, ticksLog, ticksFile, looked, lapped>>

(* Mutant of Stored: the first tick of a symbol is kept. *)
StoredFirst(r, tick) ==
  IF r = TickStore /\ tick # Nil /\ store[SymbolOf[tick]] = Nil
  THEN [store EXCEPT ![SymbolOf[tick]] = tick]
  ELSE store

(* TickStore.Store *)
Stored(r, tick) ==
  IF r = TickStore /\ tick # Nil
  THEN [store EXCEPT ![SymbolOf[tick]] = tick]
  ELSE store

(* append(ticksLog, *tick) *)
Logged(r, tick) ==
  IF r = Logger /\ tick # Nil THEN Append(ticksLog, tick) ELSE ticksLog

(* Next returns a tick to its consumer; nil makes the consumer return. *)
Deliver(r) ==
  /\ mpc # "over"
  /\ ReadSlot(r)
  /\ store' = Stored(r, got'[r])
  /\ ticksLog' = Logged(r, got'[r])
  /\ UNCHANGED <<mpc, ticksFile, looked, lapped>>

-----------------------------------------------------------------------------
(* The signal: the context is cancelled and the socket closed. *)
CloseSocket ==
  /\ mpc = "serving"
  /\ mpc' = "closing"
  /\ UNCHANGED <<ringVars, store, ticksLog, ticksFile, looked, lapped>>

(* Mutant of CloseRing: the ring is not closed. *)
LeaveRingOpen ==
  /\ mpc = "closing"
  /\ mpc' = "waiting"
  /\ UNCHANGED <<ringVars, store, ticksLog, ticksFile, looked, lapped>>

CloseRing ==
  /\ mpc = "closing"
  /\ Close
  /\ mpc' = "waiting"
  /\ UNCHANGED <<store, ticksLog, ticksFile, looked, lapped>>

(* Mutant of WaitForLogger: any consumer's end will do. *)
WaitForAnyone ==
  /\ mpc = "waiting"
  /\ \E r \in Readers : rpc[r] = "exited"
  /\ mpc' = "export"
  /\ UNCHANGED <<ringVars, store, ticksLog, ticksFile, looked, lapped>>

(* <-doneChan *)
WaitForLogger ==
  /\ mpc = "waiting"
  /\ rpc[Logger] = "exited"
  /\ mpc' = "export"
  /\ UNCHANGED <<ringVars, store, ticksLog, ticksFile, looked, lapped>>

(* The export of Redis; whatever becomes of it, main goes on. *)
Export ==
  /\ mpc = "export"
  /\ mpc' = "save"
  /\ UNCHANGED <<ringVars, store, ticksLog, ticksFile, looked, lapped>>

(* ticks.txt is written, unless it cannot be created, and main returns. *)
SaveTicks ==
  /\ mpc = "save"
  /\ ticksFile' \in {ticksLog, NoTicks}
  /\ mpc' = "over"
  /\ UNCHANGED <<ringVars, store, ticksLog, looked, lapped>>

MainStep == CloseRing \/ WaitForLogger \/ Export \/ SaveTicks
Consumes(r) == Looks(r) \/ Spins(r) \/ Deliver(r)

SessionNext ==
  \/ \E r \in Readers : Attach(r) \/ Looks(r) \/ Spins(r) \/ Deliver(r)
  \/ ConnectSocket \/ ConnectFails
  \/ TickArrives \/ TickPublished
  \/ CloseSocket \/ CloseRing \/ WaitForLogger \/ Export \/ SaveTicks

SessionSpec == SessionInit /\ [][SessionNext]_sessionVars

(* Runnable goroutines run; the export gives up after ten seconds.  Nobody *)
(* owes a tick or a signal.                                                *)
SessionFairness ==
  /\ WF_sessionVars(MainStep)
  /\ WF_sessionVars(TickPublished)
  /\ \A r \in Readers : WF_sessionVars(Consumes(r))

FairSessionSpec == SessionSpec /\ SessionFairness

-----------------------------------------------------------------------------
(* The values of the variables, those of the ring included. *)
SessionTypeOK ==
  /\ TypeOK
  /\ mpc \in {"boot", "serving", "closing", "waiting", "export", "save", "over"}
  /\ store \in [TickSymbols -> Nat \cup {Nil}]
  /\ ticksLog \in Seq(Nat)
  /\ ticksFile \in Seq(Nat) \cup {NoTicks}
  /\ looked \in 0..writePos
  /\ lapped \in BOOLEAN

FirstTicks(n) == [i \in 1..n |-> i - 1]

(* A logger that is never lapped logs every tick of the session, from the  *)
(* very first one, once and in order, however often the ring wraps.        *)
LogIsWhole ==
  ~lapped => ticksLog = FirstTicks(readPos[Logger])

(* ticks.txt has every tick the logger could see when it looked for the    *)
(* last time, and main does not write it while the logger still appends.   *)
(* Not "every tick published before Close": one that comes between that    *)
(* look at writePos and the logger's look at closed stays in the ring.     *)
FileIsDrained ==
  ticksFile # NoTicks /\ ~lapped => ticksFile = FirstTicks(looked)

(* A tick store that has caught up holds the last published tick as the    *)
(* latest of its symbol, whatever it skipped or was handed twice, or out   *)
(* of order, on the way.                                                   *)
StoreEndsOnLast ==
  (rpc[TickStore] \notin {"absent", "slot"} /\ readPos[TickStore] = writePos
     /\ writePos > 0 /\ wpc = "idle")
    => store[SymbolOf[writePos - 1]] = writePos - 1

(* The shutdown does not hang: once the socket is closed, and ticks stop,  *)
(* main returns, however far behind the consumers are.                     *)
ShutdownEnds == mpc = "closing" ~> mpc = "over"
=============================================================================
