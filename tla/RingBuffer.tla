----------------------------- MODULE RingBuffer -----------------------------
(***************************************************************************)
(* marketdata/ringbuffer.go: the lock-free single-producer ring that hands *)
(* every websocket tick to the tick store, the latency monitor, the        *)
(* pipeline and the tick logger.                                           *)
(*                                                                         *)
(* A tick is its arrival number.  The steps are the atomic loads and       *)
(* stores of the code and its one unsynchronised access, the slot itself:  *)
(* the producer may overwrite a slot between a reader's load of writePos   *)
(* and the reader's read of that slot.                                     *)
(***************************************************************************)
EXTENDS Integers

CONSTANTS
  Readers,       \* one cursor per consuming goroutine
  Capacity,      \* slots of the ring, as NewRingBuffer computes it
  MaxWrites      \* BOUND: ticks the producer writes in one behaviour

ASSUME CapacityAssumption == Capacity \in Nat \ {0}
ASSUME MaxWritesAssumption == MaxWrites \in Nat

Nil == -1        \* the nil *TickEvent of an unwritten slot, or of a closed ring

(* NewRingBuffer: the smallest power of two that is at least size, 1 when  *)
(* size is not positive.  It is what makes "& mask" a remainder.           *)
RoundedCapacity(size) ==
  IF size <= 1 THEN 1
  ELSE CHOOSE c \in {2^k : k \in 0..size} : c >= size /\ c < 2 * size

VARIABLES
  buffer,        \* the slots
  writePos,      \* atomic: number of published ticks
  closed,        \* atomic
  wpc,           \* the producer inside Write: "idle", or "publish" after the slot store
  rpc,           \* each reader inside Next: "absent", "load", "spin", "slot", "exited"
  readPos,       \* each reader's cursor
  got            \* history: the tick Next returned last

vars == <<buffer, writePos, closed, wpc, rpc, readPos, got>>

Slots == 0..(Capacity - 1)
Idx(pos) == pos % Capacity

Init ==
  /\ buffer = [i \in Slots |-> Nil]
  /\ writePos = 0
  /\ closed = FALSE
  /\ wpc = "idle"
  /\ rpc = [r \in Readers |-> "absent"]
  /\ readPos = [r \in Readers |-> 0]
  /\ got = [r \in Readers |-> Nil]

-----------------------------------------------------------------------------
(* Mutant of WriteSlot: the index of the position after this one. *)
WriteSlotOffByOne ==
  /\ wpc = "idle"
  /\ writePos < MaxWrites
  /\ buffer' = [buffer EXCEPT ![Idx(writePos + 1)] = writePos]
  /\ wpc' = "publish"
  /\ UNCHANGED <<writePos, closed, rpc, readPos, got>>

(* Write, up to the store into the slot.  writePos has a single writer, so *)
(* loading it is no step of its own.                                       *)
WriteSlot ==
  /\ wpc = "idle"
  /\ writePos < MaxWrites
  /\ buffer' = [buffer EXCEPT ![Idx(writePos)] = writePos]
  /\ wpc' = "publish"
  /\ UNCHANGED <<writePos, closed, rpc, readPos, got>>

(* Write: the atomic store of the new tail. *)
Publish ==
  /\ wpc = "publish"
  /\ writePos' = writePos + 1
  /\ wpc' = "idle"
  /\ UNCHANGED <<buffer, closed, rpc, readPos, got>>

(* Close; a second call would change nothing.  The producer is a callback  *)
(* of the websocket SDK, and nothing stops a late one from writing after.  *)
Close ==
  /\ ~closed
  /\ closed' = TRUE
  /\ UNCHANGED <<buffer, writePos, wpc, rpc, readPos, got>>

(* Mutant of NewReader: the cursor starts at the last published tick. *)
NewReaderBeforeHead(r) ==
  /\ rpc[r] = "absent"
  /\ readPos' = [readPos EXCEPT ![r] = writePos - 1]
  /\ rpc' = [rpc EXCEPT ![r] = "load"]
  /\ UNCHANGED <<buffer, writePos, closed, wpc, got>>

(* NewReader: an independent cursor at the current head. *)
NewReader(r) ==
  /\ rpc[r] = "absent"
  /\ readPos' = [readPos EXCEPT ![r] = writePos]
  /\ rpc' = [rpc EXCEPT ![r] = "load"]
  /\ UNCHANGED <<buffer, writePos, closed, wpc, got>>

(* Mutant of LoadPos: a lapped cursor is put on the tail itself. *)
LoadPosSkipsToTail(r) ==
  /\ rpc[r] = "load"
  /\ rpc' = [rpc EXCEPT ![r] = IF readPos[r] = writePos THEN "spin" ELSE "slot"]
  /\ readPos' = [readPos EXCEPT ![r] =
                   IF writePos - readPos[r] > Capacity THEN writePos ELSE @]
  /\ UNCHANGED <<buffer, writePos, closed, wpc, got>>

(* Mutant of LoadPos: >= for >, a full ring already counts as a lap. *)
LoadPosSkipsEarly(r) ==
  /\ rpc[r] = "load"
  /\ rpc' = [rpc EXCEPT ![r] = IF readPos[r] = writePos THEN "spin" ELSE "slot"]
  /\ readPos' = [readPos EXCEPT ![r] =
                   IF writePos - readPos[r] >= Capacity THEN writePos - 1 ELSE @]
  /\ UNCHANGED <<buffer, writePos, closed, wpc, got>>

(* Next: the atomic load of writePos, then the comparisons on that value,  *)
(* which are local: caught up, lapped, or a tick to read.                  *)
LoadPos(r) ==
  /\ rpc[r] = "load"
  /\ rpc' = [rpc EXCEPT ![r] = IF readPos[r] = writePos THEN "spin" ELSE "slot"]
  /\ readPos' = [readPos EXCEPT ![r] =
                   IF writePos - readPos[r] > Capacity THEN writePos - 1 ELSE @]
  /\ UNCHANGED <<buffer, writePos, closed, wpc, got>>

(* Mutant of CheckClosed: the spin never looks at the flag. *)
SpinForever(r) ==
  /\ rpc[r] = "spin"
  /\ rpc' = [rpc EXCEPT ![r] = "load"]
  /\ UNCHANGED <<buffer, writePos, closed, wpc, readPos, got>>

(* Next, caught up: the atomic load of closed.  A nil result makes every   *)
(* consumer goroutine return.                                              *)
CheckClosed(r) ==
  /\ rpc[r] = "spin"
  /\ rpc' = [rpc EXCEPT ![r] = IF closed THEN "exited" ELSE "load"]
  /\ UNCHANGED <<buffer, writePos, closed, wpc, readPos, got>>

(* Mutant of ReadSlot: the cursor is not advanced. *)
ReadSlotAgain(r) ==
  /\ rpc[r] = "slot"
  /\ got' = [got EXCEPT ![r] = buffer[Idx(readPos[r])]]
  /\ rpc' = [rpc EXCEPT ![r] = "load"]
  /\ UNCHANGED <<buffer, writePos, closed, wpc, readPos>>

(* Next: the plain read of the slot.  An empty slot would be the nil that  *)
(* consumers take for the end of the data.                                 *)
ReadSlot(r) ==
  /\ rpc[r] = "slot"
  /\ LET tick == buffer[Idx(readPos[r])] IN
       /\ got' = [got EXCEPT ![r] = tick]
       /\ rpc' = [rpc EXCEPT ![r] = IF tick = Nil THEN "exited" ELSE "load"]
  /\ readPos' = [readPos EXCEPT ![r] = @ + 1]
  /\ UNCHANGED <<buffer, writePos, closed, wpc>>

ReaderStep(r) == LoadPos(r) \/ CheckClosed(r) \/ ReadSlot(r)

Next ==
  \/ WriteSlot
  \/ Publish
  \/ Close
  \/ \E r \in Readers :
       NewReader(r) \/ LoadPos(r) \/ CheckClosed(r) \/ ReadSlot(r)

Spec == Init /\ [][Next]_vars

(* Goroutines that are runnable run: the spin yields with Gosched, and a   *)
(* producer past its slot store publishes.  Nothing obliges a tick to      *)
(* arrive or the ring to be closed.                                        *)
Fairness ==
  /\ WF_vars(Publish)
  /\ \A r \in Readers : WF_vars(ReaderStep(r))

FairSpec == Spec /\ Fairness

-----------------------------------------------------------------------------
(* Ticks that have reached a slot, the one being published included. *)
Written == IF wpc = "publish" THEN writePos + 1 ELSE writePos

ReaderStates == {"absent", "load", "spin", "slot", "exited"}

(* The values each variable ranges over; no more ticks are counted than    *)
(* were written.                                                           *)
TypeOK ==
  /\ buffer \in [Slots -> Nat \cup {Nil}]
  /\ writePos \in Nat
  /\ Written <= MaxWrites
  /\ closed \in BOOLEAN
  /\ wpc \in {"idle", "publish"}
  /\ rpc \in [Readers -> ReaderStates]
  /\ readPos \in [Readers -> Nat]
  /\ got \in [Readers -> Nat \cup {Nil}]

(* Every slot holds the newest tick of its residue: the ring is exactly    *)
(* the window of the last Capacity ticks, whatever the readers do.         *)
SlotsHoldWindow ==
  \A i \in Slots :
    IF i >= Written
    THEN buffer[i] = Nil
    ELSE /\ buffer[i] \in 0..(Written - 1)
         /\ buffer[i] >= Written - Capacity
         /\ Idx(buffer[i]) = i

(* A cursor never overtakes the published tail, and a reader about to read *)
(* a slot is strictly behind it, even when the producer moved on since.    *)
CursorBehindTail ==
  \A r \in Readers :
    /\ readPos[r] <= writePos
    /\ rpc[r] = "slot" => readPos[r] < writePos

(* The tick a reader holds is never older than the one its cursor stood    *)
(* on: the slot race of Next can hand out a newer tick, never a stale one. *)
NeverBehindCursor ==
  \A r \in Readers :
    got[r] # Nil => got[r] >= readPos[r] - 1 \/ rpc[r] = "slot"

(* No consumer goroutine ends while the ring is open: the nil that ends it *)
(* never comes from an empty slot (main.go would take it for shutdown).    *)
ExitOnlyAfterClose ==
  \A r \in Readers : rpc[r] = "exited" => closed

-----------------------------------------------------------------------------
(* The ring implements the feed its consumers rely on. *)
Phase(r) == IF rpc[r] \in {"absent", "exited"} THEN rpc[r] ELSE "reading"

Feed == INSTANCE TickFeed WITH
  Window   <- Capacity,
  produced <- Written,
  shut     <- closed,
  cursor   <- readPos,
  last     <- got,
  state    <- [r \in Readers |-> Phase(r)]

(* Lossless and in order within the window, never stale beyond it, and     *)
(* over only when closed: every step of Write, Close and Next is a step of *)
(* the abstract feed or changes nothing it shows.                          *)
ImplementsFeed == Feed!FeedSpec

(* Close ends every reader, provided ticks stop arriving (main.go closes   *)
(* the socket first): main waits for one of them on doneChan.              *)
CloseEndsReaders ==
  \A r \in Readers : (closed /\ rpc[r] # "absent") ~> rpc[r] = "exited"

(* A reader is not left behind: whatever is published is passed by every   *)
(* live cursor.                                                            *)
ReadersCatchUp ==
  \A r \in Readers : \A n \in 1..MaxWrites :
    (writePos >= n /\ rpc[r] \notin {"absent", "exited"})
      ~> (readPos[r] >= n \/ rpc[r] = "exited")
=============================================================================
