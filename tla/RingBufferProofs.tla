-------------------------- MODULE RingBufferProofs --------------------------
(***************************************************************************)
(* The safety of the ring for any number of readers, any capacity and any  *)
(* number of ticks.  The invariant is inductive as a whole: what a reader  *)
(* gets depends on what the slots hold, and that on the remainders of the  *)
(* positions, so the three lemmas on remainders come first.                *)
(***************************************************************************)
EXTENDS RingBuffer, TLAPS

-----------------------------------------------------------------------------
(* A position maps to a slot, and a position not past the first lap to     *)
(* the slot of its own number.                                             *)
LEMMA IdxInSlots ==
  ASSUME NEW p \in Nat
  PROVE  /\ Idx(p) \in Slots
         /\ Idx(p) <= p
         /\ p < Capacity => Idx(p) = p
  BY CapacityAssumption DEF Idx, Slots

(* Two positions that share a slot are at least a whole lap apart.         *)
LEMMA SameSlotIsALapApart ==
  ASSUME NEW a \in Nat, NEW b \in Nat, a < b, Idx(a) = Idx(b)
  PROVE  a <= b - Capacity
<1> DEFINE C == Capacity  qa == a \div C  qb == b \div C
<1>1. C \in Nat /\ C > 0
  BY CapacityAssumption
<1>2. a = C * qa + (a % C) /\ qa \in Int
  BY <1>1
<1>3. b = C * qb + (b % C) /\ qb \in Int
  BY <1>1
<1>4. b - a = C * qb - C * qa
  BY <1>1, <1>2, <1>3 DEF Idx
<1>5. b - a = C * (qb - qa)
  BY <1>1, <1>2, <1>3, <1>4
<1>6. qb - qa >= 1
  BY <1>1, <1>2, <1>3, <1>5
<1>7. C * (qb - qa) >= C
  BY <1>1, <1>2, <1>3, <1>6
<1> QED
  BY <1>1, <1>5, <1>7

(* The position one lap before p uses the slot of p.                       *)
LEMMA LapEarlierSameSlot ==
  ASSUME NEW p \in Nat, p - Capacity >= 0
  PROVE  Idx(p - Capacity) = Idx(p)
<1> DEFINE C == Capacity  q == (p - C) \div C  s == p \div C
           m == (p - C) % C  n == p % C  d == s - 1 - q
<1>1. C \in Nat /\ C > 0
  BY CapacityAssumption
<1>2. p = C * s + n /\ s \in Int /\ n \in 0..(C - 1)
  BY <1>1
<1>3. p - C = C * q + m /\ q \in Int /\ m \in 0..(C - 1)
  BY <1>1
<1>4. C * d = m - n /\ d \in Int
  BY <1>1, <1>2, <1>3
<1>5. d = 0
  <2>1. CASE d >= 1
    <3>1. C * d >= C
      BY <2>1, <1>1, <1>4
    <3> QED
      BY <3>1, <1>1, <1>2, <1>3, <1>4
  <2>2. CASE d <= -1
    <3>1. C * d <= -C
      BY <2>2, <1>1, <1>4
    <3> QED
      BY <3>1, <1>1, <1>2, <1>3, <1>4
  <2> QED
    BY <2>1, <2>2, <1>4
<1>6. m = n
  BY <1>1, <1>2, <1>3, <1>4, <1>5
<1> QED
  BY <1>6 DEF Idx
-----------------------------------------------------------------------------
(* A reader that was never created has received nothing. *)
AbsentHasNothing ==
  \A r \in Readers : rpc[r] = "absent" => got[r] = Nil

IInv ==
  /\ TypeOK
  /\ SlotsHoldWindow
  /\ CursorBehindTail
  /\ NeverBehindCursor
  /\ AbsentHasNothing
  /\ ExitOnlyAfterClose

LEMMA InitEstablishesIInv == Init => IInv
<1> SUFFICES ASSUME Init PROVE IInv
  OBVIOUS
<1> USE CapacityAssumption, MaxWritesAssumption DEF Init, Nil
<1>1. TypeOK
  <2>1. Written <= MaxWrites /\ writePos \in Nat
    BY DEF Written
  <2>2. rpc \in [Readers -> ReaderStates] /\ wpc \in {"idle", "publish"}
    BY DEF ReaderStates
  <2>3. /\ buffer \in [Slots -> Nat \cup {Nil}]
        /\ readPos \in [Readers -> Nat]
        /\ got \in [Readers -> Nat \cup {Nil}]
    OBVIOUS
  <2> QED
    BY <2>1, <2>2, <2>3 DEF TypeOK
<1>2. SlotsHoldWindow
  BY DEF SlotsHoldWindow, Slots, Written
<1>3. CursorBehindTail /\ NeverBehindCursor /\ AbsentHasNothing /\ ExitOnlyAfterClose
  BY DEF CursorBehindTail, NeverBehindCursor, AbsentHasNothing, ExitOnlyAfterClose
<1> QED
  BY <1>1, <1>2, <1>3 DEF IInv

(* The slot store replaces the one tick that leaves the window: any other  *)
(* slot holding it would share the new tick's slot.                        *)
LEMMA WriteSlotKeepsWindow ==
  ASSUME TypeOK, SlotsHoldWindow, WriteSlot
  PROVE  SlotsHoldWindow'
<1> USE CapacityAssumption, MaxWritesAssumption
<1> DEFINE w == writePos
<1>1. /\ w \in Nat /\ Written = w /\ Written' = w + 1
      /\ buffer' = [buffer EXCEPT ![Idx(w)] = w]
  BY DEF WriteSlot, TypeOK, Written
<1>2. Idx(w) \in Slots /\ Idx(w) <= w /\ (w < Capacity => Idx(w) = w)
  BY <1>1, IdxInSlots
<1>3. ASSUME NEW i \in Slots
      PROVE  IF i >= Written'
             THEN buffer'[i] = Nil
             ELSE /\ buffer'[i] \in 0..(Written' - 1)
                  /\ buffer'[i] >= Written' - Capacity
                  /\ Idx(buffer'[i]) = i
  <2>1. CASE i = Idx(w)
    BY <1>1, <1>2, <2>1 DEF TypeOK, Slots
  <2>2. CASE i # Idx(w) /\ i >= w
    <3>1. i < Capacity /\ i # w
      BY <1>2, <2>2, <1>1 DEF Slots
    <3> QED
      BY <1>1, <2>2, <3>1 DEF SlotsHoldWindow, TypeOK, Slots
  <2>3. CASE i # Idx(w) /\ i < w
    <3>1. buffer'[i] = buffer[i]
      BY <1>1, <2>3 DEF TypeOK
    <3>2. /\ buffer[i] \in 0..(w - 1) /\ buffer[i] >= w - Capacity
          /\ Idx(buffer[i]) = i
      BY <1>1, <2>3 DEF SlotsHoldWindow, Slots
    <3>3. buffer[i] # w - Capacity
      BY <1>1, <2>3, <3>2, LapEarlierSameSlot
    <3> QED
      BY <1>1, <2>3, <3>1, <3>2, <3>3 DEF Slots
  <2> QED
    BY <2>1, <2>2, <2>3, <1>1 DEF Slots
<1> QED
  BY <1>3 DEF SlotsHoldWindow, Slots

(* What a reader about to read finds in its slot: never an empty slot,     *)
(* never an older tick, its own tick unless it has been lapped since.      *)
LEMMA SlotHasTickForCursor ==
  ASSUME IInv, NEW r \in Readers, rpc[r] = "slot"
  PROVE  LET tick == buffer[Idx(readPos[r])] IN
         /\ tick \in readPos[r]..(Written - 1)
         /\ tick >= Written - Capacity
         /\ Written - readPos[r] <= Capacity => tick = readPos[r]
<1> USE CapacityAssumption, MaxWritesAssumption
<1> DEFINE p == readPos[r]  i == Idx(p)  tick == buffer[i]
<1>1. p \in Nat /\ p < writePos /\ writePos \in Nat
      /\ Written \in Nat /\ Written >= writePos
  BY DEF IInv, TypeOK, CursorBehindTail, Written
<1>2. i \in Slots /\ i <= p /\ i \in Nat
  BY <1>1, IdxInSlots DEF Slots
<1>3. tick \in 0..(Written - 1) /\ tick >= Written - Capacity /\ Idx(tick) = i
  BY <1>1, <1>2 DEF IInv, SlotsHoldWindow
<1>4. tick >= p
  <2> SUFFICES ASSUME tick < p PROVE FALSE
    BY <1>1, <1>3
  <2>1. tick <= p - Capacity
    BY <1>1, <1>3, SameSlotIsALapApart
  <2> QED
    BY <2>1, <1>1, <1>3
<1>5. ASSUME Written - p <= Capacity PROVE tick = p
  <2> SUFFICES ASSUME tick > p PROVE FALSE
    BY <1>1, <1>3, <1>4
  <2>1. p <= tick - Capacity
    BY <1>1, <1>3, SameSlotIsALapApart
  <2> QED
    BY <2>1, <1>1, <1>3, <1>5
<1> QED
  BY <1>1, <1>3, <1>4, <1>5

LEMMA StepKeepsIInv == IInv /\ [Next]_vars => IInv'
<1> SUFFICES ASSUME IInv, [Next]_vars PROVE IInv'
  OBVIOUS
<1> USE CapacityAssumption, MaxWritesAssumption
<1>1. CASE WriteSlot
  <2>1. Idx(writePos) \in Slots /\ writePos \in Nat
    BY IdxInSlots DEF IInv, TypeOK
  <2>2. TypeOK'
    BY <1>1, <2>1 DEF IInv, TypeOK, WriteSlot, Written
  <2>3. SlotsHoldWindow'
    BY <1>1, WriteSlotKeepsWindow DEF IInv
  <2>4. CursorBehindTail' /\ NeverBehindCursor' /\ AbsentHasNothing' /\ ExitOnlyAfterClose'
    BY <1>1 DEF IInv, WriteSlot, CursorBehindTail, NeverBehindCursor,
                AbsentHasNothing, ExitOnlyAfterClose
  <2> QED
    BY <2>2, <2>3, <2>4 DEF IInv
<1>2. CASE Publish
  <2>1. TypeOK'
    BY <1>2 DEF IInv, TypeOK, Publish, Written
  <2>2. SlotsHoldWindow'
    BY <1>2 DEF IInv, Publish, SlotsHoldWindow, Written, Slots, Idx
  <2>3. CursorBehindTail'
    BY <1>2 DEF IInv, TypeOK, Publish, CursorBehindTail
  <2>4. NeverBehindCursor' /\ AbsentHasNothing' /\ ExitOnlyAfterClose'
    BY <1>2 DEF IInv, Publish, NeverBehindCursor, AbsentHasNothing, ExitOnlyAfterClose
  <2> QED
    BY <2>1, <2>2, <2>3, <2>4 DEF IInv
<1>3. CASE Close
  <2>1. TypeOK'
    BY <1>3 DEF IInv, TypeOK, Close, Written
  <2>2. SlotsHoldWindow'
    BY <1>3 DEF IInv, Close, SlotsHoldWindow, Written, Slots, Idx
  <2>3. CursorBehindTail' /\ NeverBehindCursor' /\ AbsentHasNothing' /\ ExitOnlyAfterClose'
    BY <1>3 DEF IInv, Close, CursorBehindTail, NeverBehindCursor,
                AbsentHasNothing, ExitOnlyAfterClose
  <2> QED
    BY <2>1, <2>2, <2>3 DEF IInv
<1>4. ASSUME NEW r \in Readers, NewReader(r) PROVE IInv'
  <2>1. TypeOK'
    BY <1>4 DEF IInv, TypeOK, NewReader, Written, ReaderStates
  <2>2. SlotsHoldWindow'
    BY <1>4 DEF IInv, NewReader, SlotsHoldWindow, Written, Slots, Idx
  <2>3. CursorBehindTail'
    BY <1>4 DEF IInv, TypeOK, NewReader, CursorBehindTail
  <2>4. NeverBehindCursor' /\ AbsentHasNothing' /\ ExitOnlyAfterClose'
    BY <1>4 DEF IInv, TypeOK, NewReader, NeverBehindCursor, AbsentHasNothing,
                ExitOnlyAfterClose
  <2> QED
    BY <2>1, <2>2, <2>3, <2>4 DEF IInv
<1>5. ASSUME NEW r \in Readers, LoadPos(r) PROVE IInv'
  <2>1. TypeOK'
    BY <1>5 DEF IInv, TypeOK, LoadPos, Written, ReaderStates
  <2>2. SlotsHoldWindow'
    BY <1>5 DEF IInv, LoadPos, SlotsHoldWindow, Written, Slots, Idx
  <2>3. CursorBehindTail'
    BY <1>5 DEF IInv, TypeOK, LoadPos, CursorBehindTail
  <2>4. NeverBehindCursor'
    BY <1>5 DEF IInv, TypeOK, CursorBehindTail, LoadPos, NeverBehindCursor
  <2>5. AbsentHasNothing' /\ ExitOnlyAfterClose'
    BY <1>5 DEF IInv, TypeOK, LoadPos, AbsentHasNothing, ExitOnlyAfterClose
  <2> QED
    BY <2>1, <2>2, <2>3, <2>4, <2>5 DEF IInv
<1>6. ASSUME NEW r \in Readers, CheckClosed(r) PROVE IInv'
  <2>1. TypeOK'
    BY <1>6 DEF IInv, TypeOK, CheckClosed, Written, ReaderStates
  <2>2. SlotsHoldWindow'
    BY <1>6 DEF IInv, CheckClosed, SlotsHoldWindow, Written, Slots, Idx
  <2>3. CursorBehindTail' /\ NeverBehindCursor'
    BY <1>6 DEF IInv, TypeOK, CheckClosed, CursorBehindTail, NeverBehindCursor
  <2>4. AbsentHasNothing' /\ ExitOnlyAfterClose'
    BY <1>6 DEF IInv, TypeOK, CheckClosed, AbsentHasNothing, ExitOnlyAfterClose
  <2> QED
    BY <2>1, <2>2, <2>3, <2>4 DEF IInv
<1>7. ASSUME NEW r \in Readers, ReadSlot(r) PROVE IInv'
  <2> DEFINE tick == buffer[Idx(readPos[r])]
  <2>1. tick \in Nat /\ tick >= readPos[r] /\ tick # Nil
    BY <1>7, SlotHasTickForCursor DEF ReadSlot, IInv, TypeOK, Written, Nil
  <2>2. /\ got' = [got EXCEPT ![r] = tick]
        /\ rpc' = [rpc EXCEPT ![r] = "load"]
        /\ readPos' = [readPos EXCEPT ![r] = @ + 1]
        /\ UNCHANGED <<buffer, writePos, closed, wpc>>
        /\ rpc[r] = "slot"
    BY <1>7, <2>1 DEF ReadSlot
  <2>3. TypeOK'
    BY <2>1, <2>2 DEF IInv, TypeOK, Written, ReaderStates
  <2>4. SlotsHoldWindow'
    BY <2>2 DEF IInv, SlotsHoldWindow, Written, Slots, Idx
  <2>5. CursorBehindTail'
    BY <2>2 DEF IInv, TypeOK, CursorBehindTail
  <2>6. NeverBehindCursor'
    BY <2>1, <2>2 DEF IInv, TypeOK, NeverBehindCursor
  <2>7. AbsentHasNothing' /\ ExitOnlyAfterClose'
    BY <2>2 DEF IInv, TypeOK, AbsentHasNothing, ExitOnlyAfterClose
  <2> QED
    BY <2>3, <2>4, <2>5, <2>6, <2>7 DEF IInv
<1>8. CASE UNCHANGED vars
  BY <1>8 DEF vars, IInv, TypeOK, SlotsHoldWindow, CursorBehindTail,
              NeverBehindCursor, AbsentHasNothing, ExitOnlyAfterClose,
              Written, Slots, Idx
<1> QED
  BY <1>1, <1>2, <1>3, <1>4, <1>5, <1>6, <1>7, <1>8 DEF Next

(* The whole invariant holds in every reachable state. *)
THEOREM RingInvariant == Spec => []IInv
<1>1. Init => IInv
  BY InitEstablishesIInv
<1>2. IInv /\ [Next]_vars => IInv'
  BY StepKeepsIInv
<1> QED
  BY <1>1, <1>2, PTL DEF Spec

(* Type correctness of ringbuffer.go, for any readers and any capacity. *)
THEOREM RingTypeCorrect == Spec => []TypeOK
<1>1. IInv => TypeOK
  BY DEF IInv
<1> QED
  BY <1>1, RingInvariant, PTL

(* The ring holds exactly the window of the last Capacity ticks. *)
THEOREM RingHoldsWindow == Spec => []SlotsHoldWindow
<1>1. IInv => SlotsHoldWindow
  BY DEF IInv
<1> QED
  BY <1>1, RingInvariant, PTL

(* The race of Write and Next on a slot never yields a stale tick. *)
THEOREM RingNeverBehindCursor == Spec => []NeverBehindCursor
<1>1. IInv => NeverBehindCursor
  BY DEF IInv
<1> QED
  BY <1>1, RingInvariant, PTL

(* No cursor overtakes the published tail. *)
THEOREM RingCursorBehindTail == Spec => []CursorBehindTail
<1>1. IInv => CursorBehindTail
  BY DEF IInv
<1> QED
  BY <1>1, RingInvariant, PTL

(* No consumer goroutine is ended by an empty slot of an open ring. *)
THEOREM RingExitOnlyAfterClose == Spec => []ExitOnlyAfterClose
<1>1. IInv => ExitOnlyAfterClose
  BY DEF IInv
<1> QED
  BY <1>1, RingInvariant, PTL

-----------------------------------------------------------------------------
LEMMA InitIsFeedInit == Init => Feed!FeedInit
  BY DEF Init, Feed!FeedInit, Written, Phase, Nil, Feed!NoTick

LEMMA StepIsFeedStep ==
  IInv /\ [Next]_vars => [Feed!FeedNext]_(Feed!feedVars)
<1> SUFFICES ASSUME IInv, [Next]_vars
             PROVE  Feed!FeedNext \/ UNCHANGED Feed!feedVars
  BY DEF Feed!feedVars
<1> USE CapacityAssumption, MaxWritesAssumption
<1>1. CASE WriteSlot
  BY <1>1 DEF IInv, TypeOK, WriteSlot, Written, Phase, Feed!FeedNext, Feed!Produce
<1>2. CASE Publish
  BY <1>2 DEF IInv, TypeOK, Publish, Written, Phase, Feed!feedVars
<1>3. CASE Close
  BY <1>3 DEF Close, Written, Phase, Feed!FeedNext, Feed!Shut
<1>4. ASSUME NEW r \in Readers, NewReader(r) PROVE Feed!Attach(r)
  <2>1. writePos \in 0..Written /\ writePos >= Written - 1
    BY DEF IInv, TypeOK, Written
  <2>2. [q \in Readers |-> Phase(q)]' = [[q \in Readers |-> Phase(q)] EXCEPT ![r] = "reading"]
    BY <1>4 DEF IInv, TypeOK, NewReader, Phase
  <2> QED
    BY <1>4, <2>1, <2>2 DEF NewReader, Feed!Attach, Written, Phase
<1>5. ASSUME NEW r \in Readers, LoadPos(r)
      PROVE  Feed!Skip(r) \/ UNCHANGED Feed!feedVars
  <2>1. [q \in Readers |-> Phase(q)]' = [q \in Readers |-> Phase(q)]
    BY <1>5 DEF IInv, TypeOK, LoadPos, Phase
  <2>2. Phase(r) = "reading" /\ Written' = Written
    BY <1>5 DEF LoadPos, Phase, Written
  <2>3. CASE writePos - readPos[r] > Capacity
    <3>1. /\ Written - readPos[r] > Capacity
          /\ writePos - 1 \in (readPos[r] + 1)..(Written - 1)
      BY <2>3 DEF IInv, TypeOK, Written
    <3> QED
      BY <1>5, <2>1, <2>2, <2>3, <3>1 DEF LoadPos, Feed!Skip, Feed!Lapped
  <2>4. CASE ~(writePos - readPos[r] > Capacity)
    BY <1>5, <2>1, <2>2, <2>4 DEF IInv, TypeOK, LoadPos, Feed!feedVars
  <2> QED
    BY <2>3, <2>4
<1>6. ASSUME NEW r \in Readers, CheckClosed(r)
      PROVE  Feed!Leave(r) \/ UNCHANGED Feed!feedVars
  <2>1. CASE closed
    <3>1. [q \in Readers |-> Phase(q)]' = [[q \in Readers |-> Phase(q)] EXCEPT ![r] = "exited"]
      BY <1>6, <2>1 DEF IInv, TypeOK, CheckClosed, Phase
    <3> QED
      BY <1>6, <2>1, <3>1 DEF CheckClosed, Feed!Leave, Phase, Written
  <2>2. CASE ~closed
    <3>1. [q \in Readers |-> Phase(q)]' = [q \in Readers |-> Phase(q)]
      BY <1>6, <2>2 DEF IInv, TypeOK, CheckClosed, Phase
    <3> QED
      BY <1>6, <3>1 DEF CheckClosed, Feed!feedVars, Written
  <2> QED
    BY <2>1, <2>2
<1>7. ASSUME NEW r \in Readers, ReadSlot(r) PROVE Feed!Deliver(r)
  <2> DEFINE tick == buffer[Idx(readPos[r])]
  <2>1. /\ tick \in readPos[r]..(Written - 1)
        /\ tick >= Written - Capacity
        /\ Written - readPos[r] > Capacity \/ tick = readPos[r]
        /\ tick # Nil
    BY <1>7, SlotHasTickForCursor DEF ReadSlot, IInv, TypeOK, Written, Nil
  <2>2. [q \in Readers |-> Phase(q)]' = [q \in Readers |-> Phase(q)]
    BY <1>7, <2>1 DEF IInv, TypeOK, ReadSlot, Phase
  <2>3. Phase(r) = "reading" /\ Written' = Written
    BY <1>7 DEF ReadSlot, Phase, Written
  <2> QED
    BY <1>7, <2>1, <2>2, <2>3 DEF ReadSlot, Feed!Deliver, Feed!Lapped
<1>8. CASE UNCHANGED vars
  BY <1>8 DEF vars, Written, Phase, Feed!feedVars
<1> QED
  BY <1>1, <1>2, <1>3, <1>4, <1>5, <1>6, <1>7, <1>8 DEF Next, Feed!FeedNext

(* The ring implements the feed: lossless and in order to a reader inside  *)
(* the window, never stale to one outside it.                              *)
THEOREM RingImplementsFeed == Spec => ImplementsFeed
<1>1. Init => Feed!FeedInit
  BY InitIsFeedInit
<1>2. IInv /\ [Next]_vars => [Feed!FeedNext]_(Feed!feedVars)
  BY StepIsFeedStep
<1> QED
  BY <1>1, <1>2, RingInvariant, PTL DEF Spec, ImplementsFeed, Feed!FeedSpec
=============================================================================
