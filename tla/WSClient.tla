------------------------------ MODULE WSClient ------------------------------
(***************************************************************************)
(* marketdata/client.go with its calls taken apart: Subscribe remembers    *)
(* the symbols in c.symbols and then asks for them, while onConnect, on a  *)
(* goroutine of the websocket SDK, reads c.symbols without any lock and    *)
(* asks for them again.  Module Subscriptions takes these calls whole.     *)
(*                                                                         *)
(* c.symbols is a slice: a pointer to an array and a length.  An append    *)
(* that outgrows the array stores the two one after the other, so a reader *)
(* in between has the new length and the old array.  One call appends one  *)
(* batch, and the batch is the unit of length here.                        *)
(***************************************************************************)
EXTENDS Integers, Sequences

CONSTANTS
  Batches,       \* the lists of symbols that callers pass, as sets
  MaxCalls,      \* BOUND: calls of Subscribe
  MaxLate        \* BOUND: onConnects that outlived their connection

ASSUME WSClientAssumption ==
  /\ \A b \in Batches : b # {}
  /\ MaxCalls \in Nat /\ MaxLate \in Nat

VARIABLES
  up,            \* the websocket is connected
  asked,         \* what the exchange was asked to stream on this connection
  array,         \* the array c.symbols points to
  length,        \* the length of c.symbols
  cpc,           \* the caller: "idle", or in Subscribe at "pointer" or "ask"
  call,          \* the batch of that call
  npc,           \* onConnect of this connection: "idle", "length", "slice" or "ask"
  seenArray,     \* the slice that onConnect loaded
  seenLength,
  late,          \* onConnects that run on after their connection was lost
  faulted,       \* the process died of a read past the end of an array
  wanted,        \* history: what is subscribed and not unsubscribed since
  calls          \* history: calls of Subscribe

sliceVars == <<array, length>>
callVars == <<cpc, call, wanted, calls>>
connectVars == <<npc, seenArray, seenLength, late, faulted>>
vars == <<up, asked, sliceVars, callVars, connectVars>>

Init ==
  /\ up = FALSE
  /\ asked = {}
  /\ array = <<>>
  /\ length = 0
  /\ cpc = "idle"
  /\ call = {}
  /\ npc = "idle"
  /\ seenArray = <<>>
  /\ seenLength = 0
  /\ late = 0
  /\ faulted = FALSE
  /\ wanted = {}
  /\ calls = 0

-----------------------------------------------------------------------------
(* The symbols in the first n batches of an array, or in all it has. *)
Batched(arr, n) == UNION {arr[i] : i \in {j \in DOMAIN arr : j <= n}}

(* Subscribe is entered.  Callers exclude each other: main's only call     *)
(* comes before the first tick, the pipeline's are under its lock.         *)
Enter(b) ==
  /\ ~faulted
  /\ cpc = "idle"
  /\ calls < MaxCalls
  /\ call' = b
  /\ wanted' = wanted \cup b
  /\ calls' = calls + 1
  /\ length' = length + 1

(* append, with room left in the array: the batch, then the length. *)
AppendInPlace(b) ==
  /\ Enter(b)
  /\ array' = Append(array, b)
  /\ cpc' = "ask"
  /\ UNCHANGED <<up, asked, connectVars>>

(* append to a bigger array: the new length is stored ... *)
AppendLength(b) ==
  /\ Enter(b)
  /\ cpc' = "pointer"
  /\ UNCHANGED <<up, asked, array, connectVars>>

(* Mutant of AppendPointer: the bigger array holds the new batch alone. *)
AppendPointerWithoutCopy ==
  /\ ~faulted
  /\ cpc = "pointer"
  /\ array' = <<call>>
  /\ cpc' = "ask"
  /\ UNCHANGED <<up, asked, length, call, wanted, calls, connectVars>>

(* ... and then the pointer.  The other order shows a reader nothing that  *)
(* it would not also see before or after.                                  *)
AppendPointer ==
  /\ ~faulted
  /\ cpc = "pointer"
  /\ array' = Append(array, call)
  /\ cpc' = "ask"
  /\ UNCHANGED <<up, asked, length, call, wanted, calls, connectVars>>

(* Mutant of Ask: the client holds requests back until onConnect is over. *)
AskWhenSynced ==
  /\ ~faulted
  /\ cpc = "ask"
  /\ asked' = IF up /\ npc = "idle" THEN asked \cup call ELSE asked
  /\ cpc' = "idle"
  /\ call' = {}
  /\ UNCHANGED <<up, sliceVars, wanted, calls, connectVars>>

(* socket.Subscribe; without a connection the request goes nowhere. *)
Ask ==
  /\ ~faulted
  /\ cpc = "ask"
  /\ asked' = IF up THEN asked \cup call ELSE asked
  /\ cpc' = "idle"
  /\ call' = {}
  /\ UNCHANGED <<up, sliceVars, wanted, calls, connectVars>>

(* Unsubscribe: only the exchange is told. *)
Unsubscribe(b) ==
  /\ ~faulted
  /\ cpc = "idle"
  /\ wanted' = wanted \ b
  /\ asked' = asked \ b
  /\ UNCHANGED <<up, sliceVars, cpc, call, calls, connectVars>>

-----------------------------------------------------------------------------
(* The SDK has connected, for the first time or again, and calls onConnect. *)
Connect ==
  /\ ~faulted
  /\ ~up
  /\ up' = TRUE
  /\ npc' = "length"
  /\ UNCHANGED <<asked, sliceVars, callVars, seenArray, seenLength, late, faulted>>

(* The connection is gone; its onConnect, if not over, runs on. *)
Drop ==
  /\ ~faulted
  /\ up
  /\ up' = FALSE
  /\ asked' = {}
  /\ npc' = "idle"
  /\ late' = late + (IF npc = "idle" THEN 0 ELSE 1)
  /\ late' <= MaxLate
  /\ UNCHANGED <<sliceVars, callVars, seenArray, seenLength, faulted>>

(* Mutant of LoadLength: > 1 for > 0. *)
LoadLengthOffByOne ==
  /\ ~faulted
  /\ npc = "length"
  /\ seenLength' = length
  /\ npc' = IF length > 1 THEN "slice" ELSE "idle"
  /\ UNCHANGED <<up, asked, sliceVars, callVars, seenArray, late, faulted>>

(* onConnect: is there anything to ask for again? *)
LoadLength ==
  /\ ~faulted
  /\ npc = "length"
  /\ seenLength' = length
  /\ npc' = IF length > 0 THEN "slice" ELSE "idle"
  /\ UNCHANGED <<up, asked, sliceVars, callVars, seenArray, late, faulted>>

(* onConnect: the slice is loaded.  The build may use the length of the    *)
(* comparison or load it again.                                            *)
LoadSlice ==
  /\ ~faulted
  /\ npc = "slice"
  /\ seenArray' = array
  /\ seenLength' \in {seenLength, length}
  /\ npc' = "ask"
  /\ UNCHANGED <<up, asked, sliceVars, callVars, late, faulted>>

(* onConnect: socket.Subscribe of that slice.  What lies behind the end of *)
(* its array, if it has a part there, are not symbols anybody wants.       *)
AskAgain ==
  /\ ~faulted
  /\ npc = "ask"
  /\ asked' = asked \cup Batched(seenArray, seenLength)
  /\ npc' = "idle"
  /\ UNCHANGED <<up, sliceVars, callVars, seenArray, seenLength, late, faulted>>

(* ... unless the read behind the end is fatal. *)
Fault ==
  /\ ~faulted
  /\ npc = "ask"
  /\ seenLength > Len(seenArray)
  /\ faulted' = TRUE
  /\ UNCHANGED <<up, asked, sliceVars, callVars, npc, seenArray, seenLength, late>>

(* An onConnect of a lost connection asks on the present one, if there is  *)
(* one, with a slice it has loaded at any time, or dies of it.             *)
AskLate ==
  /\ ~faulted
  /\ late > 0
  /\ late' = late - 1
  /\ \/ /\ \E n \in 0..length :
             asked' = IF up THEN asked \cup Batched(array, n) ELSE asked
        /\ UNCHANGED faulted
     \/ /\ calls > 0
        /\ faulted' = TRUE
        /\ UNCHANGED asked
  /\ UNCHANGED <<up, sliceVars, callVars, npc, seenArray, seenLength>>

CallerStep == AppendPointer \/ Ask
ConnectStep == LoadLength \/ LoadSlice \/ AskAgain \/ Fault

Next ==
  \/ \E b \in Batches : AppendInPlace(b) \/ AppendLength(b) \/ Unsubscribe(b)
  \/ AppendPointer
  \/ Ask
  \/ Connect
  \/ Drop
  \/ LoadLength
  \/ LoadSlice
  \/ AskAgain
  \/ Fault
  \/ AskLate

Spec == Init /\ [][Next]_vars

(* The caller and onConnect are goroutines that nothing blocks.  Nobody    *)
(* owes a connection, a call or an end of either, and a late onConnect is  *)
(* not relied on.                                                          *)
Fairness == WF_vars(CallerStep) /\ WF_vars(ConnectStep)

FairSpec == Spec /\ Fairness

-----------------------------------------------------------------------------
Known == UNION Batches

(* The values the variables range over; while a pointer is outstanding the *)
(* length is one ahead of the array, and at no other time.                 *)
TypeOK ==
  /\ up \in BOOLEAN /\ faulted \in BOOLEAN
  /\ asked \subseteq Known /\ wanted \subseteq Known
  /\ array \in Seq(Batches) /\ seenArray \in Seq(Batches)
  /\ length = IF cpc = "pointer" THEN Len(array) + 1 ELSE Len(array)
  /\ seenLength \in Nat
  /\ cpc \in {"idle", "pointer", "ask"}
  /\ IF cpc = "idle" THEN call = {} ELSE call \in Batches
  /\ npc \in {"idle", "length", "slice", "ask"}
  /\ npc # "idle" => up
  /\ ~up => asked = {}
  /\ calls \in 0..MaxCalls /\ late \in 0..MaxLate

(* Nothing wanted falls between Subscribe and onConnect: whenever the      *)
(* connection is up and onConnect is over, everything subscribed and not   *)
(* unsubscribed since has been asked for on this connection, or is in the  *)
(* call that is about to ask.  It holds for every interleaving of the two  *)
(* with drops and reconnects, for stale lengths, torn slices and an        *)
(* onConnect that asks when its connection is no longer there.             *)
WantedIsAsked ==
  (up /\ npc = "idle") => wanted \subseteq asked \cup call

(* A connection that stays up streams what is wanted once callers rest,    *)
(* unless the torn read kills the process.                                 *)
StreamsInTheEnd ==
  <>[]up => <>[](faulted \/ (cpc = "idle" => wanted \subseteq asked))
=============================================================================
