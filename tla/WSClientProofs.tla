--------------------------- MODULE WSClientProofs ---------------------------
(***************************************************************************)
(* Whatever Subscribe, onConnect and the connection do between each other's *)
(* steps, nothing wanted is forgotten: for any batches and any number of   *)
(* calls.                                                                  *)
(***************************************************************************)
EXTENDS WSClient, TLAPS

Listed == Batched(array, Len(array))

(* What onConnect, where it stands, is going to ask for. *)
Promised ==
  IF npc = "length" THEN Listed
  ELSE IF npc = "slice" THEN Batched(array, seenLength)
  ELSE IF npc = "ask" THEN Batched(seenArray, seenLength)
  ELSE {}

(* The list has everything wanted, but for an append that is half done. *)
WantedIsListed ==
  wanted \subseteq Listed \cup (IF cpc = "pointer" THEN call ELSE {})

(* On a live connection, what is wanted was asked for or will be: by the   *)
(* call in progress, or by onConnect.                                      *)
WantedIsPromised == up => wanted \subseteq asked \cup call \cup Promised

SeenIsPast == npc = "slice" => seenLength <= length

IInv ==
  /\ TypeOK
  /\ WantedIsListed
  /\ WantedIsPromised
  /\ SeenIsPast

-----------------------------------------------------------------------------
(* The batches of an array stay where they are when it grows. *)
LEMMA BatchedAppend ==
  ASSUME NEW arr \in Seq(Batches), NEW b \in Batches, NEW n \in Nat
  PROVE  /\ Batched(arr, n) \subseteq Batched(Append(arr, b), n)
         /\ Batched(Append(arr, b), Len(Append(arr, b))) = Batched(arr, Len(arr)) \cup b
<1>1. Append(arr, b) \in Seq(Batches) /\ Len(Append(arr, b)) = Len(arr) + 1
  OBVIOUS
<1>2. \A i \in DOMAIN arr : i \in DOMAIN Append(arr, b) /\ Append(arr, b)[i] = arr[i]
  OBVIOUS
<1>3. Append(arr, b)[Len(arr) + 1] = b
  OBVIOUS
<1>4. DOMAIN Append(arr, b) = DOMAIN arr \cup {Len(arr) + 1}
  OBVIOUS
<1>5. Batched(arr, n) \subseteq Batched(Append(arr, b), n)
  BY <1>2 DEF Batched
<1>6. Batched(arr, Len(arr)) \cup b \subseteq Batched(Append(arr, b), Len(Append(arr, b)))
  <2>1. \A i \in DOMAIN Append(arr, b) : i <= Len(Append(arr, b))
    BY <1>1
  <2>2. Batched(arr, Len(arr)) \subseteq Batched(Append(arr, b), Len(Append(arr, b)))
    BY <1>2, <2>1 DEF Batched
  <2>3. b \subseteq Batched(Append(arr, b), Len(Append(arr, b)))
    BY <1>1, <1>3, <1>4, <2>1 DEF Batched
  <2> QED BY <2>2, <2>3
<1>7. Batched(Append(arr, b), Len(Append(arr, b))) \subseteq Batched(arr, Len(arr)) \cup b
  <2> SUFFICES ASSUME NEW i \in DOMAIN Append(arr, b)
               PROVE  Append(arr, b)[i] \subseteq Batched(arr, Len(arr)) \cup b
    BY DEF Batched
  <2>1. CASE i = Len(arr) + 1
    BY <2>1, <1>3
  <2>2. CASE i \in DOMAIN arr
    <3>1. i <= Len(arr)
      BY <2>2
    <3> QED BY <2>2, <3>1, <1>2 DEF Batched
  <2> QED BY <2>1, <2>2, <1>4
<1> QED BY <1>5, <1>6, <1>7

(* A longer part of an array has no fewer symbols, and a length of at      *)
(* least the array's has all of them.                                      *)
LEMMA BatchedMonotone ==
  ASSUME NEW arr \in Seq(Batches), NEW m \in Nat, NEW n \in Nat
  PROVE  /\ m <= n => Batched(arr, m) \subseteq Batched(arr, n)
         /\ n >= Len(arr) => Batched(arr, n) = Batched(arr, Len(arr))
         /\ arr = <<>> => Batched(arr, n) = {}
         /\ Batched(arr, n) \subseteq Known
<1>1. \A i \in DOMAIN arr : i \in Nat /\ i <= Len(arr) /\ arr[i] \in Batches
  OBVIOUS
<1>2. m <= n => Batched(arr, m) \subseteq Batched(arr, n)
  BY <1>1 DEF Batched
<1>3. n >= Len(arr) => Batched(arr, n) = Batched(arr, Len(arr))
  <2>1. n >= Len(arr) => {j \in DOMAIN arr : j <= n} = {j \in DOMAIN arr : j <= Len(arr)}
    BY <1>1
  <2> QED BY <2>1 DEF Batched
<1>4. arr = <<>> => Batched(arr, n) = {}
  BY DEF Batched
<1>5. Batched(arr, n) \subseteq Known
  BY <1>1 DEF Batched, Known
<1> QED BY <1>2, <1>3, <1>4, <1>5

-----------------------------------------------------------------------------
LEMMA InitInvariant == Init => IInv
<1> SUFFICES ASSUME Init PROVE IInv
  OBVIOUS
<1>1. TypeOK
  <2>1. array \in Seq(Batches) /\ seenArray \in Seq(Batches) /\ Len(array) = 0
    BY DEF Init
  <2>2. calls \in 0..MaxCalls /\ late \in 0..MaxLate
    BY WSClientAssumption DEF Init
  <2>3. asked \subseteq Known /\ wanted \subseteq Known /\ seenLength \in Nat
    BY DEF Init
  <2>4. up \in BOOLEAN /\ faulted \in BOOLEAN /\ cpc \in {"idle", "pointer", "ask"}
    BY DEF Init
  <2>6. length = IF cpc = "pointer" THEN Len(array) + 1 ELSE Len(array)
    BY <2>1 DEF Init
  <2>5. /\ IF cpc = "idle" THEN call = {} ELSE call \in Batches
        /\ npc \in {"idle", "length", "slice", "ask"}
        /\ npc # "idle" => up
        /\ ~up => asked = {}
    BY DEF Init
  <2> QED BY <2>1, <2>2, <2>3, <2>4, <2>5, <2>6 DEF TypeOK
<1>2. WantedIsListed /\ WantedIsPromised /\ SeenIsPast
  BY DEF Init, WantedIsListed, WantedIsPromised, SeenIsPast
<1> QED BY <1>1, <1>2 DEF IInv

LEMMA TypeStep == TypeOK /\ Next => TypeOK'
<1> SUFFICES ASSUME TypeOK, Next PROVE TypeOK'
  OBVIOUS
<1> USE WSClientAssumption DEF TypeOK
<1>1. ASSUME NEW b \in Batches, AppendInPlace(b) PROVE TypeOK'
  BY <1>1 DEF AppendInPlace, Enter, connectVars, Known
<1>2. ASSUME NEW b \in Batches, AppendLength(b) PROVE TypeOK'
  BY <1>2 DEF AppendLength, Enter, connectVars, Known
<1>3. ASSUME NEW b \in Batches, Unsubscribe(b) PROVE TypeOK'
  BY <1>3 DEF Unsubscribe, connectVars, sliceVars, Known
<1>4. CASE AppendPointer
  BY <1>4 DEF AppendPointer, connectVars
<1>5. CASE Ask
  BY <1>5 DEF Ask, connectVars, sliceVars, Known
<1>6. CASE Connect
  BY <1>6 DEF Connect, callVars, sliceVars
<1>7. CASE Drop
  <2>1. late' \in 0..MaxLate
    BY <1>7 DEF Drop
  <2> QED BY <1>7, <2>1 DEF Drop, callVars, sliceVars
<1>8. CASE LoadLength
  BY <1>8 DEF LoadLength, callVars, sliceVars
<1>9. CASE LoadSlice
  BY <1>9 DEF LoadSlice, callVars, sliceVars
<1>10. CASE AskAgain
  <2>1. Batched(seenArray, seenLength) \subseteq Known
    BY BatchedMonotone
  <2> QED BY <1>10, <2>1 DEF AskAgain, callVars, sliceVars
<1>11. CASE Fault
  BY <1>11 DEF Fault, callVars, sliceVars
<1>12. CASE AskLate
  <2>1. \A n \in 0..length : Batched(array, n) \subseteq Known
    BY BatchedMonotone
  <2>2. late' \in 0..MaxLate
    BY <1>12 DEF AskLate
  <2>3. faulted' \in BOOLEAN
    BY <1>12 DEF AskLate
  <2>4. asked' \subseteq Known /\ (~up => asked' = asked)
    BY <1>12, <2>1 DEF AskLate
  <2> QED BY <1>12, <2>2, <2>3, <2>4 DEF AskLate, callVars, sliceVars
<1> QED
  BY <1>1, <1>2, <1>3, <1>4, <1>5, <1>6, <1>7, <1>8, <1>9, <1>10, <1>11, <1>12 DEF Next

(* Only a call changes the list and what is wanted. *)
LEMMA ListedStep == IInv /\ Next => WantedIsListed'
<1> SUFFICES ASSUME IInv, Next PROVE WantedIsListed'
  OBVIOUS
<1> USE DEF IInv, TypeOK, WantedIsListed, Listed
<1>1. ASSUME NEW b \in Batches, AppendInPlace(b) PROVE WantedIsListed'
  <2>1. array' = Append(array, b) /\ call' = b /\ wanted' = wanted \cup b /\ call = {}
    BY <1>1 DEF AppendInPlace, Enter
  <2>2. Batched(array', Len(array')) = Batched(array, Len(array)) \cup b
    BY <2>1, BatchedAppend, 0 \in Nat
  <2> QED BY <2>1, <2>2
<1>2. ASSUME NEW b \in Batches, AppendLength(b) PROVE WantedIsListed'
  BY <1>2 DEF AppendLength, Enter
<1>3. ASSUME NEW b \in Batches, Unsubscribe(b) PROVE WantedIsListed'
  BY <1>3 DEF Unsubscribe, sliceVars
<1>4. CASE AppendPointer
  <2>1. array' = Append(array, call) /\ call \in Batches
        /\ UNCHANGED <<call, wanted>>
    BY <1>4 DEF AppendPointer
  <2>2. Batched(array', Len(array')) = Batched(array, Len(array)) \cup call
    BY <2>1, BatchedAppend, 0 \in Nat
  <2> QED BY <2>1, <2>2
<1>5. CASE Ask
  BY <1>5 DEF Ask, sliceVars
<1>6. CASE UNCHANGED <<sliceVars, callVars>>
  BY <1>6 DEF sliceVars, callVars
<1> QED
  BY <1>1, <1>2, <1>3, <1>4, <1>5, <1>6
  DEF Next, Connect, Drop, LoadLength, LoadSlice, AskAgain, Fault, AskLate

(* The promise moves from one holder to the next and is never dropped: a   *)
(* call that finds the list too late for onConnect asks on the live        *)
(* connection itself.                                                      *)
LEMMA PromisedStep == IInv /\ Next => WantedIsPromised' /\ SeenIsPast'
<1> SUFFICES ASSUME IInv, Next PROVE WantedIsPromised' /\ SeenIsPast'
  OBVIOUS
<1> USE DEF IInv, TypeOK, WantedIsPromised, SeenIsPast
<1>0. length \in Nat
  OBVIOUS
<1>1. ASSUME NEW b \in Batches, AppendInPlace(b) PROVE WantedIsPromised' /\ SeenIsPast'
  <2>1. array' = Append(array, b) /\ call' = b /\ wanted' = wanted \cup b /\ call = {}
        /\ length' = length + 1
        /\ UNCHANGED <<up, asked, npc, seenArray, seenLength>>
    BY <1>1 DEF AppendInPlace, Enter, connectVars
  <2>2. Batched(array', Len(array')) = Batched(array, Len(array)) \cup b
        /\ Batched(array, seenLength) \subseteq Batched(array', seenLength)
    BY <2>1, BatchedAppend
  <2>3. Promised \subseteq Promised'
    BY <2>1, <2>2 DEF Promised, Listed
  <2> QED BY <2>1, <2>3, <1>0
<1>2. ASSUME NEW b \in Batches, AppendLength(b) PROVE WantedIsPromised' /\ SeenIsPast'
  <2>1. call' = b /\ wanted' = wanted \cup b /\ call = {} /\ length' = length + 1
        /\ UNCHANGED <<up, asked, array, npc, seenArray, seenLength>>
    BY <1>2 DEF AppendLength, Enter, connectVars
  <2>2. Promised' = Promised
    BY <2>1 DEF Promised, Listed
  <2> QED BY <2>1, <2>2, <1>0
<1>3. ASSUME NEW b \in Batches, Unsubscribe(b) PROVE WantedIsPromised' /\ SeenIsPast'
  <2>1. Promised' = Promised
    BY <1>3 DEF Unsubscribe, sliceVars, connectVars, Promised, Listed
  <2> QED BY <2>1, <1>3 DEF Unsubscribe, sliceVars, connectVars
<1>4. CASE AppendPointer
  <2>1. array' = Append(array, call) /\ call \in Batches
        /\ UNCHANGED <<up, asked, call, wanted, length, npc, seenArray, seenLength>>
    BY <1>4 DEF AppendPointer, connectVars
  <2>2. Batched(array', Len(array')) = Batched(array, Len(array)) \cup call
        /\ Batched(array, seenLength) \subseteq Batched(array', seenLength)
    BY <2>1, BatchedAppend
  <2>3. Promised \subseteq Promised'
    BY <2>1, <2>2 DEF Promised, Listed
  <2> QED BY <2>1, <2>3
<1>5. CASE Ask
  <2>1. Promised' = Promised
    BY <1>5 DEF Ask, sliceVars, connectVars, Promised, Listed
  <2> QED BY <2>1, <1>5 DEF Ask, sliceVars, connectVars
<1>6. CASE Connect
  <2>1. Promised' = Listed
    BY <1>6 DEF Connect, sliceVars, callVars, Promised, Listed
  <2> QED BY <2>1, <1>6 DEF Connect, sliceVars, callVars, WantedIsListed
<1>7. CASE Drop
  BY <1>7 DEF Drop
<1>8. CASE LoadLength
  <2>1. length = 0 => Listed = {}
    <3>1. length = 0 => array = <<>>
      OBVIOUS
    <3> QED BY <3>1, BatchedMonotone, 0 \in Nat DEF Listed
  <2>2. Batched(array, length) = Listed
    BY <1>0, BatchedMonotone DEF Listed
  <2>3. Promised' = Listed /\ Promised = Listed
    BY <2>1, <2>2, <1>8 DEF LoadLength, sliceVars, Promised, Listed
  <2> QED BY <2>3, <1>0, <1>8 DEF LoadLength, sliceVars, callVars
<1>9. CASE LoadSlice
  <2>1. Batched(array, seenLength) \subseteq Batched(array, seenLength')
    BY <1>9, <1>0, BatchedMonotone DEF LoadSlice
  <2>2. Promised \subseteq Promised'
    BY <2>1, <1>9 DEF LoadSlice, Promised
  <2> QED BY <2>2, <1>9 DEF LoadSlice, sliceVars, callVars
<1>10. CASE AskAgain
  <2>1. Promised \subseteq asked'
    BY <1>10 DEF AskAgain, Promised
  <2> QED BY <2>1, <1>10 DEF AskAgain, sliceVars, callVars
<1>11. CASE Fault
  <2>1. Promised' = Promised
    BY <1>11 DEF Fault, sliceVars, Promised, Listed
  <2> QED BY <2>1, <1>11 DEF Fault, sliceVars, callVars
<1>12. CASE AskLate
  <2>1. Promised' = Promised /\ asked \subseteq asked'
    BY <1>12 DEF AskLate, sliceVars, Promised, Listed
  <2> QED BY <2>1, <1>12 DEF AskLate, sliceVars, callVars
<1> QED
  BY <1>1, <1>2, <1>3, <1>4, <1>5, <1>6, <1>7, <1>8, <1>9, <1>10, <1>11, <1>12 DEF Next

(* Every state satisfies the whole of the invariant. *)
THEOREM ClientInvariant == Spec => []IInv
<1>1. IInv /\ [Next]_vars => IInv'
  <2> SUFFICES ASSUME IInv, [Next]_vars PROVE IInv'
    OBVIOUS
  <2>1. CASE Next
    BY <2>1, TypeStep, ListedStep, PromisedStep DEF IInv
  <2>2. CASE UNCHANGED vars
    BY <2>2 DEF vars, sliceVars, callVars, connectVars, IInv, TypeOK, WantedIsListed,
                WantedIsPromised, SeenIsPast, Promised, Listed
  <2> QED BY <2>1, <2>2
<1> QED BY <1>1, InitInvariant, PTL DEF Spec

(* The values of the variables are those of TypeOK: among them, c.symbols  *)
(* is one ahead of its array only inside an append.                        *)
THEOREM ClientTypeCorrect == Spec => []TypeOK
<1>1. IInv => TypeOK
  BY DEF IInv
<1> QED BY <1>1, ClientInvariant, PTL

(* client.go forgets nothing that is wanted, although Subscribe and        *)
(* onConnect share c.symbols without a lock.                               *)
THEOREM ClientCoversInterest == Spec => []WantedIsAsked
<1>1. IInv => WantedIsAsked
  <2> SUFFICES ASSUME IInv, up, npc = "idle" PROVE wanted \subseteq asked \cup call
    BY DEF WantedIsAsked
  <2>1. Promised = {}
    BY DEF Promised
  <2> QED BY <2>1 DEF IInv, WantedIsPromised
<1> QED BY <1>1, ClientInvariant, PTL
=============================================================================
