-------------------------- MODULE StateStoreProofs --------------------------
(***************************************************************************)
(* What every use of the state store keeps: its types, and the order in    *)
(* which a batch makes its keys those of today.                            *)
(***************************************************************************)
EXTENDS StateStore, TLAPS, SequenceTheorems

(* RemoveAt drops one element and closes the gap. *)
LEMMA RemoveAtProperties ==
  ASSUME NEW S, NEW s \in Seq(S), NEW i \in DOMAIN s
  PROVE  /\ RemoveAt(s, i) \in Seq(S)
         /\ Len(RemoveAt(s, i)) = Len(s) - 1
         /\ \A j \in DOMAIN RemoveAt(s, i) :
              \E k \in DOMAIN s : RemoveAt(s, i)[j] = s[k]
<1> DEFINE before == SubSeq(s, 1, i - 1)
           after  == SubSeq(s, i + 1, Len(s))
<1>1. Len(s) \in Nat /\ i \in 1..Len(s)
  BY LenProperties
<1>2. \A j \in 1..Len(s) : s[j] \in S
  BY ElementOfSeq
<1>3. /\ before \in Seq(S)
      /\ Len(before) = i - 1
      /\ \A j \in 1..(i - 1) : before[j] = s[j]
  BY <1>1, <1>2, SubSeqProperties
<1>4. /\ after \in Seq(S)
      /\ Len(after) = Len(s) - i
      /\ \A j \in 1..(Len(s) - i) : after[j] = s[i + j]
  BY <1>1, <1>2, SubSeqProperties
<1>5. RemoveAt(s, i) = before \o after
  BY DEF RemoveAt
<1> HIDE DEF before, after
<1>6. /\ RemoveAt(s, i) \in Seq(S)
      /\ Len(RemoveAt(s, i)) = Len(s) - 1
  BY <1>1, <1>3, <1>4, <1>5, ConcatProperties
<1>7. ASSUME NEW j \in 1..(Len(s) - 1)
      PROVE  RemoveAt(s, i)[j] = IF j < i THEN s[j] ELSE s[j + 1]
  <2>1. j \in Int /\ j \in 1..(Len(before) + Len(after))
    BY <1>1, <1>3, <1>4
  <2>2. RemoveAt(s, i)[j] = IF j <= Len(before) THEN before[j] ELSE after[j - Len(before)]
    <3>1. \A k \in 1..(Len(before) + Len(after)) :
            (before \o after)[k] = IF k <= Len(before) THEN before[k] ELSE after[k - Len(before)]
      BY <1>3, <1>4, ConcatProperties, Zenon
    <3> QED BY <1>5, <2>1, <3>1, Zenon
  <2>3. CASE j < i
    BY <1>1, <1>3, <2>1, <2>2, <2>3
  <2>4. CASE ~(j < i)
    <3>1. j - (i - 1) \in 1..(Len(s) - i) /\ i + (j - (i - 1)) = j + 1 /\ ~(j <= Len(before))
      BY <1>1, <1>3, <2>1, <2>4
    <3>2. after[j - Len(before)] = s[j + 1]
      BY <1>3, <1>4, <3>1
    <3> QED BY <2>2, <2>4, <3>1, <3>2
  <2> QED BY <2>3, <2>4
<1>8. \A j \in 1..(Len(s) - 1) : \E k \in 1..Len(s) : RemoveAt(s, i)[j] = s[k]
  <2> TAKE j \in 1..(Len(s) - 1)
  <2>1. CASE j < i
    BY <1>1, <1>7, <2>1
  <2>2. CASE ~(j < i)
    <3>1. j + 1 \in 1..Len(s)
      BY <1>1
    <3> QED BY <1>7, <2>2, <3>1
  <2> QED BY <2>1, <2>2
<1>9. DOMAIN RemoveAt(s, i) = 1..(Len(s) - 1) /\ DOMAIN s = 1..Len(s)
  BY <1>6, LenProperties
<1> QED BY <1>6, <1>8, <1>9

-----------------------------------------------------------------------------
(* Everything that can happen to the store of a pipeline which saves pairs *)
(* from Strks and Pairs.                                                   *)
StoreOperation(Strks, Pairs) ==
  \/ \E atm \in Strks, syms \in Pairs : SavePipelineState(atm, syms)
  \/ SaveStep
  \/ SaveFail
  \/ NewDay
  \/ saves' = <<>> /\ UNCHANGED <<redis, today>>
  \/ UNCHANGED storeVars

(* A batch that is past a key wrote that key today, and the date, written  *)
(* last, is today's only if both others are.                               *)
BatchOrder ==
  /\ redis["date"].day # 0 /\ redis["date"].val = today
       => redis["atm"].day = today /\ redis["symbols"].day = today
  /\ \A i \in DOMAIN saves :
       /\ saves[i].next >= 2 => redis["atm"].day = today
       /\ saves[i].next >= 3 => redis["symbols"].day = today

SaveRecord(Strks, Pairs) ==
  [atm : Strks, symbols : Pairs, date : {today}, next : DOMAIN Keys]

LEMMA KeysOrder ==
  /\ DOMAIN Keys = {1, 2, 3} /\ Len(Keys) = 3
  /\ Keys[1] = "atm" /\ Keys[2] = "symbols" /\ Keys[3] = "date"
BY DEF Keys

(* Starting a save appends a batch that has written nothing. *)
LEMMA SaveKeepsStore ==
  ASSUME NEW CONSTANT Strks, NEW CONSTANT Pairs,
         StoreTypeOK(Strks, Pairs), BatchOrder,
         NEW atm \in Strks, NEW syms \in Pairs,
         SavePipelineState(atm, syms)
  PROVE  StoreTypeOK(Strks, Pairs)' /\ BatchOrder'
<1>1. CASE ~UsingRedis
  BY <1>1 DEF SavePipelineState, StoreTypeOK, BatchOrder
<1>2. CASE UsingRedis
  <2> DEFINE batch == [atm |-> atm, symbols |-> syms, date |-> today, next |-> 1]
  <2>1. saves' = Append(saves, batch) /\ Len(saves) < MaxSaves /\ UNCHANGED <<redis, today>>
    BY <1>2 DEF SavePipelineState
  <2>2. saves \in Seq(SaveRecord(Strks, Pairs)) /\ batch \in SaveRecord(Strks, Pairs)
    BY KeysOrder DEF StoreTypeOK, SaveRecord
  <2> HIDE DEF batch
  <2>3. /\ saves' \in Seq(SaveRecord(Strks, Pairs))
        /\ Len(saves') = Len(saves) + 1
        /\ \A i \in 1..Len(saves) : saves'[i] = saves[i]
        /\ saves'[Len(saves) + 1] = batch
    BY <2>1, <2>2, AppendProperties
  <2>4. Len(saves) \in Nat /\ DOMAIN saves = 1..Len(saves) /\ DOMAIN saves' = 1..(Len(saves) + 1)
    BY <2>2, <2>3, LenProperties
  <2>5. StoreTypeOK(Strks, Pairs)'
    BY <2>1, <2>3, <2>4, StateStoreAssumption DEF StoreTypeOK, SaveRecord
  <2>6. batch.next = 1
    BY DEF batch
  <2>7. BatchOrder'
    <3>1. \A i \in DOMAIN saves' : saves'[i].next >= 2 => i \in DOMAIN saves /\ saves'[i] = saves[i]
      BY <2>3, <2>4, <2>6
    <3>2. \A i \in DOMAIN saves' : saves'[i].next >= 3 => saves'[i].next >= 2
      <4>1. \A i \in DOMAIN saves' : saves'[i] \in SaveRecord(Strks, Pairs)
        BY <2>3, <2>4, ElementOfSeq
      <4>2. \A i \in DOMAIN saves' : saves'[i].next \in {1, 2, 3}
        BY <4>1, KeysOrder DEF SaveRecord
      <4> QED BY <4>2
    <3> QED BY <2>1, <3>1, <3>2 DEF BatchOrder
  <2> QED BY <2>5, <2>7
<1> QED BY <1>1, <1>2

(* One more SET of one batch. *)
LEMMA SaveStepKeepsStore ==
  ASSUME NEW CONSTANT Strks, NEW CONSTANT Pairs,
         StoreTypeOK(Strks, Pairs), BatchOrder, SaveStep
  PROVE  StoreTypeOK(Strks, Pairs)' /\ BatchOrder'
<1> DEFINE Record == SaveRecord(Strks, Pairs)
<1>1. PICK i \in DOMAIN saves :
        /\ redis' = [redis EXCEPT ![Keys[saves[i].next]] =
                       [val |-> saves[i][Keys[saves[i].next]], day |-> today]]
        /\ saves' = IF saves[i].next = Len(Keys)
                    THEN RemoveAt(saves, i)
                    ELSE [saves EXCEPT ![i].next = @ + 1]
        /\ today' = today
  BY DEF SaveStep
<1>2. saves \in Seq(Record) /\ Len(saves) \in Nat /\ DOMAIN saves = 1..Len(saves)
  BY LenProperties DEF StoreTypeOK, SaveRecord
<1>3. saves[i] \in Record
  BY <1>2, ElementOfSeq
<1>4. /\ saves[i].next \in {1, 2, 3}
      /\ saves[i].atm \in Strks
      /\ saves[i].symbols \in Pairs
      /\ saves[i].date = today
  BY <1>3, KeysOrder DEF SaveRecord
<1>5. today \in Nat /\ today >= 1 /\ DOMAIN redis = {"atm", "symbols", "date"}
  BY DEF StoreTypeOK
<1> DEFINE moved == [saves[i] EXCEPT !.next = @ + 1]
(* The batches afterwards: those of before, one of them gone or moved on.  *)
<1>6. /\ saves' \in Seq(Record)
      /\ Len(saves') <= Len(saves)
      /\ \A j \in DOMAIN saves' :
           \/ \E k \in DOMAIN saves : saves'[j] = saves[k]
           \/ saves[i].next < 3 /\ saves'[j] = moved
  <2>1. CASE saves[i].next = 3
    <3>1. saves' = RemoveAt(saves, i)
      BY <1>1, <2>1, KeysOrder
    <3> HIDE DEF Record, moved
    <3>2. \A r \in Seq(Record) : \A k \in DOMAIN r :
            /\ RemoveAt(r, k) \in Seq(Record)
            /\ Len(RemoveAt(r, k)) = Len(r) - 1
            /\ \A j \in DOMAIN RemoveAt(r, k) : \E n \in DOMAIN r : RemoveAt(r, k)[j] = r[n]
      BY RemoveAtProperties
    <3>3. /\ RemoveAt(saves, i) \in Seq(Record)
          /\ Len(RemoveAt(saves, i)) = Len(saves) - 1
          /\ \A j \in DOMAIN RemoveAt(saves, i) :
               \E k \in DOMAIN saves : RemoveAt(saves, i)[j] = saves[k]
      BY <1>2, <3>2
    <3> QED BY <1>2, <3>1, <3>3
  <2>2. CASE saves[i].next # 3
    <3>1. saves' = [saves EXCEPT ![i] = moved]
      BY <1>1, <2>2, KeysOrder
    <3>2. moved \in Record
      BY <1>3, <1>4, <2>2, KeysOrder DEF SaveRecord
    <3>3. saves[i].next < 3
      BY <1>4, <2>2
    <3> HIDE DEF moved, Record
    <3>4. /\ saves' \in Seq(Record)
          /\ Len(saves') = Len(saves)
          /\ \A j \in 1..Len(saves) : saves'[j] = IF j = i THEN moved ELSE saves[j]
      BY <1>2, <3>1, <3>2, ExceptSeq
    <3>5. DOMAIN saves' = 1..Len(saves)
      BY <3>4, LenProperties
    <3> QED BY <1>2, <3>3, <3>4, <3>5
  <2> QED BY <2>1, <2>2
<1>t. today' = today
  BY <1>1
<1>m. moved.next = saves[i].next + 1
  BY <1>3 DEF SaveRecord
<1> HIDE DEF moved
<1>s. saves' \in Seq(SaveRecord(Strks, Pairs)') /\ Len(saves') <= MaxSaves
  <2>1. SaveRecord(Strks, Pairs)' = SaveRecord(Strks, Pairs)
    BY <1>1 DEF SaveRecord
  <2>2. Len(saves') \in Nat /\ Len(saves) <= MaxSaves
    BY <1>6, LenProperties DEF StoreTypeOK
  <2> QED BY <1>2, <1>6, <2>1, <2>2, StateStoreAssumption
(* The keys afterwards: the one that was written, and the others.          *)
<1>7. CASE saves[i].next = 1
  <2>1. redis' = [redis EXCEPT !["atm"] = [val |-> saves[i].atm, day |-> today]]
    BY <1>1, <1>7, KeysOrder
  <2>2. redis'["atm"].day = today /\ redis'["atm"].val = saves[i].atm
        /\ redis'["symbols"] = redis["symbols"] /\ redis'["date"] = redis["date"]
        /\ DOMAIN redis' = DOMAIN redis
    BY <1>5, <2>1
  <2>3. StoreTypeOK(Strks, Pairs)'
    BY <1>t, <1>s, <1>4, <1>5, <2>2 DEF StoreTypeOK, SaveRecord
  <2>4. BatchOrder'
    <3>1. moved.next = 2
      BY <1>m, <1>7
    <3>2. \A j \in DOMAIN saves' : saves'[j].next >= 3 => redis["symbols"].day = today
      BY <1>6, <3>1 DEF BatchOrder
    <3> QED BY <1>t, <2>2, <3>2 DEF BatchOrder
  <2> QED BY <2>3, <2>4
<1>8. CASE saves[i].next = 2
  <2>1. redis' = [redis EXCEPT !["symbols"] = [val |-> saves[i].symbols, day |-> today]]
    BY <1>1, <1>8, KeysOrder
  <2>2. redis'["symbols"].day = today /\ redis'["symbols"].val = saves[i].symbols
        /\ redis'["atm"] = redis["atm"] /\ redis'["date"] = redis["date"]
        /\ DOMAIN redis' = DOMAIN redis
    BY <1>5, <2>1
  <2>3. StoreTypeOK(Strks, Pairs)'
    BY <1>t, <1>s, <1>4, <1>5, <2>2 DEF StoreTypeOK, SaveRecord
  <2>4. BatchOrder'
    <3>1. moved.next = 3 /\ redis["atm"].day = today
      BY <1>m, <1>8 DEF BatchOrder
    <3> QED BY <1>t, <1>6, <2>2, <3>1 DEF BatchOrder
  <2> QED BY <2>3, <2>4
<1>9. CASE saves[i].next = 3
  <2>1. redis' = [redis EXCEPT !["date"] = [val |-> saves[i].date, day |-> today]]
    BY <1>1, <1>9, KeysOrder
  <2>2. redis'["date"].day = today /\ redis'["date"].val = today
        /\ redis'["atm"] = redis["atm"] /\ redis'["symbols"] = redis["symbols"]
        /\ DOMAIN redis' = DOMAIN redis
    BY <1>4, <1>5, <2>1
  <2>3. StoreTypeOK(Strks, Pairs)'
    BY <1>t, <1>s, <1>4, <1>5, <2>2 DEF StoreTypeOK, SaveRecord
  <2>4. BatchOrder'
    <3>1. redis["atm"].day = today /\ redis["symbols"].day = today
      BY <1>9 DEF BatchOrder
    <3> QED BY <1>t, <1>6, <1>9, <2>2, <3>1 DEF BatchOrder
  <2> QED BY <2>3, <2>4
<1> QED BY <1>4, <1>7, <1>8, <1>9

(* A batch is given up, at whatever key it was. *)
LEMMA SaveFailKeepsStore ==
  ASSUME NEW CONSTANT Strks, NEW CONSTANT Pairs,
         StoreTypeOK(Strks, Pairs), BatchOrder, SaveFail
  PROVE  StoreTypeOK(Strks, Pairs)' /\ BatchOrder'
<1> DEFINE Record == SaveRecord(Strks, Pairs)
<1>1. PICK i \in DOMAIN saves : saves' = RemoveAt(saves, i) /\ UNCHANGED <<redis, today>>
  BY DEF SaveFail
<1>2. saves \in Seq(Record) /\ Len(saves) \in Nat
  BY LenProperties DEF StoreTypeOK, SaveRecord
<1> HIDE DEF Record
<1>3. /\ saves' \in Seq(Record)
      /\ Len(saves') = Len(saves) - 1
      /\ \A j \in DOMAIN saves' : \E k \in DOMAIN saves : saves'[j] = saves[k]
  BY <1>1, <1>2, RemoveAtProperties
<1> USE DEF Record
<1>4. StoreTypeOK(Strks, Pairs)'
  BY <1>1, <1>2, <1>3, StateStoreAssumption DEF StoreTypeOK, SaveRecord
<1>5. BatchOrder'
  BY <1>1, <1>3 DEF BatchOrder
<1> QED BY <1>4, <1>5

(* A new day makes every date an old one. *)
LEMMA NewDayKeepsStore ==
  ASSUME NEW CONSTANT Strks, NEW CONSTANT Pairs,
         StoreTypeOK(Strks, Pairs), BatchOrder, NewDay
  PROVE  StoreTypeOK(Strks, Pairs)' /\ BatchOrder'
<1>1. saves = <<>> /\ today' = today + 1 /\ UNCHANGED <<redis, saves>> /\ today < MaxDays
  BY DEF NewDay
<1>2. today \in Nat /\ DOMAIN saves = {}
  BY <1>1 DEF StoreTypeOK
<1>3. StoreTypeOK(Strks, Pairs)'
  <2>1. saves' \in Seq(SaveRecord(Strks, Pairs)') /\ Len(saves') = 0
    BY <1>1, EmptySeq
  <2> QED BY <1>1, <1>2, <2>1, StateStoreAssumption DEF StoreTypeOK, SaveRecord
<1>4. BatchOrder'
  BY <1>1, <1>2 DEF BatchOrder, StoreTypeOK
<1> QED BY <1>3, <1>4

(* The types of the store and the order of its batches are inductive.      *)
LEMMA StoreOperationKeepsStore ==
  ASSUME NEW CONSTANT Strks, NEW CONSTANT Pairs,
         StoreTypeOK(Strks, Pairs), BatchOrder, StoreOperation(Strks, Pairs)
  PROVE  StoreTypeOK(Strks, Pairs)' /\ BatchOrder'
<1>1. CASE \E atm \in Strks, syms \in Pairs : SavePipelineState(atm, syms)
  BY <1>1, SaveKeepsStore
<1>2. CASE SaveStep
  BY <1>2, SaveStepKeepsStore
<1>3. CASE SaveFail
  BY <1>3, SaveFailKeepsStore
<1>4. CASE NewDay
  BY <1>4, NewDayKeepsStore
<1>5. CASE saves' = <<>> /\ UNCHANGED <<redis, today>>
  <2>1. saves' \in Seq(SaveRecord(Strks, Pairs)') /\ Len(saves') = 0 /\ DOMAIN saves' = {}
    BY <1>5, EmptySeq
  <2>2. StoreTypeOK(Strks, Pairs)'
    BY <1>5, <2>1, StateStoreAssumption DEF StoreTypeOK, SaveRecord
  <2> QED BY <1>5, <2>1, <2>2 DEF BatchOrder
<1>6. CASE UNCHANGED storeVars
  BY <1>6 DEF storeVars, StoreTypeOK, BatchOrder
<1> QED BY <1>1, <1>2, <1>3, <1>4, <1>5, <1>6 DEF StoreOperation
=============================================================================
