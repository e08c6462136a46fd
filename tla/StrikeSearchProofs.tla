------------------------- MODULE StrikeSearchProofs -------------------------
(***************************************************************************)
(* FindNearestStrike is right for every sorted list and every target.      *)
(* The loop invariant: everything before lo is below the target, and hi    *)
(* is the last strike of the list or one that is not below it.             *)
(***************************************************************************)
EXTENDS StrikeSearch, TLAPS

SearchType ==
  /\ strikes \in SortedLists
  /\ target \in Int /\ best \in Int
  /\ lo \in Nat /\ hi \in Nat
  /\ spc \in {"idle", "loop", "compare", "found", "missing"}

Bracketed ==
  spc \in {"loop", "compare"} =>
    /\ lo <= hi /\ hi < Len(strikes)
    /\ \A i \in 1..lo : strikes[i] < target
    /\ hi = Len(strikes) - 1 \/ strikes[hi + 1] >= target

ClosedIn == spc = "compare" => lo = hi

SearchInv == SearchType /\ Bracketed /\ ClosedIn /\ FindsNearest

-----------------------------------------------------------------------------
(* Two strikes that are both nearest are the same strike. *)
LEMMA NearestIsUnique ==
  ASSUME NEW S \in SUBSET Int, NEW t \in Int, NEW s \in S, IsNearest(s, S, t)
  PROVE  s = NearestStrike(S, t)
<1>1. PICK n \in Int : n = NearestStrike(S, t) /\ n \in S /\ IsNearest(n, S, t)
  BY DEF NearestStrike
<1>2. s \in Int /\ Distance(s, t) \in Int /\ Distance(n, t) \in Int
  BY <1>1 DEF Distance
<1>3. \/ Distance(s, t) < Distance(n, t)
      \/ Distance(s, t) = Distance(n, t) /\ s >= n
  BY <1>1 DEF IsNearest
<1>4. \/ Distance(n, t) < Distance(s, t)
      \/ Distance(n, t) = Distance(s, t) /\ n >= s
  BY <1>1 DEF IsNearest
<1> QED  BY <1>1, <1>2, <1>3, <1>4

LEMMA SearchInvInit == SearchInit => SearchInv
<1> SUFFICES ASSUME SearchInit PROVE SearchInv
  OBVIOUS
<1>1. strikes \in SortedLists
  BY DEF SearchInit, SortedLists, Sorted
<1> QED  BY <1>1 DEF SearchInit, SearchInv, SearchType, Bracketed, ClosedIn, FindsNearest

(* The comparison with the neighbour below picks the nearest strike. *)
LEMMA CompareFindsNearest ==
  ASSUME SearchInv, Compare
  PROVE  best' \in Int /\ best' = NearestStrike(Listed, target)
<1>1. /\ strikes \in Seq(Int) /\ Sorted(strikes) /\ target \in Int
      /\ lo \in Nat /\ lo < Len(strikes) /\ lo = hi
      /\ \A i \in 1..lo : strikes[i] < target
      /\ lo = Len(strikes) - 1 \/ strikes[lo + 1] >= target
  BY DEF SearchInv, SearchType, Bracketed, ClosedIn, Compare, SortedLists
<1>2. Listed \in SUBSET Int /\ \A i \in 1..Len(strikes) : strikes[i] \in Int
  BY <1>1 DEF Listed
<1>3. lo + 1 \in 1..Len(strikes) /\ (lo > 0 => lo \in 1..Len(strikes))
  BY <1>1
<1>4. best' \in Listed
  BY <1>3 DEF Compare, Listed
<1>5. IsNearest(best', Listed, target)
  <2>1. SUFFICES ASSUME NEW i \in 1..Len(strikes)
                 PROVE  \/ Distance(best', target) < Distance(strikes[i], target)
                        \/ /\ Distance(best', target) = Distance(strikes[i], target)
                           /\ best' >= strikes[i]
    BY <1>4 DEF IsNearest, Listed
  <2>2. strikes[i] \in Int /\ strikes[lo + 1] \in Int
    BY <1>2, <1>3
  <2>3. CASE i <= lo
    <3>1. lo > 0 /\ lo \in 1..lo /\ strikes[lo] \in Int
      BY <2>3, <1>1, <1>2, <1>3
    <3>2. strikes[i] <= strikes[lo] /\ strikes[lo] < target
      BY <1>1, <1>3, <2>3, <3>1 DEF Sorted
    <3>3. strikes[i] <= strikes[lo + 1]
      BY <1>1, <1>3, <2>3 DEF Sorted
    <3> QED  BY <1>1, <2>2, <3>1, <3>2, <3>3 DEF Compare, Distance
  <2>4. CASE i > lo
    <3>1. strikes[lo + 1] <= strikes[i]
      BY <1>1, <1>3, <2>4 DEF Sorted
    <3>2. i = lo + 1 \/ strikes[lo + 1] >= target
      BY <1>1, <2>4
    <3>3. CASE lo > 0
      <4>1. strikes[lo] \in Int /\ strikes[lo] < target
        BY <1>1, <1>2, <1>3, <3>3
      <4>2. strikes[lo] <= strikes[lo + 1]
        BY <1>1, <1>3, <3>3 DEF Sorted
      <4> QED  BY <1>1, <2>2, <3>1, <3>2, <3>3, <4>1, <4>2 DEF Compare, Distance
    <3>4. CASE ~(lo > 0)
      BY <1>1, <2>2, <3>1, <3>2, <3>4 DEF Compare, Distance
    <3> QED  BY <3>3, <3>4
  <2> QED  BY <1>1, <2>3, <2>4
<1>6. best' = NearestStrike(Listed, target)
  BY <1>1, <1>2, <1>4, <1>5, NearestIsUnique
<1> QED  BY <1>2, <1>4, <1>6

LEMMA SearchInvNext == SearchInv /\ [SearchNext]_searchVars => SearchInv'
<1> SUFFICES ASSUME SearchInv, [SearchNext]_searchVars PROVE SearchInv'
  OBVIOUS
<1>1. /\ strikes \in Seq(Int) /\ Sorted(strikes) /\ target \in Int /\ best \in Int
      /\ lo \in Nat /\ hi \in Nat
  BY DEF SearchInv, SearchType, SortedLists
<1>2. ASSUME NEW list \in SortedLists, NEW t \in Int, Find(list, t) PROVE SearchInv'
  <2>1. list \in Seq(Int)
    BY DEF SortedLists
  <2>2. CASE list = <<>>
    BY <1>1, <1>2, <2>2
    DEF Find, SearchInv, SearchType, Bracketed, ClosedIn, FindsNearest
  <2>3. CASE list # <<>>
    <3>1. Len(list) \in Nat \ {0}
      BY <2>1, <2>3
    <3> QED  BY <1>1, <1>2, <2>3, <3>1
             DEF Find, SearchInv, SearchType, Bracketed, ClosedIn, FindsNearest
  <2> QED  BY <2>2, <2>3
<1>3. CASE Halve
  <2> DEFINE mid == (lo + hi) \div 2
  <2>1. /\ lo < hi /\ hi < Len(strikes) /\ spc = "loop"
        /\ \A i \in 1..lo : strikes[i] < target
        /\ hi = Len(strikes) - 1 \/ strikes[hi + 1] >= target
    BY <1>3 DEF Halve, SearchInv, Bracketed
  <2>2. mid \in Nat /\ lo <= mid /\ mid < hi
    BY <1>1, <2>1
  <2>3. spc' = "loop" /\ UNCHANGED <<strikes, target, spc, best>>
    BY <1>3, <2>1 DEF Halve
  <2>4. IF strikes[mid + 1] < target
        THEN lo' = mid + 1 /\ hi' = hi
        ELSE hi' = mid /\ lo' = lo
    BY <1>3 DEF Halve
  <2> HIDE DEF mid
  <2>5. strikes[mid + 1] \in Int
    BY <1>1, <2>1, <2>2
  <2>6. CASE strikes[mid + 1] < target
    <3>1. \A i \in 1..(mid + 1) : strikes[i] < target
      <4> SUFFICES ASSUME NEW i \in 1..(mid + 1) PROVE strikes[i] < target
        OBVIOUS
      <4>1. i \in 1..Len(strikes) /\ mid + 1 \in 1..Len(strikes)
        BY <1>1, <2>1, <2>2
      <4>2. strikes[i] \in Int /\ strikes[i] <= strikes[mid + 1]
        BY <1>1, <2>2, <4>1 DEF Sorted
      <4> QED  BY <1>1, <2>5, <2>6, <4>2
    <3> QED  BY <1>1, <2>1, <2>2, <2>3, <2>4, <2>6, <3>1
             DEF SearchInv, SearchType, Bracketed, ClosedIn, FindsNearest
  <2>7. CASE ~(strikes[mid + 1] < target)
    BY <1>1, <2>1, <2>2, <2>3, <2>4, <2>5, <2>7
    DEF SearchInv, SearchType, Bracketed, ClosedIn, FindsNearest
  <2> QED  BY <2>6, <2>7
<1>4. CASE LeaveLoop
  BY <1>1, <1>4 DEF LeaveLoop, SearchInv, SearchType, Bracketed, ClosedIn, FindsNearest
<1>5. CASE Compare
  <2>1. best' \in Int /\ best' = NearestStrike(Listed, target)
    BY <1>5, CompareFindsNearest
  <2>2. best' = NearestStrike(Listed, target)'
    BY <1>5, <2>1 DEF Compare, Listed
  <2> QED  BY <1>5, <2>1, <2>2
           DEF Compare, SearchInv, SearchType, Bracketed, ClosedIn, FindsNearest
<1>6. CASE Return
  <2>1. strikes' \in SortedLists
    BY <1>6 DEF Return, ForgetSearch, SortedLists, Sorted
  <2> QED  BY <1>6, <2>1 DEF Return, ForgetSearch, SearchInv, SearchType, Bracketed, ClosedIn, FindsNearest
<1>7. CASE UNCHANGED searchVars
  BY <1>7 DEF searchVars, SearchInv, SearchType, Bracketed, ClosedIn, FindsNearest, Listed
<1> QED  BY <1>2, <1>3, <1>4, <1>5, <1>6, <1>7 DEF SearchNext

-----------------------------------------------------------------------------
(* The loop invariant and the result, for every search. *)
THEOREM SearchInvariant == SearchSpec => []SearchInv
<1> QED  BY SearchInvInit, SearchInvNext, PTL DEF SearchSpec

(* FindNearestStrike (imf.go:90-119) returns the nearest strike on offer,  *)
(* the higher of two, whatever sorted list it searches.                    *)
THEOREM SearchFindsNearest == SearchSpec => []FindsNearest
<1>1. SearchInv => FindsNearest
  BY DEF SearchInv
<1> QED  BY <1>1, SearchInvariant, PTL

(* Each turn of the loop (imf.go:102-109) leaves less of the list, so the  *)
(* search cannot go on for ever, whatever list it got.                     *)
THEOREM EveryTurnShrinks ==
  SearchSpec => [][Halve => hi' - lo' \in Nat /\ hi' - lo' < hi - lo]_searchVars
<1>1. ASSUME SearchInv, Halve PROVE hi' - lo' \in Nat /\ hi' - lo' < hi - lo
  <2>1. lo \in Nat /\ hi \in Nat /\ lo < hi
    BY <1>1 DEF SearchInv, SearchType, Halve
  <2>2. PICK mid \in Nat : lo <= mid /\ mid < hi /\ mid = (lo + hi) \div 2
    BY <2>1
  <2>3. (lo' = mid + 1 /\ hi' = hi) \/ (hi' = mid /\ lo' = lo)
    BY <1>1, <2>2 DEF Halve
  <2> QED  BY <2>1, <2>2, <2>3
<1>2. SearchInv => (Halve => hi' - lo' \in Nat /\ hi' - lo' < hi - lo)
  BY <1>1
<1> QED  BY <1>2, SearchInvariant, PTL
=============================================================================
