---------------------------- MODULE StrikeSearch ----------------------------
(***************************************************************************)
(* IMFManager.FindNearestStrike of symbols/imf.go: a binary search in the  *)
(* sorted strikes of one expiry and option type, then a comparison with    *)
(* the neighbour below.  Strikes may be listed twice.  What it must return *)
(* is NearestStrike of module Strikes.                                     *)
(***************************************************************************)
EXTENDS Integers, Sequences, Strikes

VARIABLES
  strikes,       \* niftyStrikesByExpiry[key]
  target,        \* targetStrike
  lo, hi,        \* the part of the list still to be searched, from 0
  spc,           \* "idle", "loop", "compare", "found" or "missing"
  best

searchVars == <<strikes, target, lo, hi, spc, best>>

SearchInit ==
  /\ strikes = <<>>
  /\ target = 0
  /\ lo = 0
  /\ hi = 0
  /\ spc = "idle"
  /\ best = 0

-----------------------------------------------------------------------------
(* The call finds a list under its key, or not. *)
Find(list, t) ==
  /\ spc = "idle"
  /\ strikes' = list
  /\ target' = t
  /\ lo' = 0
  /\ IF list = <<>>
     THEN spc' = "missing" /\ UNCHANGED hi
     ELSE spc' = "loop" /\ hi' = Len(list) - 1
  /\ UNCHANGED best

(* Mutant of Halve: hi moves below the middle. *)
HalveTooFar ==
  LET mid == (lo + hi) \div 2 IN
  /\ spc = "loop"
  /\ lo < hi
  /\ IF strikes[mid + 1] < target
     THEN lo' = mid + 1 /\ UNCHANGED hi
     ELSE hi' = mid - 1 /\ UNCHANGED lo
  /\ UNCHANGED <<strikes, target, spc, best>>

(* Mutant of Halve: lo stays on the middle. *)
HalveStuck ==
  LET mid == (lo + hi) \div 2 IN
  /\ spc = "loop"
  /\ lo < hi
  /\ IF strikes[mid + 1] < target
     THEN lo' = mid /\ UNCHANGED hi
     ELSE hi' = mid /\ UNCHANGED lo
  /\ UNCHANGED <<strikes, target, spc, best>>

(* One turn of the loop. *)
Halve ==
  LET mid == (lo + hi) \div 2 IN
  /\ spc = "loop"
  /\ lo < hi
  /\ IF strikes[mid + 1] < target
     THEN lo' = mid + 1 /\ UNCHANGED hi
     ELSE hi' = mid /\ UNCHANGED lo
  /\ UNCHANGED <<strikes, target, spc, best>>

LeaveLoop ==
  /\ spc = "loop"
  /\ lo >= hi
  /\ spc' = "compare"
  /\ UNCHANGED <<strikes, target, lo, hi, best>>

(* The strike at lo, unless the one below is strictly closer. *)
Compare ==
  /\ spc = "compare"
  /\ best' = IF /\ lo > 0
                /\ Distance(strikes[lo], target) < Distance(strikes[lo + 1], target)
             THEN strikes[lo]
             ELSE strikes[lo + 1]
  /\ spc' = "found"
  /\ UNCHANGED <<strikes, target, lo, hi>>

ForgetSearch ==
  /\ spc' = "idle"
  /\ strikes' = <<>>
  /\ target' = 0 /\ lo' = 0 /\ hi' = 0 /\ best' = 0

(* The caller goes on with the result. *)
Return == spc \in {"found", "missing"} /\ ForgetSearch

(* parseNiftyExpiries leaves every list sorted. *)
Sorted(list) == \A i, j \in 1..Len(list) : i <= j => list[i] <= list[j]
SortedLists == {list \in Seq(Int) : Sorted(list)}

SearchNext ==
  \/ \E list \in SortedLists : \E t \in Int : Find(list, t)
  \/ Halve
  \/ LeaveLoop
  \/ Compare
  \/ Return

SearchSpec == SearchInit /\ [][SearchNext]_searchVars

-----------------------------------------------------------------------------
Listed == {strikes[i] : i \in 1..Len(strikes)}

(* The search returns the strike on offer that is closest to the target,   *)
(* the higher one of two equally close, for every sorted list: a target    *)
(* below the first strike, above the last, between two, or listed twice.   *)
FindsNearest == spc = "found" => best = NearestStrike(Listed, target)
=============================================================================
