------------------------------ MODULE Strikes ------------------------------
(***************************************************************************)
(* Option symbols, and what "the nearest strike on offer" means            *)
(* (FindNearestStrike of symbols/imf.go, without the way it searches).     *)
(***************************************************************************)
EXTENDS Integers

BuildOptionSymbol(expiry, strike, type) ==
  [expiry |-> expiry, strike |-> strike, type |-> type]

Distance(a, b) == IF a < b THEN b - a ELSE a - b

(* The closest strike, the higher one of two equally close. *)
IsNearest(s, strikes, target) ==
  /\ s \in strikes
  /\ \A t \in strikes :
       \/ Distance(s, target) < Distance(t, target)
       \/ Distance(s, target) = Distance(t, target) /\ s >= t

NearestStrike(strikes, target) ==
  CHOOSE s \in strikes : IsNearest(s, strikes, target)
=============================================================================
