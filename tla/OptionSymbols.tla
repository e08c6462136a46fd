--------------------------- MODULE OptionSymbols ---------------------------
(***************************************************************************)
(* The arithmetic of symbols/nifty.go and Pipeline.calculateSymbols: from  *)
(* a Nifty price to the at-the-money strike, and from that strike to the   *)
(* call and put symbols that the instrument master file offers.            *)
(***************************************************************************)
EXTENDS Integers, Sequences, FiniteSetsExt, Strikes

CONSTANTS
  StrikeStep,    \* 50 points
  CEOffset,      \* ce_offset_points
  PEOffset,      \* pe_offset_points
  Chain          \* the expiries of the IMF, nearest first: the strikes on offer,
                 \* [CE |-> set, PE |-> set] for each

ASSUME OptionSymbolsAssumption == StrikeStep \in Nat \ {0}

(* RoundToStrike: math.Round of a price that is not negative rounds halves *)
(* up.                                                                     *)
RoundToStrike(price, step) == ((2 * price + step) \div (2 * step)) * step
ComputeATMStrike(ltp) == RoundToStrike(ltp, StrikeStep)
ComputeCEStrike(atm) == atm - CEOffset
ComputePEStrike(atm) == atm + PEOffset

(* calculateSymbols from a week index inside the list: the first expiry    *)
(* from there on that has both kinds of strikes, each strike snapped to    *)
(* the nearest on offer; with none, the ideal strikes of the asked expiry. *)
CalculateSymbols(weekIdx, atm) ==
  LET Offered(e, type) == Chain[e + 1][type]
      usable == {e \in weekIdx..(Len(Chain) - 1) :
                   Offered(e, "CE") # {} /\ Offered(e, "PE") # {}}
      e == Min(usable)
  IN IF usable # {}
     THEN {BuildOptionSymbol(e, NearestStrike(Offered(e, "CE"), ComputeCEStrike(atm)), "CE"),
           BuildOptionSymbol(e, NearestStrike(Offered(e, "PE"), ComputePEStrike(atm)), "PE")}
     ELSE {BuildOptionSymbol(weekIdx, ComputeCEStrike(atm), "CE"),
           BuildOptionSymbol(weekIdx, ComputePEStrike(atm), "PE")}
=============================================================================
