----------------------------- MODULE MCPipeline -----------------------------
(***************************************************************************)
(* Small instances of the pipeline, on the strikes of a small option       *)
(* chain.  The chain lacks the 100 call, so the calls of 150 and 200 snap  *)
(* to the same symbol and the clean-up of a shift meets a shared one.      *)
(***************************************************************************)
EXTENDS Pipeline, OptionSymbols

CONSTANTS
  RejectedExpiries   \* the expiries whose symbols the exchange rejects

MCChain == <<[CE |-> {50, 150}, PE |-> {150, 200, 250}],
             [CE |-> {50, 100, 150}, PE |-> {150, 200, 250}]>>

MCATMOf == [p \in Prices |-> ComputeATMStrike(p)]

MCSymbolsFor ==
  [k \in 0..(Len(MCChain) - 1) |->
     [atm \in {MCATMOf[p] : p \in Prices} |-> CalculateSymbols(k, atm)]]

MCIndex == BuildOptionSymbol(-1, 0, "INDEX")

MCSymbols ==
  {MCIndex} \cup
  UNION {MCSymbolsFor[k][atm] : k \in DOMAIN MCSymbolsFor, atm \in {MCATMOf[p] : p \in Prices}}

MCInvalid == {s \in MCSymbols : s.expiry \in RejectedExpiries}
=============================================================================
