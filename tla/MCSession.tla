------------------------------ MODULE MCSession ------------------------------
(* Ticks of two symbols in turn. *)
EXTENDS Session

MCSymbolOf == [n \in 0..MaxWrites |-> n % 2]
=============================================================================
