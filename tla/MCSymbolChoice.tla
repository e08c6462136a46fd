--------------------------- MODULE MCSymbolChoice ---------------------------
(***************************************************************************)
(* Two days of files, in no order: today's expiry with a call only, the    *)
(* next with both kinds and a choice of calls, and on the second day one   *)
(* more.  Two versions of trading.json that differ in every field.         *)
(***************************************************************************)
EXTENDS SymbolChoice

Option(day, type, strike) == [day |-> day, type |-> type, strike |-> strike]

MCPublished ==
  << <<Option(2, "CE", 150), Option(2, "PE", 100), Option(1, "CE", 50),
       Option(2, "CE", 50), Option(2, "CE", 100)>>,
     <<Option(3, "PE", 50), Option(2, "CE", 50), Option(3, "CE", 150),
       Option(2, "PE", 100)>> >>

MCVersions == { [week |-> 0, ce |-> 0, pe |-> 0, max |-> 300],
                [week |-> 1, ce |-> 50, pe |-> 50, max |-> 600] }
=============================================================================
