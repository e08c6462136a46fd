----------------------------- MODULE MCIMFCache -----------------------------
(***************************************************************************)
(* Files of three rows, not in the order of their expiries: one expires    *)
(* the same day, one the next, and one is new every day.                   *)
(***************************************************************************)
EXTENDS IMFCache

MCPublished ==
  [d \in 1..MaxDays |->
     [i \in 1..3 |-> [day |-> <<d + 2, d, d + 1>>[i], type |-> "CE", strike |-> 50]]]
=============================================================================
