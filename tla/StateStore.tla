----------------------------- MODULE StateStore -----------------------------
(***************************************************************************)
(* infra/redis.go: the pipeline state kept in three Redis keys.  A save is *)
(* a goroutine whose three SETs travel in one pipelined batch, in order    *)
(* but in no transaction, so the batches of two saves may interleave, and  *)
(* a failure or a crash may leave a batch half done.  infra/noop.go is the *)
(* store that keeps nothing.                                               *)
(***************************************************************************)
EXTENDS Integers, Sequences, SequencesExt

CONSTANTS
  UsingRedis,    \* ConnectStore: FALSE is the NoopStore
  MaxSaves,      \* BOUND: saves in flight at once
  MaxDays        \* BOUND: trading days

ASSUME StateStoreAssumption ==
  /\ UsingRedis \in BOOLEAN
  /\ MaxSaves \in Nat
  /\ MaxDays \in Nat \ {0}

VARIABLES
  redis,         \* key -> [val, day written]; day 0: never written
  saves,         \* SavePipelineState calls in flight, oldest first
  today          \* the IST date

storeVars == <<redis, saves, today>>

(* Mutant of Keys: the date, which a restore trusts, is written first. *)
KeysDateFirst == <<"date", "atm", "symbols">>

Keys == <<"atm", "symbols", "date">>   \* in the order of the batch

EmptyRedis == [k \in {"atm", "symbols", "date"} |-> [val |-> {}, day |-> 0]]

(* A caller starts a save and goes on; the date is the one of the call. *)
SavePipelineState(atm, syms) ==
  /\ UsingRedis => Len(saves) < MaxSaves
  /\ saves' = IF UsingRedis
              THEN Append(saves, [atm |-> atm, symbols |-> syms, date |-> today, next |-> 1])
              ELSE saves
  /\ UNCHANGED <<redis, today>>

(* Mutant of SaveStep: the batch is taken to be one SET longer. *)
SaveStepOffByOne ==
  \E i \in DOMAIN saves :
    LET s == saves[i]
        k == Keys[s.next]
    IN /\ redis' = [redis EXCEPT ![k] = [val |-> s[k], day |-> today]]
       /\ saves' = IF s.next > Len(Keys)
                   THEN RemoveAt(saves, i)
                   ELSE [saves EXCEPT ![i].next = @ + 1]
       /\ UNCHANGED today

(* Redis executes the next SET of one of the batches. *)
SaveStep ==
  \E i \in DOMAIN saves :
    LET s == saves[i]
        k == Keys[s.next]
    IN /\ redis' = [redis EXCEPT ![k] = [val |-> s[k], day |-> today]]
       /\ saves' = IF s.next = Len(Keys)
                   THEN RemoveAt(saves, i)
                   ELSE [saves EXCEPT ![i].next = @ + 1]
       /\ UNCHANGED today

(* A save times out or loses its connection: the rest of it is given up. *)
SaveFail ==
  \E i \in DOMAIN saves :
    /\ saves' = RemoveAt(saves, i)
    /\ UNCHANGED <<redis, today>>

(* LoadPipelineState: the date first, and only today's state is used. *)
Loadable ==
  /\ redis["date"].day # 0
  /\ redis["date"].val = today
  /\ redis["atm"].day # 0
  /\ redis["symbols"].day # 0

(* Midnight in IST, long after the exchange closed: no save is in flight. *)
NewDay ==
  /\ today < MaxDays
  /\ saves = <<>>
  /\ today' = today + 1
  /\ UNCHANGED <<redis, saves>>

(* The store of strikes from Strks and sets of symbols from Pairs; a date  *)
(* is never in the future, and no batch outlives its day.                  *)
StoreTypeOK(Strks, Pairs) ==
  /\ DOMAIN redis = {"atm", "symbols", "date"}
  /\ \A k \in DOMAIN redis : redis[k].day \in 0..today
  /\ redis["atm"].day # 0 => redis["atm"].val \in Strks
  /\ redis["symbols"].day # 0 => redis["symbols"].val \in Pairs
  /\ redis["date"].day # 0 => redis["date"].val \in 1..today
  /\ saves \in Seq([atm : Strks, symbols : Pairs, date : {today}, next : DOMAIN Keys])
  /\ Len(saves) <= MaxSaves
  /\ today \in 1..MaxDays
=============================================================================
