---------------------------- MODULE SymbolChoice ----------------------------
(***************************************************************************)
(* Pipeline.calculateSymbols, step by step, on top of what it calls: the   *)
(* expiries and strikes that the boot has parsed (IMFCache), the getters   *)
(* of a configuration that may be reloaded between two of them             *)
(* (HotReload), and two searches for the nearest strike (StrikeSearch).    *)
(* Module Pipeline takes the result from OptionSymbols, which is what this *)
(* module is checked against.                                              *)
(***************************************************************************)
EXTENDS IMFCache, HotReload, StrikeSearch

CONSTANTS
  ATMs,          \* the strikes it is called for
  Offsets        \* values of activeExpiryOffset

ASSUME SymbolChoiceAssumption == ATMs \subseteq Int /\ Offsets \subseteq Nat

VARIABLES
  cpc,           \* "idle", before a getter "week", "ce" or "pe", "walk", in a
                 \* search "CE" or "PE", between them "askPE", "returned", "error"
  atm,           \* argument
  offset,        \* activeExpiryOffset
  weekIdx,       \* weekIdx, counted from 0
  ideal,         \* [CE |-> idealCE, PE |-> idealPE]
  at,            \* the i of the loop
  nearCE,        \* {nearCE}, or {} if not ceOK
  result,        \* the pair that is returned
  inForce        \* history: the configurations in force during the call

callVars == <<atm, offset, weekIdx, ideal>>
choiceVars == <<cpc, callVars, at, nearCE, result, inForce>>
vars == <<imfVars, configVars, searchVars, choiceVars>>

Init ==
  /\ IMFInit /\ ConfigInit /\ SearchInit
  /\ cpc = "idle"
  /\ atm = 0 /\ offset = 0 /\ weekIdx = 0
  /\ ideal = [CE |-> 0, PE |-> 0]
  /\ at = 0 /\ nearCE = {}
  /\ result = {}
  /\ inForce = {}

-----------------------------------------------------------------------------
Expiries == GetNiftyExpiries

(* The call is made under the lock of the pipeline, once the boot is over. *)
Call(a, o) ==
  /\ cpc = "idle"
  /\ pc = "running"
  /\ atm' = a
  /\ offset' = o
  /\ inForce' = {cfg}
  /\ cpc' = IF Expiries = <<>> THEN "error" ELSE "week"
  /\ UNCHANGED <<imfVars, configVars, searchVars,
                 weekIdx, ideal, at, nearCE, result>>

ReadWeek ==
  /\ cpc = "week"
  /\ weekIdx' = Max({GetExpiryWeek + offset, 0})
  /\ at' = weekIdx'
  /\ cpc' = "ce"
  /\ UNCHANGED <<imfVars, configVars, searchVars,
                 atm, offset, ideal, nearCE, result, inForce>>

(* ComputeCEStrike *)
ReadCEOffset ==
  /\ cpc = "ce"
  /\ ideal' = [ideal EXCEPT !.CE = atm - GetCEOffsetPoints]
  /\ cpc' = "pe"
  /\ UNCHANGED <<imfVars, configVars, searchVars,
                 atm, offset, weekIdx, at, nearCE, result, inForce>>

(* ComputePEStrike *)
ReadPEOffset ==
  /\ cpc = "pe"
  /\ ideal' = [ideal EXCEPT !.PE = atm + GetPEOffsetPoints]
  /\ cpc' = "walk"
  /\ UNCHANGED <<imfVars, configVars, searchVars,
                 atm, offset, weekIdx, at, nearCE, result, inForce>>

-----------------------------------------------------------------------------
(* The loop over the expiries asks for both kinds of strikes; the search   *)
(* runs to its end before the loop goes on.                                *)
Ask(type) ==
  /\ spc = "idle"
  /\ Find(NiftyStrikes(Expiries[at + 1], type), ideal[type])
  /\ cpc' = type
  /\ UNCHANGED <<imfVars, configVars, callVars, at, result, inForce>>

AskCE ==
  /\ cpc = "walk"
  /\ at < Len(Expiries)
  /\ Ask("CE")
  /\ UNCHANGED nearCE

(* Whether the call was found or not, the put is asked for.                *)
TakeCE ==
  /\ cpc = "CE"
  /\ nearCE' = IF spc = "found" THEN {best} ELSE {}
  /\ Return
  /\ cpc' = "askPE"
  /\ UNCHANGED <<imfVars, configVars, callVars, at, result, inForce>>

AskPE ==
  /\ cpc = "askPE"
  /\ Ask("PE")
  /\ UNCHANGED nearCE

SearchStep ==
  /\ Halve \/ LeaveLoop \/ Compare
  /\ UNCHANGED <<imfVars, configVars, choiceVars>>

(* Mutant of TakePE: the call alone decides. *)
TakePEUnseen ==
  /\ cpc = "PE"
  /\ IF nearCE # {}
     THEN /\ result' = {BuildOptionSymbol(Expiries[at + 1], ce, "CE") : ce \in nearCE}
                      \cup {BuildOptionSymbol(Expiries[at + 1], best, "PE")}
          /\ cpc' = "returned"
          /\ UNCHANGED at
     ELSE /\ at' = at + 1
          /\ cpc' = "walk"
          /\ UNCHANGED result
  /\ Return
  /\ UNCHANGED <<imfVars, configVars, callVars, nearCE, inForce>>

(* Both are there: the pair.  One is missing: the next expiry. *)
TakePE ==
  /\ cpc = "PE"
  /\ IF spc = "found" /\ nearCE # {}
     THEN /\ result' = {BuildOptionSymbol(Expiries[at + 1], ce, "CE") : ce \in nearCE}
                      \cup {BuildOptionSymbol(Expiries[at + 1], best, "PE")}
          /\ cpc' = "returned"
          /\ UNCHANGED at
     ELSE /\ at' = at + 1
          /\ cpc' = "walk"
          /\ UNCHANGED result
  /\ Return
  /\ UNCHANGED <<imfVars, configVars, callVars, nearCE, inForce>>

(* No expiry from the week on has both: the ideal strikes of that week. *)
Fallback ==
  /\ cpc = "walk"
  /\ at >= Len(Expiries)
  /\ weekIdx < Len(Expiries)
  /\ result' = {BuildOptionSymbol(Expiries[weekIdx + 1], ideal.CE, "CE"),
                BuildOptionSymbol(Expiries[weekIdx + 1], ideal.PE, "PE")}
  /\ cpc' = "returned"
  /\ UNCHANGED <<imfVars, configVars, searchVars, callVars, at, nearCE, inForce>>

ForgetCall ==
  /\ cpc' = "idle"
  /\ atm' = 0 /\ offset' = 0 /\ weekIdx' = 0
  /\ ideal' = [CE |-> 0, PE |-> 0]
  /\ at' = 0 /\ nearCE' = {}
  /\ result' = {}
  /\ inForce' = {}

(* The caller has the result. *)
CallOver ==
  /\ cpc \in {"returned", "error"}
  /\ ForgetCall
  /\ UNCHANGED <<imfVars, configVars, searchVars>>

-----------------------------------------------------------------------------
(* The process loads its configuration, then boots the IMF. *)
StartProcess == LoadAtBoot /\ UNCHANGED <<imfVars, searchVars, choiceVars>>

BootStep ==
  /\ lpc # "down"
  /\ Boot \/ UseCached \/ Get \/ Create \/ CopyRow \/ CopyDone \/ Parse
  /\ UNCHANGED <<configVars, searchVars, choiceVars>>

(* The process ends, with the call it may be in. *)
ProcessEnds ==
  /\ Refused \/ CopyFails \/ Crash
  /\ Exit
  /\ ForgetSearch
  /\ ForgetCall

(* The index of the fallback is out of range: a runtime panic. *)
IndexOutOfRange ==
  /\ cpc = "walk"
  /\ at >= Len(Expiries)
  /\ weekIdx >= Len(Expiries)
  /\ Crash
  /\ Exit
  /\ ForgetSearch
  /\ ForgetCall

EditStep ==
  /\ \E content \in Versions \cup {Broken} : Edit(content)
  /\ UNCHANGED <<imfVars, searchVars, choiceVars>>

ReloadStep ==
  /\ Load \/ Copy
  /\ inForce' = IF cpc = "idle" THEN {} ELSE inForce \cup {cfg'}
  /\ UNCHANGED <<imfVars, searchVars, cpc, callVars, at, nearCE, result>>

Midnight == NewDay /\ UNCHANGED <<configVars, searchVars, choiceVars>>

CallStep ==
  \/ ReadWeek \/ ReadCEOffset \/ ReadPEOffset
  \/ AskCE \/ TakeCE \/ AskPE \/ SearchStep \/ TakePE
  \/ Fallback \/ IndexOutOfRange

Next ==
  \/ \E a \in ATMs, o \in Offsets : Call(a, o)
  \/ CallStep \/ CallOver
  \/ StartProcess \/ BootStep \/ ProcessEnds
  \/ EditStep \/ ReloadStep \/ Midnight

(* The reloader is due every two seconds and a call that has begun runs:   *)
(* nothing in it waits for anything but the locks of the getters.          *)
Spec == Init /\ [][Next]_vars

FairSpec == Spec /\ WF_vars(ReloadStep) /\ WF_vars(CallStep)

-----------------------------------------------------------------------------
(* What OptionSymbols says of a configuration with these offsets. *)
Chain == [i \in 1..Len(Expiries) |->
            [type \in {"CE", "PE"} |-> ToSet(NiftyStrikes(Expiries[i], type))]]
Reference(ce, pe) ==
  INSTANCE OptionSymbols WITH StrikeStep <- 50, CEOffset <- ce, PEOffset <- pe

Dated(pair) == {[s EXCEPT !.expiry = Expiries[s.expiry + 1]] : s \in pair}

(* The pair that is returned is what the reference computes from a week    *)
(* and offsets that were in force during the call: of one configuration if *)
(* no reload came in between, and of no others if one did.  It is for the  *)
(* first expiry from the week on with both kinds of strikes, and nearest.  *)
PairOfConfigsInForce ==
  cpc = "returned" =>
    \E u, v, w \in inForce :
      LET week == Max({u.week + offset, 0}) IN
      /\ week < Len(Expiries)
      /\ result = Dated(Reference(v.ce, w.pe)!CalculateSymbols(week, atm))

(* A call ends, in a result, an error or with the process: the lock of the *)
(* pipeline is held for all of it, so an endless search would stop the     *)
(* program.                                                                *)
CallsEnd == cpc = "week" ~> cpc \in {"idle", "returned"}
=============================================================================
