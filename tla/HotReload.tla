------------------------------ MODULE HotReload ------------------------------
(***************************************************************************)
(* config/config.go and the goroutine of main.go that reloads trading.json *)
(* every two seconds.  Somebody edits the file while the program runs and  *)
(* may leave it, for a while or for good, in a state that does not load.   *)
(*                                                                         *)
(* Of the fields, those are kept that the pipeline reads while it computes *)
(* symbols, and max_confirm_seconds, which Reload treats in its own way.   *)
(***************************************************************************)
EXTENDS Integers

CONSTANTS
  Versions       \* the contents of trading.json that load: [week, ce, pe, max]

(* Unreadable, not JSON, or a trade_direction that is neither CE nor PE. *)
Broken == [week |-> 0, ce |-> 0, pe |-> 0, max |-> -1]

ASSUME HotReloadAssumption ==
  /\ Versions # {}
  /\ Versions \subseteq [week : Int, ce : Int, pe : Int, max : Nat]

VARIABLES
  trading,       \* what trading.json contains
  cfg,           \* the TradingConfig in force; Broken while there is none
  newCfg,        \* what Reload has loaded and not yet copied; else Broken
  lpc,           \* the program: "down", or its reloader at "tick" or "copy"
  seen           \* history: what trading.json contained since the program started

configVars == <<trading, cfg, newCfg, lpc, seen>>

ConfigInit ==
  /\ trading \in Versions
  /\ cfg = Broken
  /\ newCfg = Broken
  /\ lpc = "down"
  /\ seen = {}

-----------------------------------------------------------------------------
Edit(content) ==
  /\ trading' = content
  /\ seen' = IF lpc = "down" THEN {} ELSE seen \cup {content}
  /\ UNCHANGED <<cfg, newCfg, lpc>>

Loads(content) == content \in Versions

(* LoadTradingConfig at boot; when it fails, the program exits. *)
LoadAtBoot ==
  /\ lpc = "down"
  /\ Loads(trading)
  /\ cfg' = trading
  /\ seen' = {trading}
  /\ lpc' = "tick"
  /\ UNCHANGED <<trading, newCfg>>

(* Mutant of Load: the error of LoadTradingConfig is ignored. *)
LoadUnchecked ==
  /\ lpc = "tick"
  /\ newCfg' = trading
  /\ lpc' = "copy"
  /\ UNCHANGED <<trading, cfg, seen>>

(* Reload: the file is loaded, or the old configuration stays. *)
Load ==
  /\ lpc = "tick"
  /\ Loads(trading)
  /\ newCfg' = trading
  /\ lpc' = "copy"
  /\ UNCHANGED <<trading, cfg, seen>>

(* Mutant of Copy: only the offsets. *)
CopyOffsets ==
  /\ lpc = "copy"
  /\ cfg' = [cfg EXCEPT !.ce = newCfg.ce, !.pe = newCfg.pe]
  /\ newCfg' = Broken
  /\ lpc' = "tick"
  /\ UNCHANGED <<trading, seen>>

(* Reload: field by field under the write lock, max_confirm_seconds not    *)
(* among them.                                                             *)
Copy ==
  /\ lpc = "copy"
  /\ cfg' = [newCfg EXCEPT !.max = cfg.max]
  /\ newCfg' = Broken
  /\ lpc' = "tick"
  /\ UNCHANGED <<trading, seen>>

(* The process ends, wherever it is. *)
Exit ==
  /\ lpc # "down"
  /\ lpc' = "down"
  /\ cfg' = Broken
  /\ newCfg' = Broken
  /\ seen' = {}
  /\ UNCHANGED trading

Reloader == Load \/ Copy

ConfigNext ==
  \/ \E content \in Versions \cup {Broken} : Edit(content)
  \/ LoadAtBoot
  \/ Load
  \/ Copy
  \/ Exit

ConfigSpec == ConfigInit /\ [][ConfigNext]_configVars

(* A ticker fires every two seconds and nothing blocks the reload for      *)
(* good.  Nobody owes an edit.                                             *)
ReloadFairness == WF_configVars(Reloader)

FairConfigSpec == ConfigSpec /\ ReloadFairness

-----------------------------------------------------------------------------
(* The getters, each under the read lock for itself. *)
GetExpiryWeek == cfg.week
GetCEOffsetPoints == cfg.ce
GetPEOffsetPoints == cfg.pe

(* Two versions that differ in max_confirm_seconds at most. *)
SameButMax(v, w) == [v EXCEPT !.max = w.max] = w

(* What is in force was in the file since the program started, all of it   *)
(* at one time, and was never a content that does not load; the ceiling is *)
(* that of a content of its own.                                           *)
InForceWasWritten ==
  lpc # "down" =>
    /\ \E v \in seen \cap Versions : SameButMax(v, cfg)
    /\ \E v \in seen \cap Versions : v.max = cfg.max

(* An edit that stays in the file comes into force, but for its ceiling,   *)
(* if the program lives.                                                   *)
EditsTakeEffect ==
  \A v \in Versions :
    <>[](trading = v /\ lpc # "down") => <>[]SameButMax(cfg, v)
=============================================================================
