------------------------------ MODULE IMFCache ------------------------------
(***************************************************************************)
(* symbols/imf.go at boot: the instrument master file is downloaded once a *)
(* day into data/, whose modification time is all that says how fresh it   *)
(* is, and parsed into the expiries and strikes the pipeline looks up.     *)
(*                                                                         *)
(* Docker restarts the process whenever it ends, so what one boot left on  *)
(* disk is the next one's cache: a copy cut off half way, a copy that ran  *)
(* over midnight.                                                          *)
(***************************************************************************)
EXTENDS Integers, Sequences, SequencesExt

CONSTANTS
  Published,     \* day -> the rows of that day's file, as they come
  MaxDays        \* BOUND: days of a behaviour

(* A row of the file that is a Nifty option: its expiry day, its type and  *)
(* its strike.  Two rows of one option are one.                            *)
Row == [day : Int, type : {"CE", "PE"}, strike : Int]

ASSUME IMFCacheAssumption ==
  /\ MaxDays \in Nat \ {0}
  /\ DOMAIN Published = 1..MaxDays
  /\ \A d \in 1..MaxDays : Published[d] \in Seq(Row)

VARIABLES
  file,          \* data/NSE_FO.csv: [rows, day], day being its modification time
  pc,            \* the boot: "down", "stat", "create", "copy", "parse", or "running"
  fetched,       \* day of the response being copied, else 0
  parsed,        \* what is kept of the rows: the maps of the IMFManager
  today,         \* the IST date
  checked,       \* history: day this boot looked at the modification time
  loaded,        \* history: day this boot parsed the file
  source,        \* history: day of the response that the rows of the file are of, or 0
  whole          \* history: the copy of that response ran to its end

imfVars == <<file, pc, fetched, parsed, today, checked, loaded, source, whole>>

NoFile == [rows |-> <<>>, day |-> 0]

IMFInit ==
  /\ file = NoFile
  /\ pc = "down"
  /\ fetched = 0
  /\ parsed = {}
  /\ today = 1
  /\ checked = 0
  /\ loaded = 0
  /\ source = 0
  /\ whole = FALSE

-----------------------------------------------------------------------------
(* What the sorts of parseNiftyExpiries leave: every element once, the one *)
(* with i elements up to itself at place i.                                *)
Ascending(S) ==
  [i \in 1..Cardinality(S) |-> CHOOSE s \in S : Cardinality({t \in S : t <= s}) = i]

(* GetNiftyExpiries: the distinct expiries, nearest first. *)
GetNiftyExpiries == Ascending({r.day : r \in parsed})

(* niftyStrikesByExpiry: the strikes of one expiry and type, in order. *)
NiftyStrikes(expiry, type) ==
  Ascending({r.strike : r \in {q \in parsed : q.day = expiry /\ q.type = type}})

Boot ==
  /\ pc = "down"
  /\ pc' = "stat"
  /\ UNCHANGED <<file, fetched, parsed, today, checked, loaded, source, whole>>

(* Mutant of SameDay: any file will do. *)
AnyDay == file # NoFile

(* The file was written on this IST calendar day. *)
SameDay == file.day = today

UseCached ==
  /\ pc = "stat"
  /\ SameDay
  /\ checked' = today
  /\ pc' = "parse"
  /\ UNCHANGED <<file, fetched, parsed, today, loaded, source, whole>>

(* Mutant of Get: the response is not told from the one before. *)
GetUnrecorded ==
  /\ pc = "stat"
  /\ ~SameDay
  /\ checked' = today
  /\ pc' = "create"
  /\ UNCHANGED <<file, fetched, parsed, today, loaded, source, whole>>

(* The request is answered before the file is touched. *)
Get ==
  /\ pc = "stat"
  /\ ~SameDay
  /\ checked' = today
  /\ fetched' = today
  /\ pc' = "create"
  /\ UNCHANGED <<file, parsed, today, loaded, source, whole>>

(* What is not on disk is forgotten. *)
EndOfProcess ==
  /\ pc' = "down"
  /\ parsed' = {}
  /\ fetched' = 0 /\ checked' = 0 /\ loaded' = 0
  /\ UNCHANGED <<file, today, source, whole>>

(* Initialize returns an error and main exits: the file cannot be looked   *)
(* at, created or opened, no answer comes, or one with a bad status.       *)
Refused ==
  /\ pc \in {"stat", "create", "parse"}
  /\ EndOfProcess

(* os.Create empties the file, which is then of today. *)
Create ==
  /\ pc = "create"
  /\ file' = [rows |-> <<>>, day |-> today]
  /\ source' = fetched
  /\ whole' = FALSE
  /\ pc' = "copy"
  /\ UNCHANGED <<fetched, parsed, today, checked, loaded>>

(* io.Copy: rows arrive one after the other; half a row would be skipped   *)
(* by the parser.                                                          *)
Remaining == Len(Published[fetched]) - Len(file.rows)

CopyRow ==
  /\ pc = "copy"
  /\ Remaining > 0
  /\ file' = [rows |-> Append(file.rows, Published[fetched][Len(file.rows) + 1]),
              day  |-> today]
  /\ UNCHANGED <<pc, fetched, parsed, today, checked, loaded, source, whole>>

CopyDone ==
  /\ pc = "copy"
  /\ Remaining <= 0
  /\ whole' = TRUE
  /\ fetched' = 0
  /\ pc' = "parse"
  /\ UNCHANGED <<file, parsed, today, checked, loaded, source>>

(* The connection is lost: an error, the process exits, the file stays. *)
CopyFails ==
  /\ pc = "copy"
  /\ EndOfProcess

(* parseNiftyExpiries: the rows whose expiry has not passed. *)
Parse ==
  /\ pc = "parse"
  /\ parsed' = {r \in ToSet(file.rows) : r.day >= today}
  /\ loaded' = today
  /\ pc' = "running"
  /\ UNCHANGED <<file, fetched, today, checked, source, whole>>

Crash == pc # "down" /\ EndOfProcess

NewDay ==
  /\ today < MaxDays
  /\ today' = today + 1
  /\ UNCHANGED <<file, pc, fetched, parsed, checked, loaded, source, whole>>

IMFNext ==
  \/ Boot \/ UseCached \/ Get \/ Refused
  \/ Create \/ CopyRow \/ CopyDone \/ CopyFails
  \/ Parse \/ Crash \/ NewDay

IMFSpec == IMFInit /\ [][IMFNext]_imfVars

-----------------------------------------------------------------------------
(* The values each variable ranges over. *)
TypeOK ==
  /\ file.rows \in Seq(Row) /\ file.day \in 0..today
  /\ pc \in {"down", "stat", "create", "copy", "parse", "running"}
  /\ fetched \in 0..today /\ checked \in 0..today /\ loaded \in 0..today
  /\ pc \in {"create", "copy"} => fetched > 0
  /\ parsed \subseteq Row
  /\ today \in 1..MaxDays
  /\ source \in 0..today
  /\ whole \in BOOLEAN

(* What a boot serves is of one download: a beginning of its rows, all of  *)
(* them if its copy ran to the end, less what expired by the time the boot *)
(* parsed them.  The download was asked for on the day this boot looked at *)
(* the cache, or was still arriving on that day: over midnight it may be   *)
(* the day before's list.  Through failed boots, crashes and midnights,    *)
(* nothing that ended arriving on an earlier day passes, and no mix of two *)
(* downloads.                                                              *)
ServesOneDownload ==
  pc = "running" =>
    /\ source = checked \/ file.day = checked
    /\ \E n \in 0..Len(Published[source]) :
         /\ whole => n = Len(Published[source])
         /\ parsed = {r \in ToSet(SubSeq(Published[source], 1, n)) : r.day >= loaded}

(* "This guarantees fresh data every trading morning" (imf.go:150): what a *)
(* boot loads is what was published that day.  The code does not keep it.  *)
FreshEveryMorning ==
  pc = "running" => parsed = {r \in ToSet(Published[loaded]) : r.day >= loaded}
=============================================================================
