------------------------- MODULE SymbolChoiceProofs -------------------------
(***************************************************************************)
(* The pair that calculateSymbols returns is what the reference computes   *)
(* from a week and offsets that were in force during the call, for any     *)
(* files, versions of trading.json, edits, crashes and midnights.  The     *)
(* composition takes over what is proved of its parts: every step of it is *)
(* a step of the cache, of the configuration and of the search.            *)
(***************************************************************************)
EXTENDS SymbolChoice, IMFCacheProofs, StrikeSearchProofs

-----------------------------------------------------------------------------
(* Configuration and hot reload. *)

(* What Reload is about to copy was loaded from the file. *)
LoadedWasWritten == lpc = "copy" => newCfg \in seen \cap Versions

ConfigInv ==
  /\ lpc \in {"down", "tick", "copy"}
  /\ lpc # "down" => trading \in seen
  /\ LoadedWasWritten
  /\ InForceWasWritten

-----------------------------------------------------------------------------
LEMMA VersionsAreRecords ==
  ASSUME NEW v \in Versions
  PROVE  v = [week |-> v.week, ce |-> v.ce, pe |-> v.pe, max |-> v.max]
<1> QED  BY HotReloadAssumption

LEMMA ConfigInvInit == ConfigInit => ConfigInv
<1> QED  BY DEF ConfigInit, ConfigInv, LoadedWasWritten, InForceWasWritten

LEMMA ConfigInvNext == ConfigInv /\ [ConfigNext]_configVars => ConfigInv'
<1> SUFFICES ASSUME ConfigInv, [ConfigNext]_configVars PROVE ConfigInv'
  OBVIOUS
<1>1. ASSUME NEW content \in Versions \cup {Broken}, Edit(content) PROVE ConfigInv'
  BY <1>1 DEF Edit, ConfigInv, LoadedWasWritten, InForceWasWritten
<1>2. CASE LoadAtBoot
  <2>1. trading \in seen' \cap Versions /\ cfg' = trading /\ trading' = trading /\ lpc' = "tick"
    BY <1>2 DEF LoadAtBoot, Loads
  <2>2. SameButMax(trading, cfg')
    BY <2>1, VersionsAreRecords DEF SameButMax
  <2> QED  BY <2>1, <2>2 DEF ConfigInv, LoadedWasWritten, InForceWasWritten, SameButMax
<1>3. CASE Load
  BY <1>3 DEF Load, Loads, ConfigInv, LoadedWasWritten, InForceWasWritten
<1>4. CASE Copy
  <2>1. /\ newCfg \in seen \cap Versions /\ cfg' = [newCfg EXCEPT !.max = cfg.max]
        /\ seen' = seen /\ trading' = trading /\ lpc = "copy" /\ lpc' = "tick"
    BY <1>4 DEF Copy, ConfigInv, LoadedWasWritten
  <2>2. cfg'.max = cfg.max
    BY <2>1, VersionsAreRecords
  <2>3. SameButMax(newCfg, cfg')
    BY <2>1, <2>2 DEF SameButMax
  <2>4. \E v \in seen \cap Versions : v.max = cfg.max
    BY <2>1 DEF ConfigInv, InForceWasWritten
  <2> QED  BY <2>1, <2>2, <2>3, <2>4 DEF ConfigInv, LoadedWasWritten, InForceWasWritten, SameButMax
<1>5. CASE Exit
  BY <1>5 DEF Exit, ConfigInv, LoadedWasWritten, InForceWasWritten
<1>6. CASE UNCHANGED configVars
  BY <1>6 DEF configVars, ConfigInv, LoadedWasWritten, InForceWasWritten
<1> QED  BY <1>1, <1>2, <1>3, <1>4, <1>5, <1>6 DEF ConfigNext

(* Reload (config.go:114-138) never puts a broken or a mixed configuration *)
(* in force, whatever the file goes through while it runs.                 *)
THEOREM InForceIsWritten == ConfigSpec => []InForceWasWritten
<1>1. ConfigInv => InForceWasWritten
  BY DEF ConfigInv
<1> QED  BY <1>1, ConfigInvInit, ConfigInvNext, PTL DEF ConfigSpec

-----------------------------------------------------------------------------
(* The call. *)

(* The strikes of one type that are looked up for the expiry at i. *)
Offer(i, type) == NiftyStrikes(Expiries[i + 1], type)

ConfigFields == [week : Int, ce : Int, pe : Int, max : Nat]

CallType ==
  /\ cpc \in {"idle", "week", "ce", "pe", "walk", "CE", "askPE", "PE", "returned", "error"}
  /\ atm \in Int /\ offset \in Nat
  /\ weekIdx \in Nat /\ at \in Nat
  /\ ideal \in [CE : Int, PE : Int]

(* A booted process has a configuration, and a call is in a booted one. *)
Standing ==
  /\ pc # "down" => lpc # "down"
  /\ cpc # "idle" => pc = "running" /\ cfg \in inForce /\ inForce \subseteq ConfigFields

(* Each getter was read under one of the configurations in force. *)
GettersRead ==
  /\ cpc \notin {"idle", "error", "week"} =>
       \E u \in inForce : weekIdx = Max({u.week + offset, 0})
  /\ cpc \notin {"idle", "error", "week", "ce"} =>
       \E v \in inForce : ideal.CE = atm - v.ce
  /\ cpc \notin {"idle", "error", "week", "ce", "pe"} =>
       \E w \in inForce : ideal.PE = atm + w.pe

(* The loop is at an expiry of the list, if it is not over, and every      *)
(* expiry it has passed lacks one kind of strikes.                         *)
WalkedPast ==
  /\ cpc \in {"ce", "pe"} => at = weekIdx
  /\ cpc \in {"walk", "CE", "askPE", "PE"} =>
       /\ weekIdx <= at
       /\ \A i \in weekIdx..(at - 1) : Offer(i, "CE") = <<>> \/ Offer(i, "PE") = <<>>
  /\ cpc \in {"CE", "askPE", "PE"} => at < Len(Expiries)

(* A search is for this expiry's strikes of its type. *)
SearchIsOurs ==
  /\ cpc \in {"CE", "PE"} =>
       spc # "idle" /\ strikes = Offer(at, cpc) /\ target = ideal[cpc]
  /\ cpc \notin {"CE", "PE"} => spc = "idle"
  /\ spc = "missing" => strikes = <<>>
  /\ spc \in {"loop", "compare", "found"} => strikes # <<>>

CallSeen ==
  cpc \in {"askPE", "PE"} =>
    nearCE = IF Offer(at, "CE") = <<>>
             THEN {}
             ELSE {NearestStrike(ToSet(Offer(at, "CE")), ideal.CE)}

ChoiceInv ==
  /\ CallType
  /\ Standing
  /\ GettersRead
  /\ WalkedPast
  /\ SearchIsOurs
  /\ CallSeen
  /\ PairOfConfigsInForce

-----------------------------------------------------------------------------
(* The composition implements its parts. *)
LEMMA StepIsCacheStep == [Next]_vars => [IMFNext]_imfVars
<1> SUFFICES ASSUME [Next]_vars PROVE [IMFNext]_imfVars
  OBVIOUS
<1> USE DEF IMFNext
<1>1. ASSUME NEW a \in ATMs, NEW o \in Offsets, Call(a, o) PROVE UNCHANGED imfVars
  BY <1>1 DEF Call
<1>2. CASE CallStep
  BY <1>2 DEF CallStep, ReadWeek, ReadCEOffset, ReadPEOffset, AskCE, AskPE, Ask, TakeCE,
              SearchStep, TakePE, Fallback, IndexOutOfRange
<1>3. CASE CallOver \/ StartProcess \/ EditStep \/ ReloadStep
  BY <1>3 DEF CallOver, StartProcess, EditStep, ReloadStep
<1>4. CASE BootStep \/ ProcessEnds \/ Midnight
  BY <1>4 DEF BootStep, ProcessEnds, Midnight
<1> QED  BY <1>1, <1>2, <1>3, <1>4 DEF Next, vars

LEMMA StepIsConfigStep == [Next]_vars => [ConfigNext]_configVars
<1> SUFFICES ASSUME [Next]_vars PROVE [ConfigNext]_configVars
  OBVIOUS
<1> USE DEF ConfigNext
<1>1. ASSUME NEW a \in ATMs, NEW o \in Offsets, Call(a, o) PROVE UNCHANGED configVars
  BY <1>1 DEF Call
<1>2. CASE CallStep
  BY <1>2 DEF CallStep, ReadWeek, ReadCEOffset, ReadPEOffset, AskCE, AskPE, Ask, TakeCE,
              SearchStep, TakePE, Fallback, IndexOutOfRange
<1>3. CASE CallOver \/ BootStep \/ Midnight
  BY <1>3 DEF CallOver, BootStep, Midnight
<1>4. CASE StartProcess \/ ProcessEnds \/ EditStep \/ ReloadStep
  BY <1>4 DEF StartProcess, ProcessEnds, EditStep, ReloadStep
<1> QED  BY <1>1, <1>2, <1>3, <1>4 DEF Next, vars

(* Calls, reloads and searches around it leave the boot as it is alone:    *)
(* the instrument master file of the composition is that of imf.go.        *)
THEOREM ImplementsCache == Spec => IMFSpec
<1>1. Init => IMFInit
  BY DEF Init
<1> QED  BY <1>1, StepIsCacheStep, PTL DEF Spec, IMFSpec

(* ... and its configuration is that of config.go, reloaded at any time.   *)
THEOREM ImplementsReload == Spec => ConfigSpec
<1>1. Init => ConfigInit
  BY DEF Init
<1> QED  BY <1>1, StepIsConfigStep, PTL DEF Spec, ConfigSpec

-----------------------------------------------------------------------------
LEMMA MaxWithZero ==
  ASSUME NEW a \in Int
  PROVE  Max({a, 0}) \in Nat
<1>1. \E x \in {a, 0} : \A y \in {a, 0} : x >= y
  OBVIOUS
<1> QED  BY <1>1 DEF Max

LEMMA MinIs ==
  ASSUME NEW S \in SUBSET Int, NEW m \in S, \A x \in S : m <= x
  PROVE  Min(S) = m
<1>1. PICK n \in S : n = Min(S) /\ \A x \in S : n <= x
  BY DEF Min
<1> QED  BY <1>1

ConfigIsRead == lpc # "down" => cfg \in ConfigFields

LEMMA ConfigInvIsRead == ConfigInv => ConfigIsRead
<1> SUFFICES ASSUME ConfigInv, lpc # "down" PROVE cfg \in ConfigFields
  BY DEF ConfigIsRead
<1>1. PICK v \in Versions : [v EXCEPT !.max = cfg.max] = cfg
  BY DEF ConfigInv, InForceWasWritten, SameButMax
<1>2. cfg.max \in Nat
  BY HotReloadAssumption DEF ConfigInv, InForceWasWritten
<1> QED  BY <1>1, <1>2, HotReloadAssumption DEF ConfigFields

(* The lists depend on what was parsed and on nothing else. *)
LEMMA ListsStay ==
  ASSUME parsed' = parsed
  PROVE  /\ Expiries' = Expiries
         /\ \A e, type : NiftyStrikes(e, type)' = NiftyStrikes(e, type)
<1> QED  BY DEF Expiries, GetNiftyExpiries, NiftyStrikes

(* FindNearestStrike searches sorted lists only. *)
LEMMA OffersAreSorted ==
  ASSUME IInv, NEW e, NEW type
  PROVE  NiftyStrikes(e, type) \in SortedLists
<1> DEFINE list == NiftyStrikes(e, type)
<1>1. /\ list \in Seq(Int)
      /\ \A i, j \in 1..Len(list) : i < j => list[i] < list[j]
  BY ListsAreAscending DEF IInv
<1> HIDE DEF list
<1>2. Sorted(list)
  <2> SUFFICES ASSUME NEW i \in 1..Len(list), NEW j \in 1..Len(list), i <= j
               PROVE  list[i] <= list[j]
    BY DEF Sorted
  <2>1. list[i] \in Int /\ list[j] \in Int
    BY <1>1
  <2>2. i < j \/ i = j
    OBVIOUS
  <2> QED  BY <1>1, <2>1, <2>2
<1> QED  BY <1>1, <1>2 DEF SortedLists, list

(* A step of the composition is one of the search, or forgets it with the  *)
(* process.                                                                *)
LEMMA StepIsSearchStep ==
  ASSUME ChoiceInv, IInv, [Next]_vars
  PROVE  [SearchNext]_searchVars \/ SearchInit'
<1> USE DEF SearchNext
<1>1. ASSUME NEW a \in ATMs, NEW o \in Offsets, Call(a, o) PROVE UNCHANGED searchVars
  BY <1>1 DEF Call
<1>2. ASSUME NEW type \in {"CE", "PE"}, Ask(type) PROVE SearchNext
  <2>1. ideal[type] \in Int
    BY DEF ChoiceInv, CallType
  <2>2. NiftyStrikes(Expiries[at + 1], type) \in SortedLists
    BY OffersAreSorted
  <2> QED  BY <1>2, <2>1, <2>2 DEF Ask
<1>3. CASE AskCE \/ AskPE
  BY <1>2, <1>3 DEF AskCE, AskPE
<1>4. CASE TakeCE \/ TakePE \/ SearchStep
  BY <1>4 DEF TakeCE, TakePE, SearchStep
<1>5. CASE ReadWeek \/ ReadCEOffset \/ ReadPEOffset \/ Fallback
  BY <1>5 DEF ReadWeek, ReadCEOffset, ReadPEOffset, Fallback
<1>6. CASE IndexOutOfRange \/ ProcessEnds
  BY <1>6 DEF IndexOutOfRange, ProcessEnds, ForgetSearch, SearchInit
<1>7. CASE CallOver \/ StartProcess \/ BootStep \/ EditStep \/ ReloadStep \/ Midnight
  BY <1>7 DEF CallOver, StartProcess, BootStep, EditStep, ReloadStep, Midnight
<1> QED  BY <1>1, <1>3, <1>4, <1>5, <1>6, <1>7 DEF Next, CallStep, vars

LEMMA SearchInvStep ==
  ASSUME SearchInv, ChoiceInv, IInv, [Next]_vars
  PROVE  SearchInv'
<1>1. CASE [SearchNext]_searchVars
  BY <1>1, SearchInvNext
<1>2. CASE SearchInit'
  <2>1. strikes' \in SortedLists
    BY <1>2 DEF SearchInit, SortedLists, Sorted
  <2> QED  BY <1>2, <2>1 DEF SearchInit, SearchInv, SearchType, Bracketed, ClosedIn, FindsNearest
<1> QED  BY <1>1, <1>2, StepIsSearchStep

-----------------------------------------------------------------------------
(* Outside a call there is little to keep. *)
LEMMA IdleKeeps ==
  ASSUME CallType', Standing', cpc' = "idle", spc' = "idle"
  PROVE  ChoiceInv'
<1> QED  BY DEF ChoiceInv, GettersRead, WalkedPast, SearchIsOurs, CallSeen, PairOfConfigsInForce

-----------------------------------------------------------------------------
(* The reference, in terms of the lists. *)
Computed(week, ce, pe) == Dated(Reference(ce, pe)!CalculateSymbols(week, atm))

Lacks(i) == Offer(i, "CE") = <<>> \/ Offer(i, "PE") = <<>>

FirstUsable(week, i) ==
  /\ week \in Nat
  /\ i \in week..(Len(Expiries) - 1)
  /\ ~Lacks(i)
  /\ \A j \in week..(i - 1) : Lacks(j)

NoneUsable(week) == week \in Nat /\ \A j \in week..(Len(Expiries) - 1) : Lacks(j)

PairAt(i, ce, pe) ==
  {BuildOptionSymbol(Expiries[i + 1], NearestStrike(ToSet(Offer(i, "CE")), ce), "CE"),
   BuildOptionSymbol(Expiries[i + 1], NearestStrike(ToSet(Offer(i, "PE")), pe), "PE")}

LEMMA ChainIs ==
  ASSUME IInv
  PROVE  /\ Len(Expiries) \in Nat /\ Len(Chain) = Len(Expiries)
         /\ \A i \in 0..(Len(Expiries) - 1) :
              /\ Chain[i + 1]["CE"] = ToSet(Offer(i, "CE"))
              /\ Chain[i + 1]["PE"] = ToSet(Offer(i, "PE"))
              /\ Chain[i + 1]["CE"] = {} <=> Offer(i, "CE") = <<>>
              /\ Chain[i + 1]["PE"] = {} <=> Offer(i, "PE") = <<>>
<1>1. Len(Expiries) \in Nat
  BY ListsAreAscending DEF IInv, Expiries
<1>2. \A i \in 1..Len(Expiries) :
        Chain[i] = [type \in {"CE", "PE"} |-> ToSet(NiftyStrikes(Expiries[i], type))]
  BY DEF Chain
<1>3. Len(Chain) = Len(Expiries)
  <2>1. DOMAIN Chain = 1..Len(Expiries)
    BY DEF Chain
  <2>2. Chain \in Seq({Chain[i] : i \in 1..Len(Expiries)})
    BY <1>1 DEF Chain
  <2> QED  BY <1>1, <2>1, <2>2
<1>4. ASSUME NEW s \in Seq(Int) PROVE ToSet(s) = {} <=> s = <<>>
  BY DEF ToSet
<1>5. ASSUME NEW i \in 0..(Len(Expiries) - 1), NEW type \in {"CE", "PE"}
      PROVE  /\ Chain[i + 1][type] = ToSet(Offer(i, type))
             /\ Chain[i + 1][type] = {} <=> Offer(i, type) = <<>>
  <2>1. i + 1 \in 1..Len(Expiries)
    BY <1>1
  <2>2. Chain[i + 1][type] = ToSet(Offer(i, type))
    BY <1>2, <2>1 DEF Offer
  <2>3. Offer(i, type) \in Seq(Int)
    BY OffersAreSorted DEF Offer, SortedLists
  <2> QED  BY <1>4, <2>2, <2>3
<1> QED  BY <1>1, <1>3, <1>5

LEMMA ReferenceOperators ==
  ASSUME NEW ce, NEW pe, NEW a, NEW b, NEW c
  PROVE  /\ Reference(ce, pe)!BuildOptionSymbol(a, b, c) = BuildOptionSymbol(a, b, c)
         /\ Reference(ce, pe)!NearestStrike(a, b) = NearestStrike(a, b)
         /\ Reference(ce, pe)!Min(a) = Min(a)
<1> QED  BY DEF Reference!BuildOptionSymbol, BuildOptionSymbol, Reference!NearestStrike, NearestStrike,
                Reference!IsNearest, IsNearest, Reference!Distance, Distance, Reference!Min, Min

LEMMA DatedPair ==
  ASSUME NEW i, NEW c, NEW p
  PROVE  Dated({BuildOptionSymbol(i, c, "CE"), BuildOptionSymbol(i, p, "PE")}) =
           {BuildOptionSymbol(Expiries[i + 1], c, "CE"), BuildOptionSymbol(Expiries[i + 1], p, "PE")}
<1>1. ASSUME NEW s, NEW t
      PROVE  [BuildOptionSymbol(i, s, t) EXCEPT !.expiry = Expiries[BuildOptionSymbol(i, s, t).expiry + 1]]
               = BuildOptionSymbol(Expiries[i + 1], s, t)
  BY DEF BuildOptionSymbol
<1> QED  BY <1>1, Zenon DEF Dated

(* The first expiry from the week on that lacks nothing is the one. *)
LEMMA ComputedAtFirst ==
  ASSUME IInv, NEW week, NEW i, FirstUsable(week, i), NEW ce, NEW pe
  PROVE  Computed(week, ce, pe) = PairAt(i, atm - ce, atm + pe)
<1>0. /\ week \in Nat /\ i \in week..(Len(Expiries) - 1) /\ ~Lacks(i)
      /\ \A j \in week..(i - 1) : Lacks(j)
  BY DEF FirstUsable
<1> DEFINE usable == {e \in week..(Len(Chain) - 1) : Chain[e + 1]["CE"] # {} /\ Chain[e + 1]["PE"] # {}}
<1>1. \A e : e \in usable <=> e \in week..(Len(Expiries) - 1) /\ ~Lacks(e)
  <2>1. \A e \in 0..(Len(Expiries) - 1) :
          (Chain[e + 1]["CE"] # {} /\ Chain[e + 1]["PE"] # {}) <=> ~Lacks(e)
    BY ChainIs DEF Lacks
  <2>2. week \in Nat /\ Len(Expiries) \in Nat /\ Len(Chain) = Len(Expiries)
    BY <1>0, ChainIs
  <2>3. \A e \in week..(Len(Expiries) - 1) : e \in 0..(Len(Expiries) - 1)
    BY <2>2
  <2> QED  BY <2>1, <2>2, <2>3
<1>2. i \in usable /\ usable \in SUBSET Int /\ i \in 0..(Len(Expiries) - 1)
  BY <1>0, <1>1, ChainIs
<1>3. \A e \in usable : i <= e
  <2> SUFFICES ASSUME NEW e \in usable, ~(i <= e) PROVE FALSE
    OBVIOUS
  <2>1. e \in week..(Len(Expiries) - 1) /\ ~Lacks(e)
    BY <1>1
  <2>2. e \in week..(i - 1)
    BY <1>0, <1>2, <2>1
  <2> QED  BY <1>0, <2>1, <2>2
<1>4. Min(usable) = i
  BY <1>2, <1>3, MinIs
<1> HIDE DEF usable
<1>5. Reference(ce, pe)!CalculateSymbols(week, atm) =
        {BuildOptionSymbol(i, NearestStrike(Chain[i + 1]["CE"], atm - ce), "CE"),
         BuildOptionSymbol(i, NearestStrike(Chain[i + 1]["PE"], atm + pe), "PE")}
  <2>1. usable # {}
    BY <1>2
  <2> DEFINE m == Reference(ce, pe)!Min(usable)
  <2>2. m = i
    BY <1>4, ReferenceOperators
  <2>3. Reference(ce, pe)!CalculateSymbols(week, atm) =
          {Reference(ce, pe)!BuildOptionSymbol(m,
             Reference(ce, pe)!NearestStrike(Chain[m + 1]["CE"], atm - ce), "CE"),
           Reference(ce, pe)!BuildOptionSymbol(m,
             Reference(ce, pe)!NearestStrike(Chain[m + 1]["PE"], atm + pe), "PE")}
    BY <2>1
    DEF Reference!CalculateSymbols, Reference!ComputeCEStrike, Reference!ComputePEStrike, usable
  <2> HIDE DEF m
  <2>4. ASSUME NEW S, NEW t, NEW type
        PROVE  Reference(ce, pe)!BuildOptionSymbol(i, Reference(ce, pe)!NearestStrike(S, t), type) =
                 BuildOptionSymbol(i, NearestStrike(S, t), type)
    BY ReferenceOperators
  <2> QED  BY <2>2, <2>3, <2>4
<1>6. Chain[i + 1]["CE"] = ToSet(Offer(i, "CE")) /\ Chain[i + 1]["PE"] = ToSet(Offer(i, "PE"))
  BY <1>2, ChainIs
<1> QED  BY <1>5, <1>6, DatedPair DEF Computed, PairAt

(* If every one of them lacks something, the ideal strikes. *)
LEMMA ComputedFallback ==
  ASSUME IInv, NEW week, NoneUsable(week), NEW ce, NEW pe
  PROVE  Computed(week, ce, pe) =
           {BuildOptionSymbol(Expiries[week + 1], atm - ce, "CE"),
            BuildOptionSymbol(Expiries[week + 1], atm + pe, "PE")}
<1> DEFINE usable == {e \in week..(Len(Chain) - 1) : Chain[e + 1]["CE"] # {} /\ Chain[e + 1]["PE"] # {}}
<1>1. usable = {}
  BY ChainIs DEF NoneUsable, Lacks
<1> HIDE DEF usable
<1>2. Reference(ce, pe)!CalculateSymbols(week, atm) =
        {BuildOptionSymbol(week, atm - ce, "CE"), BuildOptionSymbol(week, atm + pe, "PE")}
  BY <1>1, ReferenceOperators
  DEF Reference!CalculateSymbols, Reference!ComputeCEStrike, Reference!ComputePEStrike, usable
<1> QED  BY <1>2, DatedPair DEF Computed

LEMMA ComputedStays ==
  ASSUME UNCHANGED <<parsed, atm>>, NEW week, NEW ce, NEW pe
  PROVE  Computed(week, ce, pe)' = Computed(week, ce, pe)
<1>1. Chain' = Chain
  BY ListsStay DEF Chain
<1> QED  BY <1>1, ListsStay
         DEF Computed, Dated, Reference!CalculateSymbols, Reference!ComputeCEStrike,
             Reference!ComputePEStrike, Reference!BuildOptionSymbol, Reference!NearestStrike,
             Reference!IsNearest, Reference!Distance, Reference!Min

LEMMA PairStays ==
  ASSUME UNCHANGED <<parsed, atm, offset>>, inForce \subseteq inForce',
         NEW u \in inForce, NEW v \in inForce, NEW w \in inForce, NEW week,
         week = Max({u.week + offset, 0}), week < Len(Expiries),
         result' = Computed(week, v.ce, w.pe)
  PROVE  PairOfConfigsInForce'
<1>1. week < Len(Expiries)' /\ result' = Computed(week, v.ce, w.pe)'
  BY ListsStay, ComputedStays
<1>2. week = Max({u.week + offset', 0}) /\ u \in inForce' /\ v \in inForce' /\ w \in inForce'
  OBVIOUS
<1> QED  BY <1>1, <1>2 DEF PairOfConfigsInForce, Computed

(* A step that leaves the call alone, whatever comes into force. *)
LEMMA StandsStill ==
  ASSUME ChoiceInv, UNCHANGED <<parsed, cpc, callVars, at, nearCE, result>>,
         inForce \subseteq inForce', Standing', SearchIsOurs'
  PROVE  ChoiceInv'
<1> USE DEF ChoiceInv, callVars
<1>1. CallType'
  BY DEF CallType
<1>2. GettersRead'
  BY DEF GettersRead
<1>3. WalkedPast'
  BY ListsStay DEF WalkedPast, Offer
<1>4. CallSeen'
  BY ListsStay DEF CallSeen, Offer
<1>5. PairOfConfigsInForce'
  <2> SUFFICES ASSUME cpc = "returned" PROVE PairOfConfigsInForce'
    BY DEF PairOfConfigsInForce
  <2>1. PICK u \in inForce, v \in inForce, w \in inForce :
          /\ Max({u.week + offset, 0}) < Len(Expiries)
          /\ result = Computed(Max({u.week + offset, 0}), v.ce, w.pe)
    BY DEF PairOfConfigsInForce, Computed
  <2> QED  BY <2>1, PairStays
<1> QED  BY <1>1, <1>2, <1>3, <1>4, <1>5

-----------------------------------------------------------------------------
LEMMA ChoiceInvInit == Init => ChoiceInv
<1> SUFFICES ASSUME Init PROVE ChoiceInv
  OBVIOUS
<1>1. CallType
  BY DEF Init, CallType
<1> QED  BY <1>1 DEF Init, IMFInit, ConfigInit, SearchInit, ChoiceInv, Standing, GettersRead, WalkedPast,
                     SearchIsOurs, CallSeen, PairOfConfigsInForce

LEMMA CallKeeps ==
  ASSUME ChoiceInv, ConfigIsRead, NEW a \in ATMs, NEW o \in Offsets, Call(a, o)
  PROVE  ChoiceInv'
<1>1. CallType'
  BY SymbolChoiceAssumption DEF Call, ChoiceInv, CallType
<1>2. Standing'
  <2>1. lpc # "down"
    BY DEF Call, ChoiceInv, Standing
  <2> QED  BY <2>1 DEF ConfigIsRead, Call, ChoiceInv, Standing, imfVars, configVars
<1>3. SearchIsOurs'
  BY DEF Call, ChoiceInv, SearchIsOurs, searchVars
<1> QED  BY <1>1, <1>2, <1>3
         DEF Call, ChoiceInv, GettersRead, WalkedPast, CallSeen, PairOfConfigsInForce

(* Every getter reads what is in force when it is called. *)
LEMMA GettersKeep ==
  ASSUME ChoiceInv, ReadWeek \/ ReadCEOffset \/ ReadPEOffset
  PROVE  ChoiceInv'
<1> USE DEF ChoiceInv
<1>1. /\ cpc # "idle" /\ pc = "running" /\ lpc # "down" /\ cfg \in inForce /\ inForce \subseteq ConfigFields
      /\ UNCHANGED <<imfVars, configVars, searchVars, atm, offset, inForce>>
  BY DEF ReadWeek, ReadCEOffset, ReadPEOffset, Standing
<1>2. cfg.week \in Int /\ cfg.ce \in Int /\ cfg.pe \in Int
  BY <1>1 DEF ConfigFields
<1>3. CASE ReadWeek
  <2>1. weekIdx' \in Nat
    BY <1>2, <1>3, MaxWithZero DEF ReadWeek, GetExpiryWeek, CallType
  <2> QED  BY <1>1, <1>3, <2>1
           DEF ReadWeek, GetExpiryWeek, CallType, Standing, GettersRead, WalkedPast, SearchIsOurs, CallSeen,
               PairOfConfigsInForce, imfVars, configVars, searchVars
<1>4. CASE ReadCEOffset
  <2>1. ideal' \in [CE : Int, PE : Int] /\ ideal'.CE = atm - cfg.ce
    BY <1>2, <1>4 DEF ReadCEOffset, GetCEOffsetPoints, CallType
  <2> QED  BY <1>1, <1>4, <2>1
           DEF ReadCEOffset, CallType, Standing, GettersRead, WalkedPast, SearchIsOurs, CallSeen,
               PairOfConfigsInForce, imfVars, configVars, searchVars
<1>5. CASE ReadPEOffset
  <2>1. ideal' \in [CE : Int, PE : Int] /\ ideal'.PE = atm + cfg.pe /\ ideal'.CE = ideal.CE
    BY <1>2, <1>5 DEF ReadPEOffset, GetPEOffsetPoints, CallType
  <2>2. WalkedPast'
    <3>1. at' = weekIdx' /\ at' \in Nat /\ cpc' = "walk"
      BY <1>5 DEF ReadPEOffset, WalkedPast, CallType
    <3>2. PICK n \in Nat : n = at' /\ n = weekIdx'
      BY <3>1
    <3>3. n <= n /\ ~(\E i \in n..(n - 1) : TRUE)
      OBVIOUS
    <3> QED  BY <3>1, <3>2, <3>3 DEF WalkedPast
  <2> QED  BY <1>1, <1>5, <2>1, <2>2
           DEF ReadPEOffset, CallType, Standing, GettersRead, SearchIsOurs, CallSeen,
               PairOfConfigsInForce, imfVars, configVars, searchVars
<1> QED  BY <1>3, <1>4, <1>5

(* The loop asks for the strikes of the expiry it is at. *)
LEMMA AskKeeps ==
  ASSUME ChoiceInv, AskCE \/ AskPE
  PROVE  ChoiceInv'
<1> USE DEF ChoiceInv
<1> PICK type \in {"CE", "PE"} :
      /\ cpc = IF type = "CE" THEN "walk" ELSE "askPE"
      /\ at < Len(Expiries) /\ cpc' = type
      /\ Ask(type) /\ UNCHANGED nearCE
  BY DEF AskCE, AskPE, Ask, WalkedPast
<1>1. /\ UNCHANGED <<imfVars, configVars, callVars, at, result, inForce>>
      /\ strikes' = Offer(at, type) /\ target' = ideal[type]
      /\ spc' = IF Offer(at, type) = <<>> THEN "missing" ELSE "loop"
  BY DEF Ask, Find, Offer
<1> USE DEF imfVars, configVars, callVars
<1>2. CallType'
  BY <1>1 DEF CallType
<1>3. Standing' /\ GettersRead'
  BY <1>1 DEF Standing, GettersRead
<1>4. WalkedPast'
  BY <1>1, ListsStay DEF WalkedPast, Offer
<1>5. SearchIsOurs'
  BY <1>1, ListsStay DEF SearchIsOurs, Offer
<1>6. CallSeen'
  BY <1>1, ListsStay DEF CallSeen, Offer
<1> QED  BY <1>1, <1>2, <1>3, <1>4, <1>5, <1>6 DEF PairOfConfigsInForce

(* What was found is the strike nearest to the ideal one. *)
LEMMA SearchResult ==
  ASSUME ChoiceInv, SearchInv, cpc \in {"CE", "PE"}, spc \in {"found", "missing"}
  PROVE  /\ spc = "found" <=> Offer(at, cpc) # <<>>
         /\ spc = "found" => best = NearestStrike(ToSet(Offer(at, cpc)), ideal[cpc])
<1>1. strikes = Offer(at, cpc) /\ target = ideal[cpc]
  BY DEF ChoiceInv, SearchIsOurs
<1>2. spc = "found" <=> strikes # <<>>
  BY DEF ChoiceInv, SearchIsOurs
<1>3. Listed = ToSet(strikes)
  BY DEF Listed, ToSet, SearchInv, SearchType, SortedLists
<1> QED  BY <1>1, <1>2, <1>3 DEF SearchInv, FindsNearest

LEMMA TakeCEKeeps ==
  ASSUME ChoiceInv, SearchInv, TakeCE
  PROVE  ChoiceInv'
<1> USE DEF ChoiceInv
<1>1. /\ UNCHANGED <<imfVars, configVars, callVars, at, result, inForce>>
      /\ cpc = "CE" /\ cpc' = "askPE" /\ spc' = "idle"
      /\ nearCE' = IF Offer(at, "CE") = <<>>
                   THEN {}
                   ELSE {NearestStrike(ToSet(Offer(at, "CE")), ideal.CE)}
  <2>1. cpc = "CE" /\ spc \in {"found", "missing"} /\ spc' = "idle"
    BY DEF TakeCE, Return, ForgetSearch
  <2> QED  BY <2>1, SearchResult DEF TakeCE
<1> USE DEF imfVars, configVars, callVars
<1>2. CallType'
  BY <1>1 DEF CallType
<1>3. Standing' /\ GettersRead'
  BY <1>1 DEF Standing, GettersRead
<1>4. WalkedPast'
  BY <1>1, ListsStay DEF WalkedPast, Offer
<1>5. SearchIsOurs'
  BY <1>1 DEF SearchIsOurs
<1>6. CallSeen'
  BY <1>1, ListsStay DEF CallSeen, Offer
<1> QED  BY <1>1, <1>2, <1>3, <1>4, <1>5, <1>6 DEF PairOfConfigsInForce

(* Both are there: the pair of the first expiry that lacks nothing. *)
LEMMA PairIsComputed ==
  ASSUME ChoiceInv, SearchInv, IInv, TakePE, spc = "found", nearCE # {}
  PROVE  PairOfConfigsInForce'
<1> USE DEF ChoiceInv
<1>1. /\ cpc = "PE" /\ cpc' = "returned"
      /\ UNCHANGED <<parsed, atm, offset, at, inForce>>
      /\ result' = {BuildOptionSymbol(Expiries[at + 1], ce, "CE") : ce \in nearCE}
                     \cup {BuildOptionSymbol(Expiries[at + 1], best, "PE")}
  BY DEF TakePE, imfVars, callVars
<1>2. /\ Offer(at, "CE") # <<>> /\ nearCE = {NearestStrike(ToSet(Offer(at, "CE")), ideal.CE)}
      /\ Offer(at, "PE") # <<>> /\ best = NearestStrike(ToSet(Offer(at, "PE")), ideal.PE)
  BY <1>1, SearchResult DEF CallSeen
<1>3. PICK u \in inForce, v \in inForce, w \in inForce :
        /\ weekIdx = Max({u.week + offset, 0})
        /\ ideal.CE = atm - v.ce /\ ideal.PE = atm + w.pe
  BY <1>1 DEF GettersRead
<1>4. /\ at \in weekIdx..(Len(Expiries) - 1) /\ weekIdx \in Nat /\ weekIdx < Len(Expiries)
      /\ FirstUsable(weekIdx, at)
  <2>1. at < Len(Expiries) /\ weekIdx <= at /\ \A j \in weekIdx..(at - 1) : Lacks(j)
    BY <1>1 DEF WalkedPast, Lacks
  <2>2. at \in Nat /\ weekIdx \in Nat /\ Len(Expiries) \in Nat
    BY ChainIs DEF CallType
  <2>3. ~Lacks(at)
    BY <1>2 DEF Lacks
  <2> QED  BY <2>1, <2>2, <2>3 DEF FirstUsable
<1>5. result' = Computed(weekIdx, v.ce, w.pe)
  <2>1. result' = PairAt(at, ideal.CE, ideal.PE)
    BY <1>1, <1>2, Zenon DEF PairAt
  <2>2. Computed(weekIdx, v.ce, w.pe) = PairAt(at, atm - v.ce, atm + w.pe)
    BY <1>4, ComputedAtFirst
  <2> QED  BY <1>3, <2>1, <2>2
<1> QED  BY <1>1, <1>3, <1>4, <1>5, PairStays

LEMMA TakePEKeeps ==
  ASSUME ChoiceInv, SearchInv, IInv, TakePE
  PROVE  ChoiceInv'
<1> USE DEF ChoiceInv, imfVars, configVars, callVars
<1>1. /\ cpc = "PE" /\ spc \in {"found", "missing"} /\ spc' = "idle" /\ cpc' \in {"returned", "walk"}
      /\ UNCHANGED <<imfVars, configVars, callVars, nearCE, inForce>>
  BY DEF TakePE, Return, ForgetSearch
<1>2. Standing' /\ GettersRead' /\ SearchIsOurs' /\ CallSeen'
  BY <1>1 DEF Standing, GettersRead, SearchIsOurs, CallSeen
<1>3. CASE spc = "found" /\ nearCE # {}
  <2>1. cpc' = "returned" /\ at' = at
    BY <1>3 DEF TakePE
  <2>2. CallType' /\ WalkedPast'
    BY <1>1, <2>1 DEF CallType, WalkedPast
  <2> QED  BY <1>2, <1>3, <2>2, PairIsComputed
<1>4. CASE ~(spc = "found" /\ nearCE # {})
  <2>1. cpc' = "walk" /\ at' = at + 1
    BY <1>4 DEF TakePE
  <2>2. CallType'
    BY <1>1, <2>1 DEF CallType
  <2>3. Offer(at, "CE") = <<>> \/ Offer(at, "PE") = <<>>
    BY <1>1, <1>4, SearchResult DEF CallSeen
  <2>4. /\ weekIdx <= at /\ at \in Nat /\ weekIdx \in Nat
        /\ \A i \in weekIdx..(at - 1) : Offer(i, "CE") = <<>> \/ Offer(i, "PE") = <<>>
    BY <1>1 DEF WalkedPast, CallType
  <2>5. \A i \in weekIdx..at : Offer(i, "CE") = <<>> \/ Offer(i, "PE") = <<>>
    <3> SUFFICES ASSUME NEW i \in weekIdx..at, i \notin weekIdx..(at - 1)
                 PROVE  Offer(i, "CE") = <<>> \/ Offer(i, "PE") = <<>>
      BY <2>4
    <3>1. i = at
      BY <2>4
    <3> QED  BY <2>3, <3>1
  <2>6. at' - 1 = at /\ weekIdx' <= at' /\ weekIdx' = weekIdx
    BY <1>1, <2>1, <2>4
  <2>7. WalkedPast'
    <3>1. \A i : /\ Offer(i, "CE")' = Offer(i, "CE")
                 /\ Offer(i, "PE")' = Offer(i, "PE")
      BY <1>1, ListsStay DEF Offer
    <3> QED  BY <2>1, <2>5, <2>6, <3>1 DEF WalkedPast
  <2> QED  BY <1>2, <2>1, <2>2, <2>7 DEF PairOfConfigsInForce
<1> QED  BY <1>3, <1>4

(* None from the week on has both: the ideal strikes, if the week is there.*)
LEMMA FallbackKeeps ==
  ASSUME ChoiceInv, IInv, Fallback
  PROVE  ChoiceInv'
<1> USE DEF ChoiceInv
<1>1. /\ cpc = "walk" /\ cpc' = "returned" /\ at >= Len(Expiries) /\ weekIdx < Len(Expiries)
      /\ UNCHANGED <<imfVars, configVars, searchVars, atm, offset, weekIdx, ideal, at, nearCE, inForce>>
      /\ result' = {BuildOptionSymbol(Expiries[weekIdx + 1], ideal.CE, "CE"),
                    BuildOptionSymbol(Expiries[weekIdx + 1], ideal.PE, "PE")}
  BY DEF Fallback, callVars
<1>2. CallType' /\ Standing' /\ GettersRead' /\ WalkedPast' /\ SearchIsOurs' /\ CallSeen'
  BY <1>1 DEF CallType, Standing, GettersRead, WalkedPast, SearchIsOurs, CallSeen,
              imfVars, configVars, searchVars
<1>3. PICK u \in inForce, v \in inForce, w \in inForce :
        /\ weekIdx = Max({u.week + offset, 0})
        /\ ideal.CE = atm - v.ce /\ ideal.PE = atm + w.pe
  BY <1>1 DEF GettersRead
<1>4. NoneUsable(weekIdx)
  <2>1. at \in Nat /\ weekIdx \in Nat /\ Len(Expiries) \in Nat
    BY ChainIs DEF CallType
  <2>2. \A i \in weekIdx..(Len(Expiries) - 1) : i \in weekIdx..(at - 1)
    BY <1>1, <2>1
  <2> QED  BY <1>1, <2>1, <2>2 DEF WalkedPast, Lacks, NoneUsable
<1>5. result' = Computed(weekIdx, v.ce, w.pe)
  BY <1>1, <1>3, <1>4, ComputedFallback
<1>6. PairOfConfigsInForce'
  BY <1>1, <1>3, <1>5, PairStays DEF imfVars
<1> QED  BY <1>2, <1>6

LEMMA SearchStepKeeps ==
  ASSUME ChoiceInv, SearchStep
  PROVE  ChoiceInv'
<1>1. /\ spc \in {"loop", "compare"} /\ spc' \in {"loop", "compare", "found"}
      /\ UNCHANGED <<strikes, target, imfVars, configVars, choiceVars>>
  BY DEF SearchStep, Halve, LeaveLoop, Compare
<1>2. Standing'
  BY <1>1 DEF ChoiceInv, Standing, imfVars, configVars, choiceVars
<1>3. SearchIsOurs'
  BY <1>1, ListsStay DEF ChoiceInv, SearchIsOurs, Offer, imfVars, choiceVars, callVars
<1> QED  BY <1>1, <1>2, <1>3, StandsStill DEF imfVars, choiceVars

(* A call that ends, or the process with it. *)
LEMMA EndOfCallKeeps ==
  ASSUME ChoiceInv, CallOver \/ ProcessEnds \/ IndexOutOfRange
  PROVE  ChoiceInv'
<1>1. ForgetCall /\ spc' = "idle"
  BY DEF ChoiceInv, SearchIsOurs, CallOver, ProcessEnds, IndexOutOfRange, ForgetSearch, searchVars
<1>2. CallType' /\ cpc' = "idle"
  BY <1>1 DEF ForgetCall, CallType
<1>3. pc' # "down" => lpc' # "down"
  BY DEF ChoiceInv, Standing, CallOver, ProcessEnds, IndexOutOfRange, Refused, CopyFails, Crash,
         EndOfProcess, imfVars, configVars
<1> QED  BY <1>1, <1>2, <1>3, IdleKeeps DEF Standing

(* The process around the call: its boot, the file somebody edits, the     *)
(* reloader and midnight.                                                  *)
LEMMA AroundKeeps ==
  ASSUME ChoiceInv, ConfigIsRead',
         \/ StartProcess \/ BootStep \/ EditStep \/ ReloadStep \/ Midnight \/ UNCHANGED vars
  PROVE  ChoiceInv'
<1> USE DEF ChoiceInv
<1>1. CASE StartProcess \/ BootStep
  <2>1. cpc = "idle" /\ UNCHANGED <<searchVars, choiceVars>> /\ lpc' # "down"
    BY <1>1 DEF StartProcess, LoadAtBoot, BootStep, Boot, UseCached, Get, Create, CopyRow, CopyDone,
                Parse, Standing, configVars
  <2>2. CallType' /\ Standing' /\ cpc' = "idle" /\ spc' = "idle"
    BY <2>1 DEF CallType, Standing, SearchIsOurs, choiceVars, callVars, searchVars
  <2> QED  BY <2>2, IdleKeeps
<1>2. CASE EditStep \/ Midnight \/ UNCHANGED vars
  <2>1. UNCHANGED <<parsed, pc, cfg, choiceVars, searchVars>> /\ (lpc' = lpc)
    BY <1>2 DEF EditStep, Edit, Midnight, NewDay, vars, imfVars, configVars
  <2>2. Standing'
    BY <2>1 DEF Standing, choiceVars
  <2>3. SearchIsOurs'
    BY <2>1, ListsStay DEF SearchIsOurs, Offer, choiceVars, callVars, searchVars
  <2> QED  BY <2>1, <2>2, <2>3, StandsStill DEF choiceVars
<1>3. CASE ReloadStep
  <2>1. /\ UNCHANGED <<parsed, pc, cpc, callVars, at, nearCE, result, searchVars>>
        /\ lpc # "down" /\ lpc' # "down"
        /\ inForce' = IF cpc = "idle" THEN {} ELSE inForce \cup {cfg'}
    BY <1>3 DEF ReloadStep, Load, Copy, imfVars
  <2>2. cfg' \in ConfigFields
    BY <2>1 DEF ConfigIsRead
  <2>3. Standing'
    BY <2>1, <2>2 DEF Standing
  <2>4. SearchIsOurs'
    BY <2>1, ListsStay DEF SearchIsOurs, Offer, callVars, searchVars
  <2>5. CASE cpc = "idle"
    BY <2>1, <2>3, <2>5, IdleKeeps DEF CallType, SearchIsOurs, callVars, searchVars
  <2>6. CASE cpc # "idle"
    BY <2>1, <2>3, <2>4, <2>6, StandsStill
  <2> QED  BY <2>5, <2>6
<1> QED  BY <1>1, <1>2, <1>3

LEMMA ChoiceInvNext ==
  ChoiceInv /\ SearchInv /\ IInv /\ ConfigIsRead /\ ConfigIsRead' /\ [Next]_vars => ChoiceInv'
<1> SUFFICES ASSUME ChoiceInv, SearchInv, IInv, ConfigIsRead, ConfigIsRead', [Next]_vars PROVE ChoiceInv'
  OBVIOUS
<1>1. ASSUME NEW a \in ATMs, NEW o \in Offsets, Call(a, o) PROVE ChoiceInv'
  BY <1>1, CallKeeps
<1>2. CASE ReadWeek \/ ReadCEOffset \/ ReadPEOffset
  BY <1>2, GettersKeep
<1>3. CASE AskCE \/ AskPE
  BY <1>3, AskKeeps
<1>4. CASE TakeCE
  BY <1>4, TakeCEKeeps
<1>5. CASE TakePE
  BY <1>5, TakePEKeeps
<1>6. CASE SearchStep
  BY <1>6, SearchStepKeeps
<1>7. CASE Fallback
  BY <1>7, FallbackKeeps
<1>8. CASE CallOver \/ ProcessEnds \/ IndexOutOfRange
  BY <1>8, EndOfCallKeeps
<1>9. CASE StartProcess \/ BootStep \/ EditStep \/ ReloadStep \/ Midnight \/ UNCHANGED vars
  BY <1>9, AroundKeeps
<1> QED  BY <1>1, <1>2, <1>3, <1>4, <1>5, <1>6, <1>7, <1>8, <1>9 DEF Next, CallStep

-----------------------------------------------------------------------------
(* The inductive invariant of calculateSymbols, over those of what it      *)
(* calls, holds whatever reloads, edits, crashes and boots come between    *)
(* its steps.                                                              *)
THEOREM ChoiceInvariant == Spec => [](ChoiceInv /\ SearchInv)
<1> DEFINE Both == ChoiceInv /\ SearchInv
<1>1. Init => Both
  BY ChoiceInvInit, SearchInvInit DEF Init
<1>2. Both /\ IInv /\ ConfigIsRead /\ ConfigIsRead' /\ [Next]_vars => Both'
  BY ChoiceInvNext, SearchInvStep
<1>3. Spec => []IInv
  BY ImplementsCache, CacheInvariant, PTL
<1>4. Spec => []ConfigIsRead
  BY ImplementsReload, ConfigInvInit, ConfigInvNext, ConfigInvIsRead, PTL DEF ConfigSpec
<1> QED  BY <1>1, <1>2, <1>3, <1>4, PTL DEF Spec

(* Composed, each part keeps what it promises alone: the cache serves one  *)
(* download, what is in force was written, and every search of a call is   *)
(* right.                                                                  *)
THEOREM PartsKeepTheirPromises ==
  Spec => [](TypeOK /\ ServesOneDownload /\ InForceWasWritten /\ FindsNearest)
<1>1. SearchInv => FindsNearest
  BY DEF SearchInv
<1> QED  BY <1>1, ChoiceInvariant, ImplementsCache, CacheTypeCorrect, CacheServesOneDownload,
            ImplementsReload, InForceIsWritten, PTL

(* calculateSymbols (pipeline.go:395-460) returns the pair of a week and   *)
(* offsets that were in force while it ran, for the first expiry from the  *)
(* week on that has both kinds of strikes, each of them the nearest.       *)
THEOREM CallReturnsPairInForce == Spec => []PairOfConfigsInForce
<1>1. ChoiceInv => PairOfConfigsInForce
  BY DEF ChoiceInv
<1> QED  BY <1>1, ChoiceInvariant, PTL

-----------------------------------------------------------------------------
(* The strikes a call is made for: RoundToStrike (nifty.go) gives, for     *)
(* every price, the nearest multiple of 50, the higher one of two.         *)
Multiples == {50 * n : n \in Nat}

THEOREM ATMIsNearestStrike ==
  ASSUME NEW ce \in Int, NEW pe \in Int, NEW ltp \in Nat
  PROVE  IsNearest(Reference(ce, pe)!ComputeATMStrike(ltp), Multiples, ltp)
<1> DEFINE n == (2 * ltp + 50) \div 100
           nearest == n * 50
<1>1. Reference(ce, pe)!ComputeATMStrike(ltp) = nearest
  BY DEF Reference!ComputeATMStrike, Reference!RoundToStrike
<1>2. n \in Nat /\ 100 * n <= 2 * ltp + 50 /\ 2 * ltp + 50 < 100 * (n + 1)
  OBVIOUS
<1> HIDE DEF n
<1>3. ASSUME NEW m \in Nat
      PROVE  \/ Distance(50 * n, ltp) < Distance(50 * m, ltp)
             \/ Distance(50 * n, ltp) = Distance(50 * m, ltp) /\ 50 * n >= 50 * m
  BY <1>2 DEF Distance
<1>4. nearest = 50 * n /\ nearest \in Multiples
  BY <1>2 DEF Multiples
<1> QED BY <1>1, <1>3, <1>4 DEF IsNearest, Multiples
=============================================================================
