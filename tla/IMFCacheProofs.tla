--------------------------- MODULE IMFCacheProofs ---------------------------
(***************************************************************************)
(* A boot serves one download, asked for on the day the boot looked at the *)
(* cache or still arriving on it, for any files, any number of days and    *)
(* any failures.                                                           *)
(***************************************************************************)
EXTENDS IMFCache, FiniteSetTheorems, FunctionTheorems, TLAPS

(* The file is a beginning of one response, all of it if the copy ended.   *)
FileIsOfOneDownload ==
  /\ source = 0 => file.day = 0
  /\ source # 0 =>
       /\ Len(file.rows) <= Len(Published[source])
       /\ whole => Len(file.rows) = Len(Published[source])
       /\ \A i \in 1..Len(file.rows) : file.rows[i] = Published[source][i]

(* The copy that is running fills the file. *)
CopyFillsFile == pc = "copy" => fetched = source /\ ~whole

(* The response is of the day the cache was looked at. *)
FetchedWhenChecked == pc \in {"create", "copy"} => fetched = checked

(* What a boot parses was asked for on the day it looked at the cache, or  *)
(* was last written to on that day.                                        *)
FileIsTrusted ==
  pc \in {"parse", "running"} => source # 0 /\ (source = checked \/ file.day = checked)

ParsedIsFinite == IsFiniteSet(parsed)

IInv ==
  /\ TypeOK
  /\ FileIsOfOneDownload
  /\ CopyFillsFile
  /\ FetchedWhenChecked
  /\ FileIsTrusted
  /\ ParsedIsFinite
  /\ ServesOneDownload

-----------------------------------------------------------------------------
LEMMA InitInvariant == IMFInit => IInv
<1> SUFFICES ASSUME IMFInit PROVE IInv
  OBVIOUS
<1>1. TypeOK
  <2>1. whole \in BOOLEAN
    BY DEF IMFInit
  <2>2. file.rows \in Seq(Row) /\ file.day = 0
    BY DEF IMFInit, NoFile
  <2>3. 1 \in 1..MaxDays
    BY IMFCacheAssumption
  <2> QED  BY <2>1, <2>2, <2>3 DEF IMFInit, TypeOK
<1>2. ParsedIsFinite
  BY FS_EmptySet DEF IMFInit, ParsedIsFinite
<1> QED  BY <1>1, <1>2 DEF IMFInit, NoFile, IInv, FileIsOfOneDownload, CopyFillsFile,
                           FetchedWhenChecked, FileIsTrusted, ServesOneDownload

LEMMA RowsOfPublished ==
  ASSUME NEW d \in 1..MaxDays
  PROVE  Published[d] \in Seq(Row)
<1> QED  BY IMFCacheAssumption

(* One more row is still a beginning. *)
LEMMA CopyRowKeeps ==
  ASSUME IInv, CopyRow PROVE IInv'
<1>1. /\ pc = "copy" /\ pc' = "copy" /\ Remaining > 0
      /\ source \in 1..MaxDays /\ fetched = source /\ today \in 1..MaxDays
      /\ file.rows \in Seq(Row)
      /\ Published[source] \in Seq(Row)
      /\ file' = [rows |-> Append(file.rows, Published[source][Len(file.rows) + 1]), day |-> today]
      /\ UNCHANGED <<fetched, parsed, today, checked, loaded, source, whole>>
  <2>1. source \in 1..MaxDays /\ fetched = source
    BY IMFCacheAssumption DEF IInv, TypeOK, CopyFillsFile, CopyRow
  <2> QED  BY <2>1, RowsOfPublished DEF IInv, TypeOK, CopyRow
<1> DEFINE n == Len(file.rows)
           row == Published[source][n + 1]
<1>2. n \in Nat /\ n < Len(Published[source]) /\ Len(Published[source]) \in Nat
  <2>1. n \in Nat /\ Len(Published[source]) \in Nat
    BY <1>1
  <2>2. Len(Published[source]) - n > 0
    BY <1>1 DEF Remaining
  <2>3. ASSUME NEW a \in Nat, NEW b \in Nat, b - a > 0 PROVE a < b
    BY <2>3
  <2> QED  BY <2>1, <2>2, <2>3
<1>3. row \in Row
  BY <1>1, <1>2
<1>4. file'.rows \in Seq(Row) /\ file'.day = today /\ Len(file'.rows) = n + 1
  BY <1>1, <1>3
<1>5. \A i \in 1..(n + 1) : file'.rows[i] = Published[source][i]
  <2> SUFFICES ASSUME NEW i \in 1..(n + 1) PROVE file'.rows[i] = Published[source][i]
    OBVIOUS
  <2>1. CASE i = n + 1
    BY <1>1, <1>2, <2>1
  <2>2. CASE i # n + 1
    <3>1. i \in 1..n /\ file.rows[i] = Published[source][i]
      BY <1>1, <1>2, <2>2 DEF IInv, FileIsOfOneDownload
    <3> QED  BY <1>1, <1>3, <3>1
  <2> QED  BY <2>1, <2>2
<1>6. ~whole
  BY <1>1 DEF IInv, CopyFillsFile
<1> HIDE DEF n, row
<1>7. TypeOK'
  <2>1. /\ fetched \in 0..today /\ checked \in 0..today /\ loaded \in 0..today
        /\ parsed \subseteq Row /\ source \in 0..today /\ whole \in BOOLEAN
    BY DEF IInv, TypeOK
  <2> QED  BY <1>1, <1>4, <2>1 DEF TypeOK
<1>8. FileIsOfOneDownload'
  BY <1>1, <1>2, <1>4, <1>5, <1>6 DEF FileIsOfOneDownload
<1> QED  BY <1>1, <1>6, <1>7, <1>8
         DEF IInv, CopyFillsFile, FetchedWhenChecked, FileIsTrusted, ParsedIsFinite,
             ServesOneDownload

(* A copy that ran to its end has all the rows of the response. *)
LEMMA CopyDoneKeeps ==
  ASSUME IInv, CopyDone PROVE IInv'
<1>1. /\ pc = "copy" /\ pc' = "parse" /\ Remaining <= 0
      /\ source \in 1..MaxDays /\ fetched = source /\ fetched = checked
      /\ file.rows \in Seq(Row) /\ Published[source] \in Seq(Row)
      /\ UNCHANGED <<file, parsed, today, checked, loaded, source>>
      /\ fetched' = 0 /\ whole' = TRUE
  <2>1. source \in 1..MaxDays /\ fetched = source
    BY IMFCacheAssumption DEF IInv, TypeOK, CopyFillsFile, CopyDone
  <2> QED  BY <2>1, RowsOfPublished DEF IInv, TypeOK, FetchedWhenChecked, CopyDone
<1>2. Len(file.rows) = Len(Published[source])
  BY <1>1 DEF IInv, FileIsOfOneDownload, Remaining
<1>3. TypeOK'
  <2>1. whole' \in BOOLEAN /\ 0 \in 0..today
    BY <1>1, IMFCacheAssumption DEF IInv, TypeOK
  <2> QED  BY <1>1, <2>1 DEF IInv, TypeOK
<1>4. FileIsOfOneDownload'
  BY <1>1, <1>2 DEF IInv, FileIsOfOneDownload
<1>5. FileIsTrusted'
  <2>1. source # 0
    BY <1>1, IMFCacheAssumption
  <2> QED  BY <1>1, <2>1 DEF FileIsTrusted
<1> QED  BY <1>1, <1>3, <1>4, <1>5
         DEF IInv, CopyFillsFile, FetchedWhenChecked, ParsedIsFinite, ServesOneDownload

(* A file has finitely many rows. *)
LEMMA RowsAreFinite ==
  ASSUME NEW S, NEW s \in Seq(S)
  PROVE  IsFiniteSet(ToSet(s)) /\ ToSet(s) \subseteq S
<1>1. s \in Surjection(1..Len(s), ToSet(s))
  BY DEF Surjection, ToSet
<1>2. IsFiniteSet(1..Len(s))
  BY FS_Interval
<1>3. ToSet(s) \subseteq S
  BY DEF ToSet
<1> QED  BY <1>1, <1>2, <1>3, FS_Surjection

LEMMA ParseKeeps ==
  ASSUME IInv, Parse PROVE IInv'
<1>1. /\ pc = "parse" /\ pc' = "running"
      /\ parsed' = {r \in ToSet(file.rows) : r.day >= today}
      /\ loaded' = today
      /\ UNCHANGED <<file, fetched, today, checked, source, whole>>
  BY DEF Parse
<1>2. parsed' \subseteq Row /\ ParsedIsFinite'
  <2>1. IsFiniteSet(ToSet(file.rows)) /\ ToSet(file.rows) \subseteq Row
    BY RowsAreFinite DEF IInv, TypeOK
  <2>2. parsed' \in SUBSET ToSet(file.rows)
    BY <1>1
  <2> QED  BY <2>1, <2>2, FS_Subset DEF ParsedIsFinite
<1>3. TypeOK'
  BY <1>1, <1>2, IMFCacheAssumption DEF IInv, TypeOK
<1>4. ServesOneDownload'
  <2> DEFINE n == Len(file.rows)
             rows == Published[source]
  <2>1. source # 0 /\ (source = checked \/ file.day = checked)
    BY <1>1 DEF IInv, FileIsTrusted
  <2>2. source \in 1..MaxDays /\ rows \in Seq(Row) /\ file.rows \in Seq(Row)
    <3>1. source \in 1..MaxDays
      BY <2>1, IMFCacheAssumption DEF IInv, TypeOK
    <3> QED  BY <3>1, RowsOfPublished DEF IInv, TypeOK
  <2>3. /\ n \in 0..Len(rows) /\ (whole => n = Len(rows))
        /\ \A i \in 1..n : file.rows[i] = rows[i]
    BY <2>1, <2>2 DEF IInv, FileIsOfOneDownload
  <2>4. SubSeq(rows, 1, n) = file.rows
    BY <2>2, <2>3
  <2>5. parsed' = {r \in ToSet(SubSeq(rows, 1, n)) : r.day >= loaded'}
    BY <1>1, <2>4
  <2> QED  BY <1>1, <2>1, <2>3, <2>5 DEF ServesOneDownload
<1> QED  BY <1>1, <1>2, <1>3, <1>4
         DEF IInv, FileIsOfOneDownload, CopyFillsFile, FetchedWhenChecked, FileIsTrusted

LEMMA EndKeeps ==
  ASSUME IInv, EndOfProcess PROVE IInv'
<1>1. TypeOK'
  BY IMFCacheAssumption DEF IInv, TypeOK, EndOfProcess
<1>2. ParsedIsFinite'
  BY FS_EmptySet DEF EndOfProcess, ParsedIsFinite
<1> QED  BY <1>1, <1>2 DEF EndOfProcess, IInv, FileIsOfOneDownload, CopyFillsFile, FetchedWhenChecked,
                           FileIsTrusted, ServesOneDownload

LEMMA NextInvariant == IInv /\ [IMFNext]_imfVars => IInv'
<1> SUFFICES ASSUME IInv, [IMFNext]_imfVars PROVE IInv'
  OBVIOUS
<1> USE DEF IInv
<1> DEFINE Rest == /\ FileIsOfOneDownload /\ CopyFillsFile /\ FetchedWhenChecked
                   /\ FileIsTrusted /\ ParsedIsFinite /\ ServesOneDownload
<1>1. CASE Boot
  <2>1. TypeOK'
    BY <1>1 DEF Boot, TypeOK
  <2>2. Rest'
    BY <1>1 DEF Boot, FileIsOfOneDownload, CopyFillsFile, FetchedWhenChecked, FileIsTrusted,
                ParsedIsFinite, ServesOneDownload
  <2> QED  BY <2>1, <2>2
<1>2. CASE UseCached
  <2>1. TypeOK'
    BY <1>2, IMFCacheAssumption DEF UseCached, TypeOK
  <2>2. Rest'
    BY <1>2, IMFCacheAssumption DEF UseCached, SameDay, TypeOK, FileIsOfOneDownload, CopyFillsFile, FetchedWhenChecked, FileIsTrusted,
                ParsedIsFinite, ServesOneDownload
  <2> QED  BY <2>1, <2>2
<1>3. CASE Get
  <2>1. TypeOK'
    BY <1>3, IMFCacheAssumption DEF Get, TypeOK
  <2>2. Rest'
    BY <1>3 DEF Get, FileIsOfOneDownload, CopyFillsFile, FetchedWhenChecked, FileIsTrusted,
                ParsedIsFinite, ServesOneDownload
  <2> QED  BY <2>1, <2>2
<1>4. CASE Create
  <2>1. /\ pc = "create" /\ pc' = "copy" /\ file' = [rows |-> <<>>, day |-> today] /\ whole' = FALSE
        /\ fetched \in 1..MaxDays /\ today \in 1..MaxDays /\ source' = fetched
        /\ UNCHANGED <<fetched, parsed, today, checked, loaded>>
    BY <1>4, IMFCacheAssumption DEF Create, TypeOK
  <2>2. TypeOK'
    <3>1. file'.rows \in Seq(Row) /\ file'.day \in 0..today
      BY <2>1, IMFCacheAssumption
    <3>2. whole' \in BOOLEAN /\ source' \in 0..today
      BY <2>1 DEF TypeOK
    <3> QED  BY <2>1, <3>1, <3>2 DEF TypeOK
  <2>3. FileIsOfOneDownload'
    <3>1. Len(Published[fetched]) \in Nat
      BY <2>1, RowsOfPublished
    <3> QED  BY <2>1, <3>1 DEF FileIsOfOneDownload
  <2> QED  BY <2>1, <2>2, <2>3
           DEF CopyFillsFile, FetchedWhenChecked, FileIsTrusted, ParsedIsFinite, ServesOneDownload
<1>5. CASE CopyRow
  BY <1>5, CopyRowKeeps
<1>6. CASE CopyDone
  BY <1>6, CopyDoneKeeps
<1>7. CASE Refused \/ CopyFails \/ Crash
  <2>1. EndOfProcess
    BY <1>7 DEF Refused, CopyFails, Crash
  <2> QED  BY <2>1, EndKeeps
<1>8. CASE Parse
  BY <1>8, ParseKeeps
<1>9. CASE NewDay
  <2>1. TypeOK'
    BY <1>9, IMFCacheAssumption DEF NewDay, TypeOK
  <2>2. Rest'
    BY <1>9 DEF NewDay, FileIsOfOneDownload, CopyFillsFile, FetchedWhenChecked, FileIsTrusted,
                ParsedIsFinite, ServesOneDownload
  <2> QED  BY <2>1, <2>2
<1>10. CASE UNCHANGED imfVars
  <2>1. TypeOK'
    BY <1>10 DEF imfVars, TypeOK
  <2>2. Rest'
    BY <1>10 DEF imfVars, FileIsOfOneDownload, CopyFillsFile, FetchedWhenChecked, FileIsTrusted,
                ParsedIsFinite, ServesOneDownload
  <2> QED  BY <2>1, <2>2
<1> QED  BY <1>1, <1>2, <1>3, <1>4, <1>5, <1>6, <1>7, <1>8, <1>9, <1>10 DEF IMFNext

-----------------------------------------------------------------------------
THEOREM CacheInvariant == IMFSpec => []IInv
<1> QED  BY InitInvariant, NextInvariant, PTL DEF IMFSpec

(* Type correctness of the cache and the boot. *)
THEOREM CacheTypeCorrect == IMFSpec => []TypeOK
<1>1. IInv => TypeOK
  BY DEF IInv
<1> QED  BY <1>1, CacheInvariant, PTL

(* ensureIMFCached (imf.go:145-198): through failed boots, crashes and     *)
(* midnights, what a boot serves is of one download, asked for on the day  *)
(* the boot looked at the cache or still arriving on that day; all of it,  *)
(* if the copy ran to its end.                                             *)
THEOREM CacheServesOneDownload == IMFSpec => []ServesOneDownload
<1>1. IInv => ServesOneDownload
  BY DEF IInv
<1> QED  BY <1>1, CacheInvariant, PTL

-----------------------------------------------------------------------------
(* The sorts of parseNiftyExpiries: Ascending lists a finite set of        *)
(* integers in order, each element once.                                   *)
Rank(S, s) == Cardinality({t \in S : t <= s})

LEMMA RankGrows ==
  ASSUME NEW S \in SUBSET Int, IsFiniteSet(S), NEW a \in S, NEW b \in S
  PROVE  /\ Rank(S, a) \in 1..Cardinality(S)
         /\ a < b <=> Rank(S, a) < Rank(S, b)
<1> DEFINE UpTo(s) == {t \in S : t <= s}
<1>1. ASSUME NEW s \in S PROVE IsFiniteSet(UpTo(s)) /\ Rank(S, s) \in 1..Cardinality(S)
  <2>1. UpTo(s) \in SUBSET S /\ s \in UpTo(s)
    OBVIOUS
  <2>2. IsFiniteSet(UpTo(s)) /\ Cardinality(UpTo(s)) <= Cardinality(S)
    BY <2>1, FS_Subset
  <2>3. Cardinality(UpTo(s)) \in Nat /\ Cardinality(S) \in Nat
    BY <2>2, FS_CardinalityType
  <2>4. Cardinality(UpTo(s)) # 0
    BY <2>1, <2>2, FS_EmptySet
  <2> QED  BY <2>2, <2>3, <2>4 DEF Rank
<1>2. ASSUME NEW x \in S, NEW y \in S, x < y PROVE Rank(S, x) < Rank(S, y)
  <2>1. UpTo(x) \in SUBSET UpTo(y) /\ y \in UpTo(y) /\ y \notin UpTo(x)
    <3>1. x \in Int /\ y \in Int /\ S \subseteq Int
      OBVIOUS
    <3>2. ASSUME NEW t \in S, t <= x PROVE t <= y
      BY <1>2, <3>1, <3>2
    <3>3. y <= y /\ ~(y <= x)
      BY <1>2, <3>1
    <3> QED  BY <3>2, <3>3, Zenon
  <2>2. /\ Cardinality(UpTo(x)) <= Cardinality(UpTo(y))
        /\ Cardinality(UpTo(y)) # Cardinality(UpTo(x))
    BY <1>1, <2>1, FS_Subset
  <2> QED  BY <1>1, <2>2 DEF Rank
<1>3. Rank(S, a) \in Int /\ Rank(S, b) \in Int /\ a \in Int /\ b \in Int
  <2>1. Cardinality(S) \in Nat
    BY FS_CardinalityType
  <2>2. Rank(S, a) \in 1..Cardinality(S) /\ Rank(S, b) \in 1..Cardinality(S)
    BY <1>1, Zenon
  <2>3. a \in Int /\ b \in Int
    OBVIOUS
  <2> HIDE DEF UpTo
  <2> QED  BY <2>1, <2>2, <2>3
<1>4. a < b \/ b < a \/ a = b
  BY <1>3
<1>5. a < b => Rank(S, a) < Rank(S, b)
  BY <1>2
<1>6. b < a => Rank(S, b) < Rank(S, a)
  BY <1>2
<1>7. Rank(S, a) \in 1..Cardinality(S)
  BY <1>1
<1> HIDE DEF UpTo
<1> QED  BY <1>3, <1>4, <1>5, <1>6, <1>7

LEMMA AscendingLists ==
  ASSUME NEW S \in SUBSET Int, IsFiniteSet(S)
  PROVE  /\ Ascending(S) \in Seq(Int) /\ Len(Ascending(S)) = Cardinality(S)
         /\ ToSet(Ascending(S)) = S
         /\ \A i, j \in 1..Cardinality(S) : i < j => Ascending(S)[i] < Ascending(S)[j]
<1> DEFINE n == Cardinality(S)
           rank == [s \in S |-> Rank(S, s)]
<1>1. n \in Nat
  BY FS_CardinalityType
<1>2. rank \in Surjection(S, 1..n)
  <2>1. rank \in Injection(S, 1..n)
    <3>1. rank \in [S -> 1..n]
      BY RankGrows
    <3>2. ASSUME NEW a \in S, NEW b \in S, rank[a] = rank[b] PROVE a = b
      <4>1. ~(a < b) /\ ~(b < a)
        <5>1. Rank(S, a) = Rank(S, b) /\ Rank(S, a) \in Int
          BY <1>1, <3>2, RankGrows
        <5> QED  BY <5>1, RankGrows
      <4> QED  BY <4>1
    <3> QED  BY <3>1, <3>2, Fun_IsInj
  <2>2. IsFiniteSet(1..n) /\ Cardinality(1..n) = n
    BY <1>1, FS_Interval
  <2> QED  BY <2>1, <2>2, FS_Injection
<1>3. ASSUME NEW i \in 1..n
      PROVE  Ascending(S)[i] \in S /\ Rank(S, Ascending(S)[i]) = i
  <2>1. \E s \in S : rank[s] = i
    BY <1>2 DEF Surjection
  <2> QED  BY <2>1 DEF Ascending, Rank
<1>4. ASSUME NEW i \in 1..n, NEW j \in 1..n, i < j
      PROVE  Ascending(S)[i] < Ascending(S)[j]
  BY <1>1, <1>3, <1>4, RankGrows
<1>5. ASSUME NEW s \in S PROVE Ascending(S)[Rank(S, s)] = s /\ Rank(S, s) \in 1..n
  <2>1. Rank(S, s) \in 1..n
    BY RankGrows
  <2>2. PICK t \in S : t = Ascending(S)[Rank(S, s)] /\ Rank(S, t) = Rank(S, s)
    BY <1>3, <2>1
  <2>3. ~(s < t) /\ ~(t < s)
    BY <1>1, <2>1, <2>2, RankGrows
  <2> QED  BY <2>1, <2>2, <2>3
<1>6. DOMAIN Ascending(S) = 1..n
  BY DEF Ascending
<1>7. Ascending(S) \in Seq(Int) /\ Len(Ascending(S)) = n
  <2>1. \A i \in 1..n : Ascending(S)[i] \in Int
    BY <1>3
  <2>2. Ascending(S) \in [1..n -> Int]
    BY <2>1 DEF Ascending
  <2> QED  BY <1>1, <2>2
<1>8. ToSet(Ascending(S)) = S
  BY <1>3, <1>5, <1>6 DEF ToSet
<1> QED  BY <1>4, <1>7, <1>8

(* GetNiftyExpiries and niftyStrikesByExpiry, whatever was parsed. *)
Days == {r.day : r \in parsed}
StrikesOf(expiry, type) == {r.strike : r \in {q \in parsed : q.day = expiry /\ q.type = type}}

LEMMA ListsAreAscending ==
  ASSUME TypeOK, ParsedIsFinite
  PROVE  /\ GetNiftyExpiries \in Seq(Int) /\ Len(GetNiftyExpiries) = Cardinality(Days)
         /\ ToSet(GetNiftyExpiries) = Days
         /\ \A i, j \in 1..Len(GetNiftyExpiries) :
              i < j => GetNiftyExpiries[i] < GetNiftyExpiries[j]
         /\ \A e, type : /\ NiftyStrikes(e, type) \in Seq(Int)
                         /\ ToSet(NiftyStrikes(e, type)) = StrikesOf(e, type)
                         /\ \A i, j \in 1..Len(NiftyStrikes(e, type)) :
                              i < j => NiftyStrikes(e, type)[i] < NiftyStrikes(e, type)[j]
<1>1. IsFiniteSet(parsed) /\ parsed \subseteq Row
  BY DEF TypeOK, ParsedIsFinite
<1>2. Days \in SUBSET Int /\ IsFiniteSet(Days)
  <2>1. [r \in parsed |-> r.day] \in Surjection(parsed, Days)
    BY DEF Surjection, Days
  <2>2. Days \in SUBSET Int
    BY <1>1 DEF Days, Row
  <2> QED  BY <1>1, <2>1, <2>2, FS_Surjection
<1>3. ASSUME NEW e, NEW type
      PROVE  StrikesOf(e, type) \in SUBSET Int /\ IsFiniteSet(StrikesOf(e, type))
  <2> DEFINE those == {q \in parsed : q.day = e /\ q.type = type}
  <2>1. IsFiniteSet(those)
    BY <1>1, FS_Subset
  <2>2. [r \in those |-> r.strike] \in Surjection(those, StrikesOf(e, type))
    BY DEF Surjection, StrikesOf
  <2>3. StrikesOf(e, type) \in SUBSET Int
    BY <1>1 DEF StrikesOf, Row
  <2> QED  BY <2>1, <2>2, <2>3, FS_Surjection
<1>4. GetNiftyExpiries = Ascending(Days)
  BY DEF GetNiftyExpiries, Days
<1>5. ASSUME NEW S \in SUBSET Int, IsFiniteSet(S)
      PROVE  /\ Ascending(S) \in Seq(Int) /\ Len(Ascending(S)) = Cardinality(S)
             /\ ToSet(Ascending(S)) = S
             /\ \A i, j \in 1..Len(Ascending(S)) : i < j => Ascending(S)[i] < Ascending(S)[j]
  BY <1>5, AscendingLists
<1>6. ASSUME NEW e, NEW type
      PROVE  /\ NiftyStrikes(e, type) \in Seq(Int)
             /\ ToSet(NiftyStrikes(e, type)) = StrikesOf(e, type)
             /\ \A i, j \in 1..Len(NiftyStrikes(e, type)) :
                  i < j => NiftyStrikes(e, type)[i] < NiftyStrikes(e, type)[j]
  <2>1. NiftyStrikes(e, type) = Ascending(StrikesOf(e, type))
    BY DEF NiftyStrikes, StrikesOf
  <2> QED  BY <1>3, <1>5, <2>1
<1> QED  BY <1>2, <1>4, <1>5, <1>6

(* The lists of a boot: exactly what was parsed, in ascending order.       *)
Lists(list, S) ==
  /\ list \in Seq(Int)
  /\ ToSet(list) = S
  /\ \A i, j \in 1..Len(list) : i < j => list[i] < list[j]

ListsWhatWasParsed ==
  /\ Lists(GetNiftyExpiries, Days)
  /\ \A expiry, type : Lists(NiftyStrikes(expiry, type), StrikesOf(expiry, type))

(* calculateSymbols walks the expiries in order, and FindNearestStrike     *)
(* (imf.go:90) bisects the strikes: both may, after any download, cut off  *)
(* or whole, any crash and any reparse.                                    *)
THEOREM BootListsAreSorted == IMFSpec => []ListsWhatWasParsed
<1>1. IInv => ListsWhatWasParsed
  BY ListsAreAscending DEF IInv, ListsWhatWasParsed, Lists
<1> QED  BY <1>1, CacheInvariant, PTL
=============================================================================
