--------------------------- MODULE License_proofs ---------------------------
(***************************************************************************)
(* What holds of License for every set of licenses, keys, directories and  *)
(* processes: the types, which license a status reports, what an           *)
(* installation leaves; and, for every date, that the hours the code       *)
(* computes are those the calendar counts, so that a license is valid      *)
(* until its day and does not come back after it.                          *)
(***************************************************************************)
EXTENDS License, FiniteSetTheorems, WellFoundedInduction, TLAPS

-----------------------------------------------------------------------------
(* The strengthening. What a call knows of the files and keys holds as     *)
(* long as nobody else writes: that the places it has passed have no       *)
(* intact license, that the license at hand is still at its place, that    *)
(* the file it has opened is still empty.                                  *)

SignedBy(lic) == [kid |-> lic.kid, key |-> lic.key]
MaySet == {lic \in License : MayBeIntact(lic)}
IntactSet == {lic \in License : IsIntact(lic)}

Writing == {"open etc", "write etc", "open home", "write home"}
JobType ==
    [pc : {"idle", "search", "check"} \union Writing, kind : {"status", "install"},
     lic : License \union {Absent}, at : Nat, now : Nat, date : Date]

JobTyped(j, paths) ==
    /\ j \in JobType
    /\ j.at \in 1 .. Len(paths) + 1
    /\ j.pc \notin {"idle", "search"} => j.lic \in License
    /\ j.pc = "search" => j.kind = "status"
    /\ j.pc = "check" /\ j.kind = "status" => j.at <= Len(paths)
    /\ j.pc \in Writing => j.kind = "install"

ResultTyped(r) ==
    /\ r.outcome \in Outcomes
    /\ r.outcome \in {"valid", "grace_period", "expired"} => r.lic \in License /\ r.lic.expires # Odd

Typed ==
    /\ env \in Envs
    /\ files \in [Place -> License \union {Absent, Torn}]
    /\ keydirs \in [KeysDir -> SUBSET KeyFile]
    /\ ever \subseteq KeyFile
    /\ today \in Date /\ clock \in Nat
    /\ job = [p \in Proc |-> job[p]] /\ result = [p \in Proc |-> result[p]]
    /\ quiet \in [Proc -> BOOLEAN]
    /\ \A p \in Proc : JobTyped(job[p], SearchPaths(env)) /\ ResultTyped(result[p])
    /\ calls \in 0 .. MaxCalls /\ changes \in 0 .. MaxChanges

FilesAuthentic ==
    \A place \in {"etc", "home", "profile"} :
        files[place] \in License => SignedBy(files[place]) \in ever

Authentic ==
    /\ FilesAuthentic
    /\ [kid |-> RootKid, key |-> RootKey] \in ever
    /\ \A d \in KeysDir : keydirs[d] \subseteq ever
    /\ \A p \in Proc : job[p].pc \in Writing => SignedBy(job[p].lic) \in ever

Names(s) == {s[i] : i \in 1 .. Len(s)}

First(i, fs, paths, may, intact) ==
    /\ fs[paths[i]] \in may
    /\ \A k \in 1 .. i - 1 : fs[paths[k]] \notin intact

JobHolds(j, e, fs, paths, may, intact) ==
    /\ j.pc \in {"search", "check"} /\ j.kind = "status" =>
          \A k \in 1 .. j.at - 1 : fs[paths[k]] \notin intact
    /\ j.pc = "check" /\ j.kind = "status" => fs[paths[j.at]] = j.lic
    /\ j.pc \in Writing => j.lic \in may
    /\ j.pc = "write etc" => fs["etc"] = Torn
    /\ j.pc = "write home" => fs[Fallback(e)] = Torn

ResultHolds(r, fs, paths, may, intact) ==
    /\ r.outcome \in {"valid", "grace_period", "expired"} =>
          \E i \in 1 .. Len(paths) : First(i, fs, paths, may, intact) /\ fs[paths[i]] = r.lic
    /\ r.outcome = "unlicensed" =>
          \/ \A i \in 1 .. Len(paths) : fs[paths[i]] \notin intact
          \/ \E i \in 1 .. Len(paths) :
                First(i, fs, paths, may, intact) /\ fs[paths[i]].expires = Odd
    /\ r.outcome = "installed" =>
          /\ fs[r.place] = r.lic /\ r.lic \in may
          /\ r.place \in Names(paths)

Known(p) ==
    quiet[p] =>
        /\ JobHolds(job[p], env, files, SearchPaths(env), MaySet, IntactSet)
        /\ job[p].pc = "idle" =>
              ResultHolds(result[p], files, SearchPaths(env), MaySet, IntactSet)

IInv == Typed /\ Authentic /\ \A p \in Proc : Known(p)

-----------------------------------------------------------------------------
(* The calendar: the parser counts as it does, year by year and month by   *)
(* month.                                                                  *)

DaysIn(year) == IF IsLeapYear(year) THEN 366 ELSE 365

LEMMA LeapYears ==
    ASSUME NEW year \in Int
    PROVE  /\ DaysOf(year, 2) = IF IsLeapYear(year) THEN 29 ELSE 28
           /\ IsLeapYear(year) \in BOOLEAN
BY DEF DaysOf, IsLeapYear

\* Whole years: each has 365 days, and one more when it is a leap year.
LEMMA OneYearMore ==
    ASSUME NEW year \in Year
    PROVE  /\ YearsDays(1970) = 0
           /\ YearsDays(year) \in Nat
           /\ YearsDays(year + 1) = YearsDays(year) + DaysIn(year)
<1> year \in Nat /\ year >= 1970
  BY DEF Year
<1> DEFINE Leap(y) == {z \in 1970 .. y - 1 : IsLeapYear(z)}
<1>1. ASSUME NEW y \in Nat
      PROVE  IsFiniteSet(Leap(y)) /\ Cardinality(Leap(y)) \in Nat
  <2>1. IsFiniteSet(1970 .. y - 1)
    BY FS_Interval
  <2>2. Leap(y) \in SUBSET (1970 .. y - 1)
    OBVIOUS
  <2> HIDE DEF Leap
  <2> QED
    BY <2>1, <2>2, FS_Subset, FS_CardinalityType
<1>2. Leap(1970) = {}
  OBVIOUS
<1>3. Leap(year + 1) = IF IsLeapYear(year) THEN Leap(year) \union {year} ELSE Leap(year)
  <2>1. 1970 .. (year + 1) - 1 = (1970 .. year - 1) \union {year}
    OBVIOUS
  <2> QED
    BY <2>1
<1>4. year \notin Leap(year)
  OBVIOUS
<1> HIDE DEF Leap
<1>5. Cardinality(Leap(year + 1)) = Cardinality(Leap(year)) + (IF IsLeapYear(year) THEN 1 ELSE 0)
  <2>1. CASE IsLeapYear(year)
    <3>1. IsFiniteSet(Leap(year))
      BY <1>1
    <3>2. Cardinality(Leap(year) \union {year}) = Cardinality(Leap(year)) + 1
      BY ONLY <3>1, <1>4, FS_AddElement
    <3> QED
      BY <2>1, <3>2, <1>3
  <2>2. CASE ~IsLeapYear(year)
    BY <2>2, <1>1, <1>3
  <2> QED
    BY <2>1, <2>2
<1>6. \A y \in Nat : YearsDays(y) = 365 * (y - 1970) + Cardinality(Leap(y))
  BY DEF YearsDays, Leap
<1>7. Cardinality(Leap(1970)) = 0
  BY <1>2, FS_EmptySet
<1> QED
  BY <1>1, <1>5, <1>6, <1>7 DEF DaysIn

LEMMA LaterYear ==
    ASSUME NEW y \in Year, NEW z \in Year, y < z
    PROVE  YearsDays(z) >= YearsDays(y) + DaysIn(y)
<1> /\ y \in Nat /\ z \in Nat /\ 1970 <= y /\ y + 1 \in Nat
  BY DEF Year
<1> DEFINE Leap(x) == {w \in 1970 .. x - 1 : IsLeapYear(w)}
<1>1. ASSUME NEW x \in Nat
      PROVE  IsFiniteSet(Leap(x))
  <2>1. IsFiniteSet(1970 .. x - 1)
    BY FS_Interval
  <2>2. Leap(x) \in SUBSET (1970 .. x - 1)
    OBVIOUS
  <2> HIDE DEF Leap
  <2> QED
    BY <2>1, <2>2, FS_Subset
<1>2. Leap(y + 1) \in SUBSET Leap(z)
  OBVIOUS
<1>3. Cardinality(Leap(y + 1)) <= Cardinality(Leap(z))
  <2> HIDE DEF Leap
  <2> QED
    BY <1>1, <1>2, FS_Subset
<1>4. Cardinality(Leap(z)) \in Nat /\ Cardinality(Leap(y + 1)) \in Nat
  <2> HIDE DEF Leap
  <2> QED
    BY <1>1, FS_CardinalityType
<1>5. /\ YearsDays(z) = 365 * (z - 1970) + Cardinality(Leap(z))
      /\ YearsDays(y + 1) = 365 * (y + 1 - 1970) + Cardinality(Leap(y + 1))
  BY DEF YearsDays, Leap
<1> HIDE DEF Leap
<1>6. YearsDays(z) >= YearsDays(y + 1)
  BY <1>3, <1>4, <1>5
<1>7. YearsDays(y) \in Nat /\ YearsDays(z) \in Int
  BY <1>4, <1>5, OneYearMore
<1>8. YearsDays(y + 1) = YearsDays(y) + DaysIn(y)
  BY OneYearMore
<1> QED
  BY <1>6, <1>7, <1>8

\* The loop over the months before the given one, unrolled.
LEMMA MonthByMonth ==
    ASSUME NEW year \in Int
    PROVE  LET leap == IF IsLeapYear(year) THEN 1 ELSE 0
           IN  /\ MonthsDays(year, 1) = 0 /\ MonthsDays(year, 2) = 31
               /\ MonthsDays(year, 3) = 59 + leap /\ MonthsDays(year, 4) = 90 + leap
               /\ MonthsDays(year, 5) = 120 + leap /\ MonthsDays(year, 6) = 151 + leap
               /\ MonthsDays(year, 7) = 181 + leap /\ MonthsDays(year, 8) = 212 + leap
               /\ MonthsDays(year, 9) = 243 + leap /\ MonthsDays(year, 10) = 273 + leap
               /\ MonthsDays(year, 11) = 304 + leap /\ MonthsDays(year, 12) = 334 + leap
<1> DEFINE leap == IF IsLeapYear(year) THEN 1 ELSE 0
           Sum(f) == f = [m \in 1 .. 12 |-> IF m = 1 THEN 0 ELSE f[m - 1] + MonthDays(year)[m - 1]]
           sum == CHOOSE f : Sum(f)
           table == <<0, 31, 59 + leap, 90 + leap, 120 + leap, 151 + leap, 181 + leap,
                      212 + leap, 243 + leap, 273 + leap, 304 + leap, 334 + leap>>
<1>1. /\ MonthDays(year)[1] = 31 /\ MonthDays(year)[2] = 28 + leap /\ MonthDays(year)[3] = 31
      /\ MonthDays(year)[4] = 30 /\ MonthDays(year)[5] = 31 /\ MonthDays(year)[6] = 30
      /\ MonthDays(year)[7] = 31 /\ MonthDays(year)[8] = 31 /\ MonthDays(year)[9] = 30
      /\ MonthDays(year)[10] = 31 /\ MonthDays(year)[11] = 30 /\ MonthDays(year)[12] = 31
  BY DEF MonthDays
<1>2. leap \in {0, 1}
  OBVIOUS
<1> HIDE DEF leap
<1>3. ASSUME NEW m \in 1 .. 12
      PROVE  table[m] = IF m = 1 THEN 0 ELSE table[m - 1] + MonthDays(year)[m - 1]
  BY <1>1, <1>2
<1>4. DOMAIN table = 1 .. 12 /\ table = [m \in 1 .. 12 |-> table[m]]
  OBVIOUS
<1>5. Sum(table)
  <2> HIDE DEF table
  <2> QED
    BY <1>3, <1>4
<1>6. Sum(sum)
  <2> HIDE DEF table, Sum
  <2> QED
    BY <1>5
<1>7. \A m \in 1 .. 12 : sum[m] = IF m = 1 THEN 0 ELSE sum[m - 1] + MonthDays(year)[m - 1]
  <2> HIDE DEF sum
  <2> QED
    BY <1>6
<1>8. \A m \in 1 .. 12 : MonthsDays(year, m) = sum[m]
  BY DEF MonthsDays
<1> HIDE DEF sum, Sum
<1>9. /\ sum[1] = 0 /\ sum[2] = 31 /\ sum[3] = 59 + leap /\ sum[4] = 90 + leap
      /\ sum[5] = 120 + leap /\ sum[6] = 151 + leap /\ sum[7] = 181 + leap
  <2>1. sum[1] = 0 /\ sum[2] = sum[1] + MonthDays(year)[1]
        /\ sum[3] = sum[2] + MonthDays(year)[2]
    BY <1>7
  <2>2. sum[4] = sum[3] + MonthDays(year)[3] /\ sum[5] = sum[4] + MonthDays(year)[4]
    BY <1>7
  <2>3. sum[6] = sum[5] + MonthDays(year)[5] /\ sum[7] = sum[6] + MonthDays(year)[6]
    BY <1>7
  <2> QED
    BY <2>1, <2>2, <2>3, <1>1, <1>2
<1>10. /\ sum[8] = 212 + leap /\ sum[9] = 243 + leap /\ sum[10] = 273 + leap
       /\ sum[11] = 304 + leap /\ sum[12] = 334 + leap
  <2>1. /\ sum[8] = sum[7] + 31 /\ sum[9] = sum[8] + 31 /\ sum[10] = sum[9] + 30
        /\ sum[11] = sum[10] + 31 /\ sum[12] = sum[11] + 30
    BY <1>1, <1>7
  <2> QED
    BY <2>1, <1>2, <1>9
<1> QED
  BY <1>8, <1>9, <1>10 DEF leap

\* The days before a month and the days of it, in numbers.
LEMMA YearInNumbers ==
    ASSUME NEW year \in Year
    PROVE  \E leap \in {0, 1} :
              /\ DaysIn(year) = 365 + leap
              /\ MonthsDays(year, 1) = 0 /\ DaysOf(year, 1) = 31
              /\ MonthsDays(year, 2) = 31 /\ DaysOf(year, 2) = 28 + leap
              /\ MonthsDays(year, 3) = 59 + leap /\ DaysOf(year, 3) = 31
              /\ MonthsDays(year, 4) = 90 + leap /\ DaysOf(year, 4) = 30
              /\ MonthsDays(year, 5) = 120 + leap /\ DaysOf(year, 5) = 31
              /\ MonthsDays(year, 6) = 151 + leap /\ DaysOf(year, 6) = 30
              /\ MonthsDays(year, 7) = 181 + leap /\ DaysOf(year, 7) = 31
              /\ MonthsDays(year, 8) = 212 + leap /\ DaysOf(year, 8) = 31
              /\ MonthsDays(year, 9) = 243 + leap /\ DaysOf(year, 9) = 30
              /\ MonthsDays(year, 10) = 273 + leap /\ DaysOf(year, 10) = 31
              /\ MonthsDays(year, 11) = 304 + leap /\ DaysOf(year, 11) = 30
              /\ MonthsDays(year, 12) = 334 + leap /\ DaysOf(year, 12) = 31
<1> DEFINE leap == IF IsLeapYear(year) THEN 1 ELSE 0
<1>1. leap \in {0, 1} /\ DaysIn(year) = 365 + leap
  BY DEF DaysIn
<1>2. DaysOf(year, 2) = 28 + leap
  BY LeapYears DEF Year
<1>3. /\ DaysOf(year, 1) = 31 /\ DaysOf(year, 3) = 31 /\ DaysOf(year, 4) = 30
      /\ DaysOf(year, 5) = 31 /\ DaysOf(year, 6) = 30 /\ DaysOf(year, 7) = 31
      /\ DaysOf(year, 8) = 31 /\ DaysOf(year, 9) = 30 /\ DaysOf(year, 10) = 31
      /\ DaysOf(year, 11) = 30 /\ DaysOf(year, 12) = 31
  BY DEF DaysOf
<1>4. /\ MonthsDays(year, 1) = 0 /\ MonthsDays(year, 2) = 31
      /\ MonthsDays(year, 3) = 59 + leap /\ MonthsDays(year, 4) = 90 + leap
      /\ MonthsDays(year, 5) = 120 + leap /\ MonthsDays(year, 6) = 151 + leap
      /\ MonthsDays(year, 7) = 181 + leap /\ MonthsDays(year, 8) = 212 + leap
      /\ MonthsDays(year, 9) = 243 + leap /\ MonthsDays(year, 10) = 273 + leap
      /\ MonthsDays(year, 11) = 304 + leap /\ MonthsDays(year, 12) = 334 + leap
  BY MonthByMonth DEF Year
<1> HIDE DEF leap
<1> QED
  BY <1>1, <1>2, <1>3, <1>4

LEMMA TwelveMonths ==
    ASSUME NEW m \in Month
    PROVE  \/ m = 1 \/ m = 2 \/ m = 3 \/ m = 4 \/ m = 5 \/ m = 6
           \/ m = 7 \/ m = 8 \/ m = 9 \/ m = 10 \/ m = 11 \/ m = 12
BY DEF Month

\* A month ends where the next begins, and December with the year.
LEMMA MonthFits ==
    ASSUME NEW year \in Year, NEW m \in Month
    PROVE  /\ MonthsDays(year, m) \in Nat /\ DaysOf(year, m) \in Day
           /\ m < 12 => MonthsDays(year, m + 1) = MonthsDays(year, m) + DaysOf(year, m)
           /\ MonthsDays(year, m) + DaysOf(year, m) <= DaysIn(year)
           /\ m = 12 => MonthsDays(year, m) + DaysOf(year, m) = DaysIn(year)
           /\ DaysIn(year) \in Nat
BY YearInNumbers, TwelveMonths DEF Day

LEMMA LaterMonth ==
    ASSUME NEW year \in Year, NEW m \in Month, NEW n \in Month, m < n
    PROVE  MonthsDays(year, n) >= MonthsDays(year, m) + DaysOf(year, m)
<1>1. \/ n = 1 \/ n = 2 \/ n = 3 \/ n = 4 \/ n = 5 \/ n = 6
      \/ n = 7 \/ n = 8 \/ n = 9 \/ n = 10 \/ n = 11 \/ n = 12
  BY TwelveMonths
<1>2. \/ m = 1 \/ m = 2 \/ m = 3 \/ m = 4 \/ m = 5 \/ m = 6
      \/ m = 7 \/ m = 8 \/ m = 9 \/ m = 10 \/ m = 11 \/ m = 12
  BY TwelveMonths
<1> QED
  BY <1>1, <1>2, YearInNumbers

LEMMA DateFields ==
    ASSUME NEW t \in Date
    PROVE  /\ t.year \in Year /\ t.month \in Month /\ t.day \in Day
           /\ t.hour \in Hour /\ t.day <= DaysOf(t.year, t.month)
           /\ t = DateAt(t.year, t.month, t.day, t.hour)
           /\ YearsDays(t.year) \in Nat /\ MonthsDays(t.year, t.month) \in Nat
           /\ DaysOf(t.year, t.month) \in Day
           /\ Hours(t) \in Nat
<1>1. /\ t.year \in Year /\ t.month \in Month /\ t.day \in Day
      /\ t.hour \in Hour /\ t.day <= DaysOf(t.year, t.month)
      /\ t = DateAt(t.year, t.month, t.day, t.hour)
  BY DEF Date, DateAt
<1>2. YearsDays(t.year) \in Nat /\ MonthsDays(t.year, t.month) \in Nat
  BY <1>1, OneYearMore, MonthFits
<1>3. DaysOf(t.year, t.month) \in Day
  BY <1>1, MonthFits
<1>4. Hours(t) \in Nat
  BY <1>1, <1>2 DEF Hours, Day, Hour
<1> QED
  BY <1>1, <1>2, <1>3, <1>4

\* The hours of a date, with the parts of the sum named.
YearOf(t) == YearsDays(t.year)
MonthOf(t) == MonthsDays(t.year, t.month)
LengthOf(t) == DaysOf(t.year, t.month)
DayOf(t) == YearOf(t) + MonthOf(t) + t.day - 1

LEMMA HoursOfDate ==
    ASSUME NEW t \in Date
    PROVE  /\ YearOf(t) \in Nat /\ MonthOf(t) \in Nat /\ LengthOf(t) \in Day
           /\ t.year \in Year /\ t.month \in Month /\ t.day \in Day /\ t.hour \in Hour
           /\ t.day <= LengthOf(t)
           /\ MonthOf(t) + LengthOf(t) <= DaysIn(t.year) /\ DaysIn(t.year) \in Nat
           /\ DayOf(t) \in Nat /\ Hours(t) = 24 * DayOf(t) + t.hour
<1>1. /\ YearOf(t) \in Nat /\ MonthOf(t) \in Nat /\ LengthOf(t) \in Day
      /\ t.year \in Year /\ t.month \in Month /\ t.day \in Day /\ t.hour \in Hour
      /\ t.day <= LengthOf(t)
  BY DateFields DEF YearOf, MonthOf, LengthOf
<1>2. /\ MonthsDays(t.year, t.month) + DaysOf(t.year, t.month) <= DaysIn(t.year)
      /\ DaysIn(t.year) \in Nat
  BY <1>1, MonthFits
<1>3. DayOf(t) \in Nat /\ Hours(t) = 24 * DayOf(t) + t.hour
  BY <1>1 DEF Hours, YearOf, MonthOf, DayOf, Day
<1> QED
  BY <1>1, <1>2, <1>3 DEF MonthOf, LengthOf

LEMMA HoursOfDays ==
    ASSUME NEW d \in Nat, NEW e \in Nat, NEW h \in Hour, NEW k \in Hour,
           d < e \/ (d = e /\ h < k)
    PROVE  24 * d + h < 24 * e + k
BY DEF Hour

\* The parser keeps the order of dates...
LEMMA EarlierHasFewer ==
    ASSUME NEW s \in Date, NEW t \in Date, Before(s, t)
    PROVE  Hours(s) < Hours(t)
<1>1. /\ YearOf(s) \in Nat /\ MonthOf(s) \in Nat /\ LengthOf(s) \in Day
      /\ s.year \in Year /\ s.month \in Month /\ s.day \in Day /\ s.hour \in Hour
      /\ s.day <= LengthOf(s)
      /\ MonthOf(s) + LengthOf(s) <= DaysIn(s.year) /\ DaysIn(s.year) \in Nat
      /\ DayOf(s) \in Nat /\ Hours(s) = 24 * DayOf(s) + s.hour
  BY HoursOfDate
<1>2. /\ YearOf(t) \in Nat /\ MonthOf(t) \in Nat
      /\ t.year \in Year /\ t.month \in Month /\ t.day \in Day /\ t.hour \in Hour
      /\ DayOf(t) \in Nat /\ Hours(t) = 24 * DayOf(t) + t.hour
  BY HoursOfDate
<1>3. SUFFICES DayOf(s) < DayOf(t) \/ (DayOf(s) = DayOf(t) /\ s.hour < t.hour)
  <2>1. 24 * DayOf(s) + s.hour < 24 * DayOf(t) + t.hour
    BY <1>1, <1>2, <1>3, HoursOfDays
  <2> QED
    BY <1>1, <1>2, <2>1
<1>4. CASE s.year < t.year
  <2>1. YearOf(t) >= YearOf(s) + DaysIn(s.year)
    BY <1>1, <1>2, <1>4, LaterYear, DateFields DEF YearOf
  <2> QED
    BY <1>1, <1>2, <2>1 DEF DayOf, Year, Month, Day, Hour
<1>5. CASE s.year = t.year /\ s.month < t.month
  <2>1. MonthOf(t) >= MonthOf(s) + LengthOf(s)
    BY <1>1, <1>2, <1>5, LaterMonth DEF MonthOf, LengthOf
  <2>2. YearOf(t) = YearOf(s)
    BY <1>5 DEF YearOf
  <2> QED
    BY <1>1, <1>2, <2>1, <2>2 DEF DayOf, Year, Month, Day, Hour
<1>6. CASE s.year = t.year /\ s.month = t.month
  <2>1. YearOf(t) = YearOf(s) /\ MonthOf(t) = MonthOf(s)
    BY <1>6 DEF YearOf, MonthOf
  <2>2. s.day < t.day \/ (s.day = t.day /\ s.hour < t.hour)
    BY <1>1, <1>2, <1>6 DEF Before, Year, Month, Day, Hour
  <2> QED
    BY <1>1, <1>2, <2>1, <2>2 DEF DayOf, Year, Month, Day, Hour
<1> QED
  BY <1>4, <1>5, <1>6 DEF Before, Year, Month, Day, Hour

LEMMA Comparable ==
    ASSUME NEW s \in Date, NEW t \in Date
    PROVE  Before(s, t) \/ Before(t, s) \/ s = t
<1>1. /\ s.year \in Year /\ s.month \in Month /\ s.day \in Day /\ s.hour \in Hour
      /\ s = DateAt(s.year, s.month, s.day, s.hour)
  BY DateFields
<1>2. /\ t.year \in Year /\ t.month \in Month /\ t.day \in Day /\ t.hour \in Hour
      /\ t = DateAt(t.year, t.month, t.day, t.hour)
  BY DateFields
<1> QED
  BY <1>1, <1>2 DEF Before, Year, Month, Day, Hour

\* ... and tells any two apart.
LEMMA OrderOfDates ==
    ASSUME NEW s \in Date, NEW t \in Date
    PROVE  /\ Before(s, t) <=> Hours(s) < Hours(t)
           /\ Hours(s) = Hours(t) => s = t
<1>1. Hours(s) \in Nat /\ Hours(t) \in Nat
  BY DateFields
<1> QED
  BY <1>1, EarlierHasFewer, Comparable

LEMMA MadeDate ==
    ASSUME NEW y \in Year, NEW m \in Month, NEW d \in Day, NEW h \in Hour, d <= DaysOf(y, m)
    PROVE  /\ DateAt(y, m, d, h) \in Date
           /\ Hours(DateAt(y, m, d, h)) = 24 * (YearsDays(y) + MonthsDays(y, m) + d - 1) + h
BY DEF DateAt, Date, Hours

\* Half a day along the calendar is twelve hours more.
LEMMA HalfDay ==
    ASSUME NEW t \in Date
    PROVE  HalfDayLater(t) \in Date /\ Hours(HalfDayLater(t)) = Hours(t) + 12
<1>1. /\ t.year \in Year /\ t.month \in Month /\ t.day \in Day
      /\ t.hour \in Hour /\ t.day <= DaysOf(t.year, t.month)
      /\ DaysOf(t.year, t.month) \in Day
  BY DateFields
<1>2. /\ YearOf(t) \in Nat /\ MonthOf(t) \in Nat /\ DayOf(t) \in Nat
      /\ Hours(t) = 24 * DayOf(t) + t.hour
      /\ DayOf(t) = YearOf(t) + MonthOf(t) + t.day - 1
  BY HoursOfDate DEF DayOf
<1>3. ASSUME NEW y \in Year, NEW m \in Month, NEW d \in Day, NEW h \in Hour,
             d <= DaysOf(y, m), HalfDayLater(t) = DateAt(y, m, d, h),
             24 * (YearsDays(y) + MonthsDays(y, m) + d - 1) + h = Hours(t) + 12
      PROVE  HalfDayLater(t) \in Date /\ Hours(HalfDayLater(t)) = Hours(t) + 12
  <2>1. /\ DateAt(y, m, d, h) \in Date
        /\ Hours(DateAt(y, m, d, h)) = 24 * (YearsDays(y) + MonthsDays(y, m) + d - 1) + h
    BY <1>3, MadeDate
  <2> QED
    BY <1>3, <2>1, Zenon
<1>4. CASE t.hour < 12
  <2> DEFINE h == t.hour + 12
  <2>1. HalfDayLater(t) = DateAt(t.year, t.month, t.day, h)
    BY <1>1, <1>4 DEF HalfDayLater, Hour
  <2>2. h \in Hour
    BY <1>1, <1>4 DEF Year, Month, Day, Hour
  <2>3. 24 * (YearsDays(t.year) + MonthsDays(t.year, t.month) + t.day - 1) + h = Hours(t) + 12
    BY <1>1, <1>2 DEF Day, Hour, YearOf, MonthOf
  <2> HIDE DEF h
  <2> QED
    BY <1>1, <1>3, <2>1, <2>2, <2>3
<1>5. CASE t.hour >= 12 /\ t.day < DaysOf(t.year, t.month)
  <2> DEFINE h == t.hour - 12
             d == t.day + 1
  <2>1. HalfDayLater(t) = DateAt(t.year, t.month, d, h)
    BY <1>1, <1>5 DEF HalfDayLater, Hour, Day
  <2>2. h \in Hour /\ d \in Day /\ d <= DaysOf(t.year, t.month)
    BY <1>1, <1>5 DEF Year, Month, Day, Hour
  <2>3. 24 * (YearsDays(t.year) + MonthsDays(t.year, t.month) + d - 1) + h = Hours(t) + 12
    <3>1. t.day \in Int /\ t.hour \in Int
      BY <1>1 DEF Day, Hour
    <3>2. YearsDays(t.year) + MonthsDays(t.year, t.month) + d - 1 = DayOf(t) + 1
      BY <1>2, <3>1 DEF YearOf, MonthOf
    <3>3. DayOf(t) \in Int /\ h = t.hour - 12
      BY <1>2
    <3> HIDE DEF h, d
    <3> QED
      BY <1>2, <3>1, <3>2, <3>3
  <2> HIDE DEF h, d
  <2> QED
    BY <1>1, <1>3, <2>1, <2>2, <2>3
<1>6. CASE t.hour >= 12 /\ t.day = DaysOf(t.year, t.month) /\ t.month < 12
  <2> DEFINE h == t.hour - 12
             m == t.month + 1
  <2>1. HalfDayLater(t) = DateAt(t.year, m, 1, h)
    BY <1>1, <1>6 DEF HalfDayLater, Hour, Day, Month
  <2>2. h \in Hour /\ m \in Month /\ 1 \in Day
    BY <1>1, <1>6 DEF Year, Month, Day, Hour
  <2>3. MonthsDays(t.year, m) = MonthOf(t) + t.day
    <3>1. MonthsDays(t.year, m) = MonthsDays(t.year, t.month) + DaysOf(t.year, t.month)
      BY <1>1, <1>6, MonthFits
    <3> QED
      BY <3>1, <1>6 DEF MonthOf
  <2>4. 24 * (YearsDays(t.year) + MonthsDays(t.year, m) + 1 - 1) + h = Hours(t) + 12
    <3>1. t.day \in Int /\ t.hour \in Int
      BY <1>1 DEF Day, Hour
    <3>2. YearsDays(t.year) + MonthsDays(t.year, m) + 1 - 1 = DayOf(t) + 1
      BY <1>2, <2>3, <3>1 DEF YearOf
    <3>3. DayOf(t) \in Int /\ h = t.hour - 12
      BY <1>2
    <3> HIDE DEF h, m
    <3> QED
      BY <1>2, <3>1, <3>2, <3>3
  <2> HIDE DEF h, m
  <2>5. DaysOf(t.year, m) \in Day
    BY <1>1, <2>2, MonthFits
  <2>6. 1 <= DaysOf(t.year, m)
    BY <2>5 DEF Day
  <2> QED
    BY <1>1, <1>3, <2>1, <2>2, <2>4, <2>6
<1>7. CASE t.hour >= 12 /\ t.day = DaysOf(t.year, t.month) /\ t.month = 12
  <2> DEFINE h == t.hour - 12
             y == t.year + 1
  <2>1. HalfDayLater(t) = DateAt(y, 1, 1, h)
    BY <1>1, <1>7 DEF HalfDayLater, Hour, Day, Month
  <2>2. h \in Hour /\ y \in Year /\ 1 \in Day /\ 1 \in Month
    BY <1>1, <1>7 DEF Year, Month, Day, Hour
  <2>3. DaysIn(t.year) \in Nat /\ MonthOf(t) + t.day = DaysIn(t.year)
    <3>1. /\ MonthsDays(t.year, t.month) + DaysOf(t.year, t.month) = DaysIn(t.year)
          /\ DaysIn(t.year) \in Nat
      BY <1>1, <1>7, MonthFits
    <3> QED
      BY <3>1, <1>7 DEF MonthOf
  <2>4. YearsDays(y) = YearOf(t) + DaysIn(t.year)
    BY <1>1, OneYearMore DEF YearOf
  <2> HIDE DEF y
  <2>5. MonthsDays(y, 1) = 0 /\ DaysOf(y, 1) = 31
    BY <2>2, YearInNumbers
  <2>6. 24 * (YearsDays(y) + MonthsDays(y, 1) + 1 - 1) + h = Hours(t) + 12
    BY <1>1, <1>2, <2>3, <2>4, <2>5 DEF Day, Hour
  <2>7. 1 <= DaysOf(y, 1)
    BY <2>5
  <2> HIDE DEF h
  <2> QED
    BY <1>3, <2>1, <2>2, <2>6, <2>7
<1>8. t.hour < 12 \/ t.hour >= 12
  BY <1>1 DEF Hour
<1>9. t.day < DaysOf(t.year, t.month) \/ t.day = DaysOf(t.year, t.month)
  BY <1>1 DEF Day
<1>10. t.month < 12 \/ t.month = 12
  BY <1>1 DEF Month
<1> QED
  BY <1>4, <1>5, <1>6, <1>7, <1>8, <1>9, <1>10

-----------------------------------------------------------------------------
(* The days that have passed: what the parser computes for a midnight is   *)
(* the number of midnights before it.                                      *)

\* Induction over the naturals, as a fact about sets.
LEMMA SetInduction ==
    ASSUME NEW S \in SUBSET Nat, 0 \in S, \A n \in S : n + 1 \in S
    PROVE  S = Nat
<1> DEFINE T == Nat \ S
<1>1. SUFFICES ASSUME T # {} PROVE FALSE
  OBVIOUS
<1>2. \E x \in T : \A y \in T : ~ (<<y, x>> \in OpToRel(<, Nat))
  <2> HIDE DEF T
  <2>1. T \subseteq Nat
    BY DEF T
  <2> QED
    BY <1>1, <2>1, NatLessThanWellFounded, WFMin
<1>3. PICK x \in T : \A y \in T : ~ (y < x)
  <2>1. \A x, y \in Nat : y < x => <<y, x>> \in OpToRel(<, Nat)
    BY DEF OpToRel
  <2> QED
    BY <1>2, <2>1
<1>4. x # 0 /\ x \in Nat
  OBVIOUS
<1>5. x - 1 \in T => FALSE
  BY <1>3, <1>4
<1>6. x - 1 \in S
  BY <1>4, <1>5
<1> QED
  BY <1>6, <1>4

Midnight == {s \in Date : s.hour = 0}
Earlier(n) == {s \in Midnight : DayOf(s) < n}

LEMMA EpochIsFirst == Epoch \in Date /\ Epoch.hour = 0 /\ DayOf(Epoch) = 0
<1>1. 1970 \in Year /\ 1 \in Month /\ 1 \in Day /\ 0 \in Hour
  BY DEF Year, Month, Day, Hour
<1>2. DaysOf(1970, 1) = 31 /\ MonthsDays(1970, 1) = 0 /\ YearsDays(1970) = 0
  BY <1>1, YearInNumbers, OneYearMore
<1>3. Epoch \in Date
  BY <1>1, <1>2, MadeDate DEF Epoch
<1> QED
  BY <1>2, <1>3 DEF Epoch, DayOf, YearOf, MonthOf, DateAt

LEMMA EachDay ==
    ASSUME NEW n \in Nat
    PROVE  \E s \in Midnight : DayOf(s) = n
<1> DEFINE S == {k \in Nat : \E s \in Midnight : DayOf(s) = k}
<1>1. 0 \in S
  BY EpochIsFirst DEF Midnight
<1>2. ASSUME NEW k \in S
      PROVE  k + 1 \in S
  <2>1. PICK s \in Midnight : DayOf(s) = k
    OBVIOUS
  <2> DEFINE u == HalfDayLater(HalfDayLater(s))
  <2>2. s \in Date /\ u \in Date /\ Hours(u) = Hours(s) + 12 + 12
    BY HalfDay DEF Midnight
  <2> HIDE DEF u
  <2>3. Hours(s) = 24 * DayOf(s) + s.hour /\ s.hour = 0
    BY <2>2, HoursOfDate DEF Midnight
  <2>4. Hours(u) = 24 * DayOf(u) + u.hour /\ u.hour \in Hour /\ DayOf(u) \in Nat
    BY <2>2, HoursOfDate
  <2>5. 24 * (k + 1) = 24 * DayOf(u) + u.hour
    BY <2>1, <2>2, <2>3, <2>4
  <2>6. u.hour = 0 /\ DayOf(u) = k + 1
    BY <2>4, <2>5 DEF Hour
  <2> QED
    BY <2>2, <2>6 DEF Midnight
<1> HIDE DEF S
<1>3. S = Nat
  <2>1. S \in SUBSET Nat
    BY DEF S
  <2> QED
    BY <1>1, <1>2, <2>1, SetInduction
<1> QED
  BY <1>3 DEF S

LEMMA EarlierCounted ==
    ASSUME NEW n \in Nat
    PROVE  IsFiniteSet(Earlier(n)) /\ Cardinality(Earlier(n)) = n
<1> DEFINE S == {k \in Nat : IsFiniteSet(Earlier(k)) /\ Cardinality(Earlier(k)) = k}
<1>1. \A s \in Midnight : DayOf(s) \in Nat
  BY HoursOfDate DEF Midnight
<1>2. 0 \in S
  <2>1. Earlier(0) = {}
    BY <1>1 DEF Earlier
  <2> QED
    BY <2>1, FS_EmptySet
<1>3. ASSUME NEW k \in S
      PROVE  k + 1 \in S
  <2>1. PICK s \in Midnight : DayOf(s) = k
    BY EachDay
  <2>2. ASSUME NEW u \in Midnight, DayOf(u) = k
        PROVE  u = s
    <3>1. u \in Date /\ s \in Date /\ Hours(u) = Hours(s)
      BY <2>1, <2>2, HoursOfDate DEF Midnight
    <3> QED
      BY <3>1, OrderOfDates
  <2>3. Earlier(k + 1) = Earlier(k) \union {s}
    BY <1>1, <2>1, <2>2 DEF Earlier
  <2>4. s \notin Earlier(k)
    BY <2>1 DEF Earlier
  <2>5. IsFiniteSet(Earlier(k)) /\ Cardinality(Earlier(k)) = k
    OBVIOUS
  <2>6. IsFiniteSet(Earlier(k + 1)) /\ Cardinality(Earlier(k + 1)) = k + 1
    BY <2>3, <2>4, <2>5, FS_AddElement
  <2> QED
    BY <2>6
<1> HIDE DEF S
<1>4. S = Nat
  <2>1. S \in SUBSET Nat
    BY DEF S
  <2> QED
    BY <1>2, <1>3, <2>1, SetInduction
<1> QED
  BY <1>4 DEF S

LEMMA DaysCounted ==
    ASSUME NEW t \in Date
    PROVE  Cardinality(DaysBefore(t)) = DayOf(t)
<1> DEFINE w == DateAt(t.year, t.month, t.day, 0)
<1>1. /\ t.year \in Year /\ t.month \in Month /\ t.day \in Day /\ t.day <= DaysOf(t.year, t.month)
      /\ DayOf(t) \in Nat
  BY DateFields, HoursOfDate
<1>2. w \in Date /\ Hours(w) = 24 * DayOf(t)
  <2>1. 0 \in Hour
    BY DEF Hour
  <2>2. /\ w \in Date
        /\ Hours(w) = 24 * (YearsDays(t.year) + MonthsDays(t.year, t.month) + t.day - 1) + 0
    BY <1>1, <2>1, MadeDate
  <2> HIDE DEF w
  <2> QED
    BY <1>1, <2>2 DEF DayOf, YearOf, MonthOf
<1>3. w.year = t.year
  BY DEF DateAt
<1> HIDE DEF w
<1>4. ASSUME NEW s \in Midnight
      PROVE  Before(s, w) <=> DayOf(s) < DayOf(t)
  <2>1. s \in Date /\ DayOf(s) \in Nat /\ Hours(s) = 24 * DayOf(s)
    BY HoursOfDate DEF Midnight
  <2>2. Before(s, w) <=> Hours(s) < Hours(w)
    BY <1>2, <2>1, OrderOfDates
  <2> QED
    BY <1>1, <1>2, <2>1, <2>2
<1>5. DaysBefore(t) = {s \in [year : 1970 .. t.year, month : Month, day : Day, hour : {0}] :
                          s \in Date /\ Before(s, w)}
  BY DEF DaysBefore, w
<1>6. DaysBefore(t) \subseteq Earlier(DayOf(t))
  BY <1>4, <1>5 DEF Earlier, Midnight
<1>7. Earlier(DayOf(t)) \subseteq DaysBefore(t)
  <2> SUFFICES ASSUME NEW s \in Midnight, DayOf(s) < DayOf(t)
               PROVE  s \in DaysBefore(t)
    BY DEF Earlier
  <2>1. Before(s, w) /\ s \in Date /\ s.hour = 0
    BY <1>4 DEF Midnight
  <2>2. /\ s = DateAt(s.year, s.month, s.day, s.hour)
        /\ s.year \in Year /\ s.month \in Month /\ s.day \in Day
    BY <2>1, DateFields
  <2>3. s.year \in 1970 .. t.year
    BY <1>1, <1>3, <2>1, <2>2 DEF Before, Year
  <2>4. s \in [year : 1970 .. t.year, month : Month, day : Day, hour : {0}]
    BY <2>1, <2>2, <2>3 DEF DateAt
  <2> QED
    BY <1>5, <2>1, <2>4
<1>8. DaysBefore(t) = Earlier(DayOf(t))
  BY <1>6, <1>7
<1> QED
  BY <1>1, <1>8, EarlierCounted

-----------------------------------------------------------------------------
(* The places and the keys *)

LEMMA Joined ==
    ASSUME NEW S, NEW s \in Seq(S), NEW t \in Seq(S)
    PROVE  s \o t \in Seq(S) /\ Names(s \o t) = Names(s) \union Names(t)
<1>1. /\ s \o t \in Seq(S) /\ Len(s \o t) = Len(s) + Len(t)
      /\ \A i \in 1 .. Len(s) : (s \o t)[i] = s[i]
      /\ \A i \in 1 .. Len(t) : (s \o t)[Len(s) + i] = t[i]
  OBVIOUS
<1>2. Names(s) \union Names(t) \subseteq Names(s \o t)
  <2>1. ASSUME NEW i \in 1 .. Len(s)
        PROVE  s[i] \in Names(s \o t)
    <3>1. i \in 1 .. Len(s \o t)
      BY <1>1
    <3> QED
      BY <1>1, <3>1 DEF Names
  <2>2. ASSUME NEW i \in 1 .. Len(t)
        PROVE  t[i] \in Names(s \o t)
    <3>1. Len(s) + i \in 1 .. Len(s \o t)
      BY <1>1
    <3> QED
      BY <1>1, <3>1 DEF Names
  <2> QED
    BY <2>1, <2>2 DEF Names
<1>3. ASSUME NEW i \in 1 .. Len(s \o t)
      PROVE  (s \o t)[i] \in Names(s) \union Names(t)
  <2>1. CASE i <= Len(s)
    BY <1>1, <2>1 DEF Names
  <2>2. CASE i > Len(s)
    <3>1. i - Len(s) \in 1 .. Len(t) /\ Len(s) + (i - Len(s)) = i
      BY <1>1, <2>2
    <3> QED
      BY <1>1, <3>1 DEF Names
  <2> QED
    BY <1>1, <2>1, <2>2
<1> QED
  BY <1>1, <1>2, <1>3 DEF Names

LEMMA OneOrNone ==
    ASSUME NEW S, NEW x \in S
    PROVE  <<>> \in Seq(S) /\ <<x>> \in Seq(S) /\ x \in Names(<<x>>)
<1>1. 1 \in 1 .. Len(<<x>>) /\ <<x>>[1] = x
  OBVIOUS
<1> QED
  BY <1>1 DEF Names

LEMMA HomeFacts ==
    ASSUME NEW e
    PROVE  /\ InHome(e) \in Seq({"home", "profile"})
           /\ "HOME" \in e => "home" \in Names(InHome(e))
           /\ "USERPROFILE" \in e => "profile" \in Names(InHome(e))
<1> DEFINE home == IF "HOME" \in e THEN <<"home">> ELSE <<>>
           profile == IF "USERPROFILE" \in e THEN <<"profile">> ELSE <<>>
<1>1. home \in Seq({"home", "profile"}) /\ ("HOME" \in e => "home" \in Names(home))
  BY OneOrNone
<1>2. profile \in Seq({"home", "profile"}) /\ ("USERPROFILE" \in e => "profile" \in Names(profile))
  BY OneOrNone
<1>3. InHome(e) = home \o profile
  BY DEF InHome
<1> HIDE DEF home, profile
<1> QED
  BY <1>1, <1>2, <1>3, Joined

\* In every environment the search order names existing places, among them those that
\* install writes to.
LEMMA PathsFacts ==
    ASSUME NEW e
    PROVE  /\ SearchPaths(e) \in Seq(Place)
           /\ Fallback(e) \in {"home", "profile", "cwd"}
           /\ {"etc", Fallback(e)} \subseteq Names(SearchPaths(e))
<1> DEFINE path == IF "AEGISQR_LICENSE_PATH" \in e THEN <<"env">> ELSE <<>>
           etc == <<"etc">>
           cwd == <<"cwd", "dot">>
<1>1. path \in Seq(Place)
  BY OneOrNone DEF Place
<1>2. etc \in Seq(Place) /\ "etc" \in Names(etc)
  BY DEF Place, Names
<1>3. cwd \in Seq(Place) /\ "cwd" \in Names(cwd)
  BY DEF Place, Names
<1>4. InHome(e) \in Seq(Place)
  <2>1. {"home", "profile"} \subseteq Place
    BY DEF Place
  <2> QED
    BY <2>1, HomeFacts
<1>5. SearchPaths(e) = ((path \o etc) \o InHome(e)) \o cwd
  BY DEF SearchPaths
<1> HIDE DEF path, etc, cwd
<1>6. path \o etc \in Seq(Place) /\ "etc" \in Names(path \o etc)
  BY <1>1, <1>2, Joined
<1>7. /\ (path \o etc) \o InHome(e) \in Seq(Place)
      /\ {"etc"} \union Names(InHome(e)) \subseteq Names((path \o etc) \o InHome(e))
  <2> DEFINE s == path \o etc
  <2>1. s \in Seq(Place) /\ "etc" \in Names(s)
    BY <1>6
  <2> HIDE DEF s
  <2>2. s \o InHome(e) \in Seq(Place) /\ Names(s \o InHome(e)) = Names(s) \union Names(InHome(e))
    BY <2>1, <1>4, Joined
  <2>3. {"etc"} \union Names(InHome(e)) \subseteq Names(s \o InHome(e))
    BY <2>1, <2>2
  <2> QED
    BY <2>2, <2>3 DEF s
<1>8. /\ SearchPaths(e) \in Seq(Place)
      /\ {"etc", "cwd"} \union Names(InHome(e)) \subseteq Names(SearchPaths(e))
  <2> DEFINE s == (path \o etc) \o InHome(e)
  <2>1. s \in Seq(Place) /\ {"etc"} \union Names(InHome(e)) \subseteq Names(s)
    BY <1>7
  <2>2. SearchPaths(e) = s \o cwd
    BY <1>5
  <2> HIDE DEF s
  <2>3. s \o cwd \in Seq(Place) /\ Names(s \o cwd) = Names(s) \union Names(cwd)
    BY <2>1, <1>3, Joined
  <2> QED
    BY <2>1, <2>2, <2>3, <1>3
<1>9. Fallback(e) \in {"home", "profile", "cwd"} /\ Fallback(e) \in {"cwd"} \union Names(InHome(e))
  BY HomeFacts DEF Fallback
<1> QED
  BY <1>8, <1>9

\* Every directory that is read for keys is one of the four.
LEMMA DirsFacts ==
    ASSUME NEW e
    PROVE  TrustedKeysDirs(e) \in Seq(KeysDir)
<1> DEFINE etc == <<"etc">>
           cwd == <<"cwd">>
<1>1. etc \in Seq(KeysDir) /\ cwd \in Seq(KeysDir)
  BY DEF KeysDir
<1>2. InHome(e) \in Seq(KeysDir)
  <2>1. {"home", "profile"} \subseteq KeysDir
    BY DEF KeysDir
  <2> QED
    BY <2>1, HomeFacts
<1>3. TrustedKeysDirs(e) = (etc \o InHome(e)) \o cwd
  BY DEF TrustedKeysDirs
<1> HIDE DEF etc, cwd
<1> QED
  BY <1>1, <1>2, <1>3, Joined

\* Whichever directory counts, a license that may pass is signed by a key that was there.
LEMMA MayIsSigned ==
    ASSUME Typed, Authentic, NEW lic \in MaySet
    PROVE  SignedBy(lic) \in ever
<1>1. lic \in License /\ lic.key \in KeysFor(lic.kid)
  BY DEF MaySet, MayBeIntact
<1> DEFINE dirs == TrustedKeysDirs(env)
           Named(i) == {f \in keydirs[dirs[i]] : f.kid = lic.kid}
           last == {i \in 1 .. Len(dirs) :
                       Named(i) # {} /\ \A j \in i + 1 .. Len(dirs) : Named(j) = {}}
<1>2. CASE last # {}
  <2>1. lic.key \in {f.key : f \in UNION {Named(i) : i \in last}}
    BY <1>1, <1>2 DEF KeysFor
  <2>2. PICK i \in last : \E f \in Named(i) : f.key = lic.key
    BY <2>1
  <2>3. PICK f \in Named(i) : f.key = lic.key
    BY <2>2
  <2>4. dirs[i] \in KeysDir
    BY DirsFacts
  <2>5. f \in ever /\ f \in KeyFile
    BY <2>3, <2>4 DEF Typed, Authentic
  <2>6. f = SignedBy(lic)
    BY <2>3, <2>5 DEF KeyFile, SignedBy
  <2> QED
    BY <2>5, <2>6
<1>3. CASE last = {}
  <2>1. lic.key \in {RootKey : k \in {lic.kid} \intersect {RootKid}}
    BY <1>1, <1>3 DEF KeysFor
  <2>2. lic.key = RootKey /\ lic.kid = RootKid
    BY <2>1
  <2> QED
    BY <2>2 DEF SignedBy, Authentic
<1> QED
  BY <1>2, <1>3

\* With the same environment and keys, the same licenses are intact.
LEMMA SameKeys ==
    ASSUME env' = env, keydirs' = keydirs
    PROVE  MaySet' = MaySet /\ IntactSet' = IntactSet
<1>1. \A kid : KeysFor(kid)' = KeysFor(kid)
  BY DEF KeysFor
<1>2. \A lic : MayBeIntact(lic)' = MayBeIntact(lic) /\ IsIntact(lic)' = IsIntact(lic)
  BY <1>1 DEF MayBeIntact, IsIntact
<1> QED
  BY <1>2 DEF MaySet, IntactSet

-----------------------------------------------------------------------------
(* Steps of one process *)

\* What is left alone by a step of p: everything else but the files, and those
\* only if every other process is told.
Alone(p) ==
    /\ env' = env /\ keydirs' = keydirs /\ ever' = ever /\ today' = today /\ clock' = clock
    /\ calls' \in 0 .. MaxCalls /\ changes' \in 0 .. MaxChanges
    /\ job' = [q \in Proc |-> job'[q]] /\ result' = [q \in Proc |-> result'[q]]
    /\ quiet' \in [Proc -> BOOLEAN]
    /\ \A q \in Proc \ {p} :
          /\ job'[q] = job[q] /\ result'[q] = result[q]
          /\ quiet'[q] => quiet[q] /\ files' = files

FilesOK == files \in [Place -> License \union {Absent, Torn}] /\ FilesAuthentic

Own(p) ==
    /\ JobTyped(job[p], SearchPaths(env)) /\ ResultTyped(result[p])
    /\ job[p].pc \in Writing => SignedBy(job[p].lic) \in ever
    /\ Known(p)

\* What a process knows is not lost by what leaves its call, the keys, and, unless it is
\* told, the files alone.
LEMMA Kept ==
    ASSUME NEW q \in Proc, Known(q), env' = env,
           job'[q] = job[q], result'[q] = result[q],
           quiet'[q] => quiet[q] /\ files' = files /\ keydirs' = keydirs
    PROVE  Known(q)'
<1> SUFFICES ASSUME quiet'[q]
             PROVE  Known(q)'
  BY DEF Known
<1>1. MaySet' = MaySet /\ IntactSet' = IntactSet
  BY SameKeys
<1> QED
  BY <1>1 DEF Known

\* A step of p preserves the invariant if it does for p and the files.
LEMMA ProcessStep ==
    ASSUME IInv, NEW p \in Proc, Alone(p), FilesOK', Own(p)'
    PROVE  IInv'
<1>1. \A q \in Proc \ {p} : Own(q)'
  <2> TAKE q \in Proc \ {p}
  <2>1. Known(q)'
    BY Kept DEF IInv, Alone
  <2>2. /\ JobTyped(job'[q], SearchPaths(env')) /\ ResultTyped(result'[q])
        /\ job'[q].pc \in Writing => SignedBy(job'[q].lic) \in ever'
    BY DEF IInv, Typed, Authentic, Alone
  <2> QED
    BY <2>1, <2>2 DEF Own
<1>2. \A q \in Proc : Own(q)'
  BY <1>1
<1>3. Typed'
  BY <1>2 DEF IInv, Typed, Alone, FilesOK, Own
<1>4. Authentic'
  BY <1>2 DEF IInv, Authentic, Alone, FilesOK, Own
<1>5. \A q \in Proc : Known(q)'
  BY <1>2 DEF Own
<1> QED
  BY <1>3, <1>4, <1>5 DEF IInv

\* The same for a step that writes no file: what is to be shown is about p alone.
LEMMA ReadingStep ==
    ASSUME IInv, NEW p \in Proc, UNCHANGED <<files, keydirs, quiet, ever, others>>,
           NEW j, NEW r, job' = [job EXCEPT ![p] = j], result' = [result EXCEPT ![p] = r],
           JobTyped(j, SearchPaths(env)), ResultTyped(r),
           j.pc \in Writing => SignedBy(j.lic) \in ever,
           quiet[p] =>
               /\ JobHolds(j, env, files, SearchPaths(env), MaySet, IntactSet)
               /\ j.pc = "idle" => ResultHolds(r, files, SearchPaths(env), MaySet, IntactSet)
    PROVE  IInv'
<1>1. job'[p] = j /\ result'[p] = r
  BY DEF IInv, Typed
<1>2. Alone(p)
  BY DEF Alone, IInv, Typed, others
<1>3. FilesOK'
  BY DEF FilesOK, FilesAuthentic, IInv, Typed, Authentic, others
<1>4. MaySet' = MaySet /\ IntactSet' = IntactSet
  BY SameKeys DEF others
<1>5. Own(p)'
  BY <1>1, <1>4 DEF Own, Known, others
<1> QED
  BY <1>2, <1>3, <1>5, ProcessStep

LEMMA IdleTyped ==
    ASSUME NEW e
    PROVE  /\ JobTyped(Idle, SearchPaths(e)) /\ Idle.pc = "idle"
           /\ \A fs, paths, may, intact : JobHolds(Idle, e, fs, paths, may, intact)
<1>1. Idle \in JobType
  BY EpochIsFirst DEF Idle, JobType
<1>2. Len(SearchPaths(e)) \in Nat
  BY PathsFacts
<1>3. Idle.pc = "idle" /\ Idle.at = 1
  BY DEF Idle
<1> QED
  BY <1>1, <1>2, <1>3 DEF JobTyped, JobHolds, Writing

-----------------------------------------------------------------------------
(* A call begins *)

LEMMA BeginKeeps ==
    ASSUME IInv, NEW p \in Proc, NEW kind \in {"status", "install"},
           NEW lic \in License \union {Absent}, NEW pc \in {"search", "check"},
           pc = "search" => kind = "status", pc = "check" => kind = "install" /\ lic \in License,
           Begin(p, kind, lic, pc)
    PROVE  IInv'
<1> DEFINE j == [Idle EXCEPT !.kind = kind, !.lic = lic, !.pc = pc, !.now = clock, !.date = today]
<1>1. /\ j.pc = pc /\ j.kind = kind /\ j.lic = lic /\ j.at = 1
      /\ j \in JobType
  BY DEF Idle, JobType, IInv, Typed
<1>2. job' = [job EXCEPT ![p] = j]
  BY DEF Begin
<1> HIDE DEF j
<1>3. job'[p] = j /\ result'[p] = result[p]
  BY <1>2 DEF Begin, IInv, Typed
<1>4. Alone(p)
  <2>1. quiet' \in [Proc -> BOOLEAN] /\ \A q \in Proc \ {p} : quiet'[q] = quiet[q]
    BY DEF Begin, IInv, Typed
  <2>2. calls' \in 0 .. MaxCalls
    BY LicenseAssumption DEF Begin, IInv, Typed
  <2> QED
    BY <1>2, <2>1, <2>2 DEF Alone, Begin, IInv, Typed
<1>5. FilesOK'
  BY DEF FilesOK, FilesAuthentic, IInv, Typed, Authentic, Begin
<1>6. Len(SearchPaths(env)) \in Nat
  BY PathsFacts
<1>7. JobTyped(j, SearchPaths(env)) /\ j.pc \notin Writing /\ j.pc # "idle"
  <2>1. j.pc = "search" \/ j.pc = "check"
    BY <1>1
  <2>2. j.pc \notin Writing /\ j.pc # "idle"
    BY <2>1 DEF Writing
  <2>3. 1 \in 1 .. Len(SearchPaths(env)) + 1
    BY <1>6
  <2>4. j.pc = "search" => j.kind = "status"
    BY <1>1
  <2>5. j.pc = "check" => j.kind = "install" /\ j.lic \in License
    BY <1>1
  <2> QED
    BY <1>1, <2>1, <2>2, <2>3, <2>4, <2>5 DEF JobTyped
<1>8. \A fs, paths, may, intact : JobHolds(j, env, fs, paths, may, intact)
  <2>1. j.pc = "search" \/ j.pc = "check"
    BY <1>1
  <2>2. j.pc = "check" => j.kind = "install"
    BY <1>1
  <2>3. \A k : k \notin 1 .. j.at - 1
    BY <1>1
  <2> QED
    BY <1>7, <2>1, <2>2, <2>3 DEF JobHolds, Writing
<1>9. Own(p)'
  BY <1>3, <1>7, <1>8 DEF Own, Known, IInv, Typed, Begin
<1> QED
  BY <1>4, <1>5, <1>9, ProcessStep

-----------------------------------------------------------------------------
(* A status *)

\* The search goes on or ends, with what it knows of the places it has passed.
LEMMA SearchKeeps ==
    ASSUME IInv, NEW p \in Proc, Search(p)
    PROVE  IInv'
<1> DEFINE paths == SearchPaths(env)
           j == job[p]
<1>1. JobTyped(j, paths) /\ ResultTyped(result[p]) /\ Known(p)
  BY DEF IInv, Typed
<1>2. j.pc = "search" /\ j.kind = "status" /\ j \in JobType
  BY <1>1 DEF Search, JobTyped
<1>3. UNCHANGED <<files, keydirs, quiet, ever, others>>
  BY DEF Search
<1>4. Len(paths) \in Nat /\ j.at \in Nat /\ j.at \in 1 .. Len(paths) + 1
  BY <1>1, PathsFacts DEF JobTyped
<1>5. job = [q \in Proc |-> job[q]] /\ result = [q \in Proc |-> result[q]]
  BY DEF IInv, Typed
<1>6. quiet[p] => \A k \in 1 .. j.at - 1 : files[paths[k]] \notin IntactSet
  BY <1>1, <1>2 DEF Known, JobHolds
<1>7. CASE j.at > Len(paths) /\ Return(p, "unlicensed", Absent, 0, "etc")
  <2> DEFINE r == [outcome |-> "unlicensed", lic |-> Absent, place |-> "etc",
                   days_remaining |-> 0, date |-> j.date]
  <2>1. job' = [job EXCEPT ![p] = Idle] /\ result' = [result EXCEPT ![p] = r]
    BY <1>7 DEF Return
  <2>2. r.outcome = "unlicensed"
    OBVIOUS
  <2> HIDE DEF r
  <2>3. ResultTyped(r)
    BY <2>2 DEF ResultTyped, Outcomes
  <2>4. quiet[p] => ResultHolds(r, files, paths, MaySet, IntactSet)
    BY <1>4, <1>6, <1>7, <2>2 DEF ResultHolds
  <2>5. Idle.pc \notin Writing
    BY IdleTyped DEF Writing
  <2> QED
    BY <1>3, <2>1, <2>3, <2>4, <2>5, IdleTyped, ReadingStep
<1>8. CASE /\ j.at <= Len(paths) /\ files[paths[j.at]] \notin License
           /\ job' = [job EXCEPT ![p].at = j.at + 1] /\ UNCHANGED result
  <2> DEFINE k == [j EXCEPT !.at = j.at + 1]
  <2>1. job' = [job EXCEPT ![p] = k] /\ result' = [result EXCEPT ![p] = result[p]]
    BY <1>5, <1>8
  <2>2. /\ k.pc = "search" /\ k.kind = "status" /\ k.at = j.at + 1 /\ k \in JobType
    BY <1>2, <1>4 DEF JobType
  <2> HIDE DEF k
  <2>3. JobTyped(k, paths) /\ k.pc \notin Writing
    BY <1>4, <1>8, <2>2 DEF JobTyped, Writing
  <2>4. files[paths[j.at]] \notin IntactSet
    BY <1>8 DEF IntactSet
  <2>5. quiet[p] => \A i \in 1 .. k.at - 1 : files[paths[i]] \notin IntactSet
    BY <1>4, <1>6, <2>2, <2>4
  <2>6. quiet[p] => JobHolds(k, env, files, paths, MaySet, IntactSet)
    BY <2>2, <2>5 DEF JobHolds, Writing
  <2> QED
    BY <1>1, <1>3, <2>1, <2>2, <2>3, <2>6, ReadingStep
<1>9. CASE /\ j.at <= Len(paths) /\ files[paths[j.at]] \in License
           /\ job' = [job EXCEPT ![p].pc = "check", ![p].lic = files[paths[j.at]]]
           /\ UNCHANGED result
  <2> DEFINE k == [j EXCEPT !.pc = "check", !.lic = files[paths[j.at]]]
  <2>1. job' = [job EXCEPT ![p] = k] /\ result' = [result EXCEPT ![p] = result[p]]
    BY <1>5, <1>9
  <2>2. /\ k.pc = "check" /\ k.kind = "status" /\ k.at = j.at /\ k \in JobType
        /\ k.lic = files[paths[j.at]]
    BY <1>2, <1>9 DEF JobType
  <2> HIDE DEF k
  <2>3. JobTyped(k, paths) /\ k.pc \notin Writing
    BY <1>4, <1>9, <2>2 DEF JobTyped, Writing
  <2>4. quiet[p] => JobHolds(k, env, files, paths, MaySet, IntactSet)
    BY <1>6, <2>2 DEF JobHolds, Writing
  <2> QED
    BY <1>1, <1>3, <2>1, <2>2, <2>3, <2>4, ReadingStep
<1> QED
  BY <1>7, <1>8, <1>9 DEF Search

\* What is reported is what is checked, and no place before it has an intact license.
LEMMA ReportKeeps ==
    ASSUME IInv, NEW p \in Proc, Report(p)
    PROVE  IInv'
<1> DEFINE paths == SearchPaths(env)
           j == job[p]
<1>1. JobTyped(j, paths) /\ Known(p)
  BY DEF IInv, Typed
<1>2. j.pc = "check" /\ j.kind = "status" /\ j.lic \in MaySet
  BY <1>1 DEF Report, JobTyped, MaySet
<1>3. UNCHANGED <<files, keydirs, quiet, ever, others>>
  BY DEF Report
<1>4. Len(paths) \in Nat /\ j.at \in 1 .. Len(paths) /\ j.lic \in License
  BY <1>1, <1>2, PathsFacts DEF JobTyped
<1>5. quiet[p] => First(j.at, files, paths, MaySet, IntactSet) /\ files[paths[j.at]] = j.lic
  BY <1>1, <1>2 DEF Known, JobHolds, First
<1>6. Idle.pc \notin Writing
  BY IdleTyped DEF Writing
<1>7. CASE j.lic.expires = Odd /\ Return(p, "unlicensed", Absent, 0, "etc")
  <2> DEFINE r == [outcome |-> "unlicensed", lic |-> Absent, place |-> "etc",
                   days_remaining |-> 0, date |-> j.date]
  <2>1. job' = [job EXCEPT ![p] = Idle] /\ result' = [result EXCEPT ![p] = r]
    BY <1>7 DEF Return
  <2>2. r.outcome = "unlicensed"
    OBVIOUS
  <2> HIDE DEF r
  <2>3. ResultTyped(r)
    BY <2>2 DEF ResultTyped, Outcomes
  <2>4. quiet[p] => ResultHolds(r, files, paths, MaySet, IntactSet)
    BY <1>4, <1>5, <1>7, <2>2 DEF ResultHolds
  <2> QED
    BY <1>3, <1>6, <2>1, <2>3, <2>4, IdleTyped, ReadingStep
<1>8. ASSUME NEW outcome \in {"valid", "grace_period", "expired"}, NEW days,
             j.lic.expires # Odd, Return(p, outcome, j.lic, days, paths[j.at])
      PROVE  IInv'
  <2> DEFINE r == [outcome |-> outcome, lic |-> j.lic, place |-> paths[j.at],
                   days_remaining |-> days, date |-> j.date]
  <2>1. job' = [job EXCEPT ![p] = Idle] /\ result' = [result EXCEPT ![p] = r]
    BY <1>8 DEF Return
  <2>2. r.outcome = outcome /\ r.lic = j.lic
    OBVIOUS
  <2> HIDE DEF r
  <2>3. ResultTyped(r)
    BY <1>4, <1>8, <2>2 DEF ResultTyped, Outcomes
  <2>4. quiet[p] => ResultHolds(r, files, paths, MaySet, IntactSet)
    BY <1>4, <1>5, <2>2 DEF ResultHolds
  <2> QED
    BY <1>3, <1>6, <2>1, <2>3, <2>4, IdleTyped, ReadingStep
<1>9. \A now, expires, grace : Outcome(now, expires, grace) \in {"valid", "grace_period", "expired"}
  BY DEF Outcome
<1> QED
  BY <1>7, <1>8, <1>9 DEF Report

\* A license that is passed over is not intact.
LEMMA PassKeeps ==
    ASSUME IInv, NEW p \in Proc, Pass(p)
    PROVE  IInv'
<1> DEFINE paths == SearchPaths(env)
           j == job[p]
           k == [j EXCEPT !.pc = "search", !.at = j.at + 1]
<1>1. JobTyped(j, paths) /\ ResultTyped(result[p]) /\ Known(p)
  BY DEF IInv, Typed
<1>2. j.pc = "check" /\ j.kind = "status" /\ j.lic \notin IntactSet /\ j \in JobType
  BY <1>1 DEF Pass, JobTyped, IntactSet
<1>3. UNCHANGED <<files, keydirs, quiet, ever, others>>
  BY DEF Pass
<1>4. Len(paths) \in Nat /\ j.at \in Nat /\ j.at \in 1 .. Len(paths)
  BY <1>1, <1>2, PathsFacts DEF JobTyped
<1>5. job = [q \in Proc |-> job[q]] /\ result = [q \in Proc |-> result[q]]
  BY DEF IInv, Typed
<1>6. job' = [job EXCEPT ![p] = k] /\ result' = [result EXCEPT ![p] = result[p]]
  BY <1>5 DEF Pass
<1>7. k.pc = "search" /\ k.kind = "status" /\ k.at = j.at + 1 /\ k \in JobType
  <2>1. j.at + 1 \in Nat
    BY <1>4
  <2> QED
    BY <1>2, <2>1 DEF JobType
<1> HIDE DEF k
<1>8. JobTyped(k, paths) /\ k.pc \notin Writing
  BY <1>4, <1>7 DEF JobTyped, Writing
<1>9. quiet[p] => JobHolds(k, env, files, paths, MaySet, IntactSet)
  <2> SUFFICES ASSUME quiet[p]
               PROVE  JobHolds(k, env, files, paths, MaySet, IntactSet)
    OBVIOUS
  <2>1. /\ \A i \in 1 .. j.at - 1 : files[paths[i]] \notin IntactSet
        /\ files[paths[j.at]] \notin IntactSet
    BY <1>1, <1>2 DEF Known, JobHolds
  <2>2. \A i \in 1 .. k.at - 1 : files[paths[i]] \notin IntactSet
    BY <1>4, <1>7, <2>1
  <2> QED
    BY <1>7, <2>2 DEF JobHolds, Writing
<1> QED
  BY <1>1, <1>3, <1>6, <1>7, <1>8, <1>9, ReadingStep

-----------------------------------------------------------------------------
(* An installation *)

\* A step of p that writes one file, and tells the others.
LEMMA WritingStep ==
    ASSUME IInv, NEW p \in Proc, UNCHANGED <<keydirs, ever, others>>, Disturb(Proc \ {p}),
           NEW place \in Place, NEW file \in License \union {Torn},
           file \in License => SignedBy(file) \in ever,
           files' = [files EXCEPT ![place] = file],
           NEW j, NEW r, job' = [job EXCEPT ![p] = j], result' = [result EXCEPT ![p] = r],
           JobTyped(j, SearchPaths(env)), ResultTyped(r),
           j.pc \in Writing => SignedBy(j.lic) \in ever,
           quiet[p] =>
               /\ JobHolds(j, env, files', SearchPaths(env), MaySet, IntactSet)
               /\ j.pc = "idle" => ResultHolds(r, files', SearchPaths(env), MaySet, IntactSet)
    PROVE  IInv'
<1>1. job'[p] = j /\ result'[p] = r
  BY DEF IInv, Typed
<1>2. /\ quiet' \in [Proc -> BOOLEAN] /\ quiet'[p] = quiet[p]
      /\ \A q \in Proc \ {p} : ~quiet'[q]
  BY DEF Disturb, IInv, Typed
<1>3. Alone(p)
  BY <1>2 DEF Alone, IInv, Typed, others
<1>4. FilesOK'
  <2>1. files' \in [Place -> License \union {Absent, Torn}]
    BY DEF IInv, Typed
  <2>2. ASSUME NEW at \in {"etc", "home", "profile"}, files'[at] \in License
        PROVE  SignedBy(files'[at]) \in ever
    <3>1. at \in Place
      BY DEF Place
    <3>2. files'[at] = IF at = place THEN file ELSE files[at]
      BY <3>1 DEF IInv, Typed
    <3> QED
      BY <2>2, <3>2 DEF IInv, Authentic, FilesAuthentic
  <2> QED
    BY <2>1, <2>2 DEF FilesOK, FilesAuthentic
<1>5. MaySet' = MaySet /\ IntactSet' = IntactSet
  BY SameKeys DEF others
<1>6. Own(p)'
  BY <1>1, <1>2, <1>5 DEF Own, Known, others
<1> QED
  BY <1>3, <1>4, <1>6, ProcessStep

\* A call that returns without a write, and without a license in use.
LEMMA GivesUp ==
    ASSUME IInv, NEW p \in Proc, UNCHANGED <<files, keydirs, quiet, ever, others>>,
           NEW outcome \in {"refused", "failed"}, NEW lic, NEW place, Return(p, outcome, lic, 0, place)
    PROVE  IInv'
<1> DEFINE r == [outcome |-> outcome, lic |-> lic, place |-> place,
                 days_remaining |-> 0, date |-> job[p].date]
<1>1. job' = [job EXCEPT ![p] = Idle] /\ result' = [result EXCEPT ![p] = r]
  BY DEF Return
<1>2. r.outcome = outcome
  OBVIOUS
<1> HIDE DEF r
<1>3. ResultTyped(r) /\ ResultHolds(r, files, SearchPaths(env), MaySet, IntactSet)
  BY <1>2 DEF ResultTyped, ResultHolds, Outcomes
<1>4. Idle.pc \notin Writing
  BY IdleTyped DEF Writing
<1> QED
  BY <1>1, <1>3, <1>4, IdleTyped, ReadingStep

\* The job of p at another step of its installation.
LEMMA GoesOn ==
    ASSUME IInv, NEW p \in Proc, NEW pc \in Writing, Goto(p, pc),
           job[p].kind = "install", job[p].lic \in License
    PROVE  \E j : /\ job' = [job EXCEPT ![p] = j]
                  /\ j.pc = pc /\ j.lic = job[p].lic
                  /\ JobTyped(j, SearchPaths(env))
<1> DEFINE j == [job[p] EXCEPT !.pc = pc]
<1>1. job[p] \in JobType /\ job[p].at \in 1 .. Len(SearchPaths(env)) + 1
  BY DEF IInv, Typed, JobTyped
<1>2. job' = [job EXCEPT ![p] = j]
  BY DEF Goto, IInv, Typed
<1>3. /\ j.pc = pc /\ j.kind = "install" /\ j.lic = job[p].lic /\ j.at = job[p].at
      /\ j \in JobType
  BY <1>1 DEF JobType
<1> HIDE DEF j
<1>4. JobTyped(j, SearchPaths(env))
  BY <1>1, <1>3 DEF JobTyped, Writing
<1> QED
  BY <1>2, <1>3, <1>4

LEMMA AdmitKeeps ==
    ASSUME IInv, NEW p \in Proc, Admit(p)
    PROVE  IInv'
<1>1. job[p].kind = "install" /\ job[p].lic \in License /\ job[p].lic \in MaySet
  BY DEF Admit, IInv, Typed, JobTyped, MaySet
<1>2. SignedBy(job[p].lic) \in ever
  BY <1>1, MayIsSigned DEF IInv
<1>3. "open etc" \in Writing
  BY DEF Writing
<1>4. PICK j : /\ job' = [job EXCEPT ![p] = j]
               /\ j.pc = "open etc" /\ j.lic = job[p].lic /\ JobTyped(j, SearchPaths(env))
  BY <1>1, <1>3, GoesOn DEF Admit
<1>5. JobHolds(j, env, files, SearchPaths(env), MaySet, IntactSet)
  BY <1>1, <1>4 DEF JobHolds
<1>6. result' = [result EXCEPT ![p] = result[p]] /\ ResultTyped(result[p])
  BY DEF Admit, IInv, Typed
<1>7. UNCHANGED <<files, keydirs, quiet, ever, others>>
  BY DEF Admit
<1> QED
  BY <1>2, <1>4, <1>5, <1>6, <1>7, ReadingStep

\* The two attempts of an installation.
Attempt(place, pc, next) ==
    \/ place = "etc" /\ pc = "open etc" /\ next = "write etc"
    \/ place = Fallback(env) /\ pc = "open home" /\ next = "write home"

LEMMA OpenKeeps ==
    ASSUME IInv, NEW p \in Proc, NEW place, NEW pc, NEW next, Attempt(place, pc, next),
           InstallOpen(p, place, pc, next)
    PROVE  IInv'
<1>1. /\ job[p].pc = pc /\ job[p].kind = "install" /\ job[p].lic \in License
      /\ SignedBy(job[p].lic) \in ever
      /\ pc \in Writing /\ next \in Writing /\ "open home" \in Writing
  BY DEF InstallOpen, Attempt, IInv, Typed, Authentic, JobTyped, Writing
<1>2. quiet[p] => job[p].lic \in MaySet
  BY <1>1 DEF IInv, Known, JobHolds
<1>3. result' = result => result' = [result EXCEPT ![p] = result[p]] /\ ResultTyped(result[p])
  BY DEF IInv, Typed
<1>4. place \in Place
  BY PathsFacts DEF Attempt, Place
<1>5. CASE /\ files' = [files EXCEPT ![place] = Torn] /\ Goto(p, next)
           /\ Disturb(Proc \ {p}) /\ UNCHANGED result
  <2>1. PICK j : /\ job' = [job EXCEPT ![p] = j]
                 /\ j.pc = next /\ j.lic = job[p].lic /\ JobTyped(j, SearchPaths(env))
    BY <1>1, <1>5, GoesOn
  <2>2. files'[place] = Torn
    BY <1>4, <1>5 DEF IInv, Typed
  <2>3. quiet[p] => JobHolds(j, env, files', SearchPaths(env), MaySet, IntactSet)
    BY <1>2, <2>1, <2>2 DEF JobHolds, Attempt
  <2>4. Torn \notin License
    BY LicenseAssumption
  <2>5. j.pc # "idle" /\ UNCHANGED <<keydirs, ever, others>>
    BY <2>1 DEF Attempt, InstallOpen
  <2> QED
    BY <1>1, <1>3, <1>4, <1>5, <2>1, <2>3, <2>4, <2>5, WritingStep
<1>6. CASE place = "etc" /\ Goto(p, "open home") /\ UNCHANGED <<files, result, quiet>>
  <2>1. PICK j : /\ job' = [job EXCEPT ![p] = j]
                 /\ j.pc = "open home" /\ j.lic = job[p].lic /\ JobTyped(j, SearchPaths(env))
    BY <1>1, <1>6, GoesOn
  <2>2. quiet[p] => JobHolds(j, env, files, SearchPaths(env), MaySet, IntactSet)
    BY <1>2, <2>1 DEF JobHolds
  <2>3. UNCHANGED <<files, keydirs, quiet, ever, others>>
    BY <1>6 DEF InstallOpen
  <2> QED
    BY <1>1, <1>3, <1>6, <2>1, <2>2, <2>3, ReadingStep
<1>7. CASE /\ place # "etc" /\ Return(p, "failed", job[p].lic, 0, place)
           /\ UNCHANGED <<files, quiet>>
  <2>1. UNCHANGED <<files, keydirs, quiet, ever, others>>
    BY <1>7 DEF InstallOpen
  <2> QED
    BY <1>7, <2>1, GivesUp
<1> QED
  BY <1>5, <1>6, <1>7 DEF InstallOpen

\* A file that is still empty is written whole; one that is not has told p so.
LEMMA WriteKeeps ==
    ASSUME IInv, NEW p \in Proc, NEW place, NEW pc, NEW open, Attempt(place, open, pc),
           InstallWrite(p, place, pc)
    PROVE  IInv'
<1>1. /\ job[p].pc = pc /\ job[p].kind = "install" /\ job[p].lic \in License
      /\ SignedBy(job[p].lic) \in ever
      /\ pc \in Writing /\ "open home" \in Writing
  BY DEF InstallWrite, Attempt, IInv, Typed, Authentic, JobTyped, Writing
<1>2. quiet[p] => job[p].lic \in MaySet /\ files[place] = Torn
  BY <1>1 DEF IInv, Known, JobHolds, Attempt
<1>3. result' = result => result' = [result EXCEPT ![p] = result[p]] /\ ResultTyped(result[p])
  BY DEF IInv, Typed
<1>4. place \in Place /\ place \in Names(SearchPaths(env))
  BY PathsFacts DEF Attempt, Place
<1>5. UNCHANGED <<keydirs, ever, others>> /\ Disturb(Proc \ {p})
  BY DEF InstallWrite
<1>6. Torn \notin License
  BY LicenseAssumption
<1>7. Idle.pc \notin Writing
  BY IdleTyped DEF Writing
<1>8. ASSUME NEW outcome \in {"installed", "failed"}, Return(p, outcome, job[p].lic, 0, place),
             NEW file \in License \union {Torn}, files' = [files EXCEPT ![place] = file],
             file \in {Torn, job[p].lic},
             outcome = "installed" /\ quiet[p] => file = job[p].lic
      PROVE  IInv'
  <2> DEFINE r == [outcome |-> outcome, lic |-> job[p].lic, place |-> place,
                   days_remaining |-> 0, date |-> job[p].date]
  <2>1. job' = [job EXCEPT ![p] = Idle] /\ result' = [result EXCEPT ![p] = r]
    BY <1>8 DEF Return
  <2>2. r.outcome = outcome /\ r.lic = job[p].lic /\ r.place = place
    OBVIOUS
  <2> HIDE DEF r
  <2>3. ResultTyped(r)
    BY <2>2 DEF ResultTyped, Outcomes
  <2>4. files'[place] = file
    BY <1>4, <1>8 DEF IInv, Typed
  <2>5. quiet[p] => ResultHolds(r, files', SearchPaths(env), MaySet, IntactSet)
    BY <1>2, <1>4, <1>8, <2>2, <2>4 DEF ResultHolds
  <2>6. file \in License => SignedBy(file) \in ever
    BY <1>1, <1>6, <1>8
  <2> QED
    BY <1>4, <1>5, <1>7, <1>8, <2>1, <2>3, <2>5, <2>6, IdleTyped, WritingStep
<1>9. CASE /\ files' = [files EXCEPT ![place] = job[p].lic]
           /\ Return(p, "installed", job[p].lic, 0, place)
  BY <1>1, <1>8, <1>9
<1>10. CASE /\ files[place] \in License \ {job[p].lic}
            /\ files' = [files EXCEPT ![place] = Torn]
            /\ Return(p, "installed", job[p].lic, 0, place)
  <2>1. ~quiet[p]
    BY <1>2, <1>6, <1>10
  <2> QED
    BY <1>8, <1>10, <2>1
<1>11. CASE files' = [files EXCEPT ![place] = Torn] /\ Return(p, "failed", job[p].lic, 0, place)
  BY <1>8, <1>11
<1>12. CASE /\ files' = [files EXCEPT ![place] = Torn] /\ Goto(p, "open home")
            /\ UNCHANGED result
  <2>1. PICK j : /\ job' = [job EXCEPT ![p] = j]
                 /\ j.pc = "open home" /\ j.lic = job[p].lic /\ JobTyped(j, SearchPaths(env))
    BY <1>1, <1>12, GoesOn
  <2>2. quiet[p] => JobHolds(j, env, files', SearchPaths(env), MaySet, IntactSet)
    BY <1>2, <2>1 DEF JobHolds
  <2> QED
    BY <1>1, <1>3, <1>4, <1>5, <1>6, <1>12, <2>1, <2>2, WritingStep
<1> QED
  BY <1>9, <1>10, <1>11, <1>12 DEF InstallWrite

LEMMA InstallKeeps ==
    ASSUME IInv, NEW p \in Proc, Install(p)
    PROVE  IInv'
<1>1. CASE Refuse(p)
  <2>1. Return(p, "refused", job[p].lic, 0, "etc") /\ UNCHANGED <<files, keydirs, quiet, ever, others>>
    BY <1>1 DEF Refuse
  <2> QED
    BY <2>1, GivesUp
<1>2. CASE Admit(p)
  BY <1>2, AdmitKeeps
<1>3. CASE InstallOpen(p, "etc", "open etc", "write etc")
  BY <1>3, OpenKeeps DEF Attempt
<1>4. CASE InstallWrite(p, "etc", "write etc")
  <2>1. Attempt("etc", "open etc", "write etc")
    BY DEF Attempt
  <2> QED
    BY <1>4, <2>1, WriteKeeps
<1>5. CASE InstallOpen(p, Fallback(env), "open home", "write home")
  <2>1. Attempt(Fallback(env), "open home", "write home")
    BY DEF Attempt
  <2> QED
    BY <1>5, <2>1, OpenKeeps
<1>6. CASE InstallWrite(p, Fallback(env), "write home")
  <2>1. Attempt(Fallback(env), "open home", "write home")
    BY DEF Attempt
  <2> QED
    BY <1>6, <2>1, WriteKeeps
<1> QED
  BY <1>1, <1>2, <1>3, <1>4, <1>5, <1>6 DEF Install

-----------------------------------------------------------------------------
(* The steps of others *)

LEMMA CrashKeeps ==
    ASSUME IInv, NEW p \in Proc, Crash(p)
    PROVE  IInv'
<1>1. job' = [job EXCEPT ![p] = Idle] /\ result' = result /\ files' = files
  BY DEF Crash
<1>2. job'[p] = Idle /\ result'[p] = result[p]
  BY <1>1 DEF IInv, Typed
<1>3. /\ quiet' \in [Proc -> BOOLEAN] /\ ~quiet'[p]
      /\ \A q \in Proc \ {p} : quiet'[q] = quiet[q]
  BY DEF Crash, Disturb, IInv, Typed
<1>4. changes' \in 0 .. MaxChanges
  BY LicenseAssumption DEF Crash, IInv, Typed
<1>5. Alone(p)
  BY <1>1, <1>3, <1>4 DEF Alone, Crash, IInv, Typed
<1>6. FilesOK'
  BY DEF FilesOK, FilesAuthentic, IInv, Typed, Authentic, Crash
<1>7. Own(p)'
  <2>1. JobTyped(Idle, SearchPaths(env)) /\ Idle.pc \notin Writing
    BY IdleTyped DEF Writing
  <2>2. Known(p)'
    BY <1>3 DEF Known
  <2>3. env' = env /\ ResultTyped(result[p])
    BY DEF Crash, IInv, Typed
  <2> QED
    BY <1>2, <2>1, <2>2, <2>3 DEF Own
<1> QED
  BY <1>5, <1>6, <1>7, ProcessStep

\* After a step that tells everybody there is nothing to be known.
LEMMA Told ==
    ASSUME Disturb(Proc)
    PROVE  quiet' \in [Proc -> BOOLEAN] /\ \A p \in Proc : Known(p)'
<1>1. quiet' = [p \in Proc |-> FALSE]
  BY DEF Disturb
<1> QED
  BY <1>1 DEF Known

LEMMA PutLicenseKeeps ==
    ASSUME IInv, NEW place \in Place, NEW file \in License \union {Absent}, PutLicense(place, file)
    PROVE  IInv'
<1>1. quiet' \in [Proc -> BOOLEAN] /\ \A p \in Proc : Known(p)'
  BY Told DEF PutLicense
<1>2. changes' \in 0 .. MaxChanges
  BY LicenseAssumption DEF PutLicense, IInv, Typed
<1>3. Typed'
  BY <1>1, <1>2 DEF IInv, Typed, PutLicense
<1>4. FilesAuthentic'
  <2> SUFFICES ASSUME NEW at \in {"etc", "home", "profile"}, files'[at] \in License
               PROVE  SignedBy(files'[at]) \in ever'
    BY DEF FilesAuthentic
  <2>1. at \in Place
    BY DEF Place
  <2>2. files'[at] = files[at]
    BY <2>1, LicenseAssumption DEF PutLicense, IInv, Typed
  <2> QED
    BY <2>2 DEF PutLicense, IInv, Authentic, FilesAuthentic
<1>5. Authentic'
  BY <1>4 DEF IInv, Authentic, PutLicense
<1> QED
  BY <1>1, <1>3, <1>5 DEF IInv

LEMMA RotateKeysKeeps ==
    ASSUME IInv, NEW setup \in KeySetups, RotateKeys(setup)
    PROVE  IInv'
<1>1. quiet' \in [Proc -> BOOLEAN] /\ \A p \in Proc : Known(p)'
  BY Told DEF RotateKeys
<1>2. changes' \in 0 .. MaxChanges
  BY LicenseAssumption DEF RotateKeys, IInv, Typed
<1>3. setup \in [KeysDir -> SUBSET KeyFile]
  BY LicenseAssumption
<1>4. ever \subseteq ever' /\ ever' \subseteq KeyFile /\ \A d \in KeysDir : keydirs'[d] \subseteq ever'
  BY <1>3 DEF RotateKeys, IInv, Typed
<1>5. Typed'
  BY <1>1, <1>2, <1>3, <1>4 DEF IInv, Typed, RotateKeys
<1>6. Authentic'
  BY <1>4 DEF IInv, Authentic, FilesAuthentic, RotateKeys
<1> QED
  BY <1>1, <1>5, <1>6 DEF IInv

LEMMA TickKeeps ==
    ASSUME IInv, Tick
    PROVE  IInv'
<1>1. today' \in Date /\ clock' \in Nat
  BY HalfDay DEF Tick, IInv, Typed
<1>2. Typed'
  BY <1>1 DEF IInv, Typed, Tick
<1>3. Authentic'
  BY DEF IInv, Authentic, FilesAuthentic, Tick
<1>4. \A p \in Proc : Known(p)'
  <2> TAKE p \in Proc
  <2> QED
    BY Kept DEF IInv, Tick
<1> QED
  BY <1>2, <1>3, <1>4 DEF IInv

-----------------------------------------------------------------------------
(* Time. A call works with the date and the hours it began at, and what it *)
(* has reported is what they and the license give.                         *)

Reports(r) == r.outcome \in {"valid", "grace_period", "expired"}

JobTimed(j, c) == j.pc # "idle" => j.date \in Date /\ Hours(j.date) = j.now /\ j.now <= c

ResultTimed(r, j, c) ==
    Reports(r) =>
        /\ r.lic \in License /\ r.lic.expires # Odd
        /\ r.date \in Date /\ Hours(r.date) <= c
        /\ j.pc # "idle" => Hours(r.date) <= j.now
        /\ r.outcome = Outcome(Hours(r.date), Hours(r.lic.expires), 24 * r.lic.grace_days)
        /\ r.days_remaining = Quotient(Hours(r.lic.expires) - Hours(r.date), 24)

Timed ==
    /\ Hours(today) = clock
    /\ \A p \in Proc : JobTimed(job[p], clock) /\ ResultTimed(result[p], job[p], clock)

\* A call goes on with its date or ends, and reports nothing.
Carried(j, k) == k.pc = "idle" \/ (j.pc # "idle" /\ k.date = j.date /\ k.now = j.now)
Steady(p) ==
    /\ Carried(job[p], job'[p])
    /\ result'[p] = result[p] \/ ~Reports(result'[p])

\* A report of the call of p.
Reporting(p) ==
    LET j == job[p]
        r == result'[p]
    IN  /\ j.pc # "idle" /\ job'[p].pc = "idle"
        /\ r.lic \in License /\ r.lic.expires # Odd /\ r.date = j.date
        /\ r.outcome = Outcome(j.now, Hours(r.lic.expires), 24 * r.lic.grace_days)
        /\ r.days_remaining = Quotient(Hours(r.lic.expires) - j.now, 24)

Beginning(p) ==
    /\ job'[p].date = today /\ job'[p].now = clock /\ job[p].pc = "idle"
    /\ result'[p] = result[p]

TimeStep ==
    /\ \/ clock' = clock /\ today' = today
       \/ /\ clock' = clock + 12 /\ today' = HalfDayLater(today)
          /\ job' = job /\ result' = result
    /\ \A p \in Proc : Steady(p) \/ Reporting(p) \/ Beginning(p)

\* The other processes go on as they were.
LEMMA OneOf ==
    ASSUME IInv, NEW p \in Proc, clock' = clock, today' = today,
           NEW j, NEW r, job' = [job EXCEPT ![p] = j], result' = [result EXCEPT ![p] = r],
           Steady(p) \/ Reporting(p) \/ Beginning(p)
    PROVE  TimeStep
<1>1. job = [q \in Proc |-> job[q]] /\ result = [q \in Proc |-> result[q]]
  BY DEF IInv, Typed
<1>2. ASSUME NEW q \in Proc, q # p
      PROVE  Steady(q)
  <2>1. job'[q] = job[q] /\ result'[q] = result[q]
    BY <1>1, <1>2
  <2> QED
    BY <2>1 DEF Steady, Carried
<1> QED
  BY <1>2 DEF TimeStep

LEMMA Unmoved ==
    ASSUME UNCHANGED <<clock, today, job, result>>
    PROVE  TimeStep
BY DEF TimeStep, Steady, Carried

\* A call that returns without a report.
LEMMA ReturnTime ==
    ASSUME IInv, NEW p \in Proc, UNCHANGED others, NEW outcome, NEW lic, NEW days, NEW place,
           Return(p, outcome, lic, days, place),
           outcome \notin {"valid", "grace_period", "expired"}
    PROVE  TimeStep
<1> DEFINE r == [outcome |-> outcome, lic |-> lic, place |-> place, days_remaining |-> days,
                 date |-> job[p].date]
<1>1. job' = [job EXCEPT ![p] = Idle] /\ result' = [result EXCEPT ![p] = r]
  BY DEF Return
<1>2. ~Reports(r) /\ Idle.pc = "idle"
  BY IdleTyped DEF Reports
<1>3. job'[p] = Idle /\ result'[p] = r
  BY <1>1 DEF IInv, Typed
<1> HIDE DEF r
<1>4. Steady(p)
  BY <1>2, <1>3 DEF Steady, Carried
<1> QED
  BY <1>1, <1>4, OneOf DEF others

\* A call that goes on.
LEMMA GoOnTime ==
    ASSUME IInv, NEW p \in Proc, UNCHANGED <<clock, today, result>>, job[p].pc # "idle",
           NEW j, job' = [job EXCEPT ![p] = j], j.date = job[p].date, j.now = job[p].now
    PROVE  TimeStep
<1>1. job'[p] = j /\ result' = [result EXCEPT ![p] = result[p]] /\ result'[p] = result[p]
  BY DEF IInv, Typed
<1>2. Steady(p)
  BY <1>1 DEF Steady, Carried
<1> QED
  BY <1>1, <1>2, OneOf

LEMMA GotoTime ==
    ASSUME IInv, NEW p \in Proc, UNCHANGED <<clock, today, result>>, job[p].pc # "idle", NEW pc,
           Goto(p, pc)
    PROVE  TimeStep
<1> DEFINE j == [job[p] EXCEPT !.pc = pc]
<1>1. job' = [job EXCEPT ![p] = j]
  BY DEF Goto, IInv, Typed
<1>2. job[p] \in JobType
  BY DEF IInv, Typed, JobTyped
<1>3. j.date = job[p].date /\ j.now = job[p].now
  BY <1>2 DEF JobType
<1> HIDE DEF j
<1> QED
  BY <1>1, <1>3, GoOnTime

LEMMA BeginTime ==
    ASSUME IInv, NEW p \in Proc, NEW kind, NEW lic, NEW pc, Begin(p, kind, lic, pc)
    PROVE  TimeStep
<1> DEFINE j == [Idle EXCEPT !.kind = kind, !.lic = lic, !.pc = pc, !.now = clock, !.date = today]
<1>1. job' = [job EXCEPT ![p] = j]
  BY DEF Begin
<1>2. j.date = today /\ j.now = clock
  BY DEF Idle
<1> HIDE DEF j
<1>3. /\ job'[p] = j /\ result' = [result EXCEPT ![p] = result[p]] /\ result'[p] = result[p]
      /\ job[p].pc = "idle" /\ clock' = clock /\ today' = today
  BY <1>1 DEF Begin, IInv, Typed
<1>4. Beginning(p)
  BY <1>2, <1>3 DEF Beginning
<1> QED
  BY <1>1, <1>3, <1>4, OneOf

LEMMA SearchTime ==
    ASSUME IInv, NEW p \in Proc, Search(p)
    PROVE  TimeStep
<1> DEFINE paths == SearchPaths(env)
           j == job[p]
<1>1. UNCHANGED others /\ j.pc # "idle" /\ j \in JobType
  BY DEF Search, IInv, Typed, JobTyped
<1>2. CASE Return(p, "unlicensed", Absent, 0, "etc")
  BY <1>1, <1>2, ReturnTime
<1>3. CASE job' = [job EXCEPT ![p].at = j.at + 1] /\ UNCHANGED result
  <2> DEFINE k == [j EXCEPT !.at = j.at + 1]
  <2>1. job' = [job EXCEPT ![p] = k]
    BY <1>3 DEF IInv, Typed
  <2>2. k.date = j.date /\ k.now = j.now
    BY <1>1 DEF JobType
  <2> HIDE DEF k
  <2> QED
    BY <1>1, <1>3, <2>1, <2>2, GoOnTime DEF others
<1>4. CASE job' = [job EXCEPT ![p].pc = "check", ![p].lic = files[paths[j.at]]] /\ UNCHANGED result
  <2> DEFINE k == [j EXCEPT !.pc = "check", !.lic = files[paths[j.at]]]
  <2>1. job' = [job EXCEPT ![p] = k]
    BY <1>4 DEF IInv, Typed
  <2>2. k.date = j.date /\ k.now = j.now
    BY <1>1 DEF JobType
  <2> HIDE DEF k
  <2> QED
    BY <1>1, <1>4, <2>1, <2>2, GoOnTime DEF others
<1> QED
  BY <1>2, <1>3, <1>4 DEF Search

LEMMA ReportTime ==
    ASSUME IInv, NEW p \in Proc, Report(p)
    PROVE  TimeStep
<1> DEFINE j == job[p]
           lic == j.lic
           expires == Hours(lic.expires)
<1>1. UNCHANGED others /\ j.pc # "idle" /\ lic \in License
  BY DEF Report, IInv, Typed, JobTyped
<1>2. CASE Return(p, "unlicensed", Absent, 0, "etc")
  BY <1>1, <1>2, ReturnTime
<1>3. ASSUME lic.expires # Odd, NEW place,
             Return(p, Outcome(j.now, expires, 24 * lic.grace_days), lic,
                    Quotient(expires - j.now, 24), place)
      PROVE  TimeStep
  <2> DEFINE outcome == Outcome(j.now, expires, 24 * lic.grace_days)
             days == Quotient(expires - j.now, 24)
  <2> HIDE DEF outcome, days
  <2> DEFINE r == [outcome |-> outcome, lic |-> lic, place |-> place, days_remaining |-> days,
                   date |-> j.date]
  <2>1. job' = [job EXCEPT ![p] = Idle] /\ result' = [result EXCEPT ![p] = r]
    BY <1>3 DEF Return, outcome, days
  <2>2. r.outcome = outcome /\ r.days_remaining = days /\ r.lic = lic /\ r.date = j.date
    OBVIOUS
  <2> HIDE DEF r
  <2>3. job'[p].pc = "idle" /\ result'[p] = r
    BY <2>1, IdleTyped DEF IInv, Typed
  <2>4. Reporting(p)
    BY <1>1, <1>3, <2>2, <2>3 DEF Reporting, outcome, days
  <2> QED
    BY <1>1, <2>1, <2>4, OneOf DEF others
<1> QED
  BY <1>2, <1>3 DEF Report

LEMMA PassTime ==
    ASSUME IInv, NEW p \in Proc, Pass(p)
    PROVE  TimeStep
<1> DEFINE j == job[p]
           k == [j EXCEPT !.pc = "search", !.at = j.at + 1]
<1>1. j \in JobType /\ j.pc # "idle"
  BY DEF Pass, IInv, Typed, JobTyped
<1>2. job' = [job EXCEPT ![p] = k]
  BY DEF Pass, IInv, Typed
<1>3. k.date = j.date /\ k.now = j.now
  BY <1>1 DEF JobType
<1> HIDE DEF k
<1> QED
  BY <1>1, <1>2, <1>3, GoOnTime DEF Pass, others

LEMMA InstallTime ==
    ASSUME IInv, NEW p \in Proc, Install(p)
    PROVE  TimeStep
<1>1. ASSUME NEW place, NEW pc \in Writing, NEW next, InstallOpen(p, place, pc, next)
      PROVE  TimeStep
  <2>1. UNCHANGED others /\ job[p].pc # "idle"
    BY <1>1 DEF InstallOpen, Writing
  <2> QED
    BY <1>1, <2>1, GotoTime, ReturnTime DEF InstallOpen, others
<1>2. ASSUME NEW place, NEW pc \in Writing, InstallWrite(p, place, pc)
      PROVE  TimeStep
  <2>1. UNCHANGED others /\ job[p].pc # "idle"
    BY <1>2 DEF InstallWrite, Writing
  <2> QED
    BY <1>2, <2>1, GotoTime, ReturnTime DEF InstallWrite, others
<1>3. ASSUME Refuse(p)
      PROVE  TimeStep
  BY <1>3, ReturnTime DEF Refuse
<1>4. ASSUME Admit(p)
      PROVE  TimeStep
  BY <1>4, GotoTime DEF Admit, others
<1> QED
  BY <1>1, <1>2, <1>3, <1>4 DEF Install, Writing

LEMMA CrashTime ==
    ASSUME IInv, NEW p \in Proc, Crash(p)
    PROVE  TimeStep
<1>1. /\ job' = [job EXCEPT ![p] = Idle] /\ result' = [result EXCEPT ![p] = result[p]]
      /\ job'[p] = Idle /\ result'[p] = result[p]
      /\ clock' = clock /\ today' = today
  BY DEF Crash, IInv, Typed
<1>2. Steady(p)
  BY <1>1, IdleTyped DEF Steady, Carried
<1> QED
  BY <1>1, <1>2, OneOf

LEMMA TickTime ==
    ASSUME Tick
    PROVE  TimeStep
BY DEF Tick, TimeStep, Steady, Carried

LEMMA NextTime ==
    ASSUME IInv, [Next]_vars
    PROVE  TimeStep
<1>1. ASSUME NEW p \in Proc, StatusBegin(p)
      PROVE  TimeStep
  BY <1>1, BeginTime DEF StatusBegin
<1>2. ASSUME NEW p \in Proc, NEW lic \in License, InstallBegin(p, lic)
      PROVE  TimeStep
  BY <1>2, BeginTime DEF InstallBegin
<1>3. ASSUME NEW p \in Proc, Search(p) \/ Report(p) \/ Pass(p) \/ Install(p) \/ Crash(p)
      PROVE  TimeStep
  BY <1>3, SearchTime, ReportTime, PassTime, InstallTime, CrashTime
<1>4. ASSUME NEW place, NEW file, PutLicense(place, file)
      PROVE  TimeStep
  BY <1>4, Unmoved DEF PutLicense
<1>5. ASSUME NEW setup, RotateKeys(setup)
      PROVE  TimeStep
  BY <1>5, Unmoved DEF RotateKeys
<1>6. CASE UNCHANGED vars
  BY <1>6, Unmoved DEF vars
<1> QED
  BY <1>1, <1>2, <1>3, <1>4, <1>5, <1>6, TickTime DEF Next

LEMMA InitTimed == Init => Timed
<1> SUFFICES ASSUME Init
             PROVE  Timed
  OBVIOUS
<1>1. PICK s \in Starts : today = s.date /\ clock = 24 * s.days + s.date.hour
  BY DEF Init
<1>2. s.date \in Date /\ s.days = DayOf(s.date)
  BY LicenseAssumption, DaysCounted
<1>3. Hours(today) = clock
  BY <1>1, <1>2, HoursOfDate
<1>4. \A p \in Proc : job[p] = Idle /\ result[p] = NoResult
  BY DEF Init
<1>5. ~Reports(NoResult) /\ Idle.pc = "idle"
  BY DEF Reports, NoResult, Idle
<1> QED
  BY <1>3, <1>4, <1>5 DEF Timed, JobTimed, ResultTimed

LEMMA StepTimed ==
    ASSUME IInv, Timed, TimeStep
    PROVE  Timed'
<1>1. today \in Date /\ clock \in Nat /\ Hours(today) = clock
  BY DEF IInv, Typed, Timed
<1>2. Hours(today') = clock' /\ clock' \in Nat /\ clock <= clock'
  <2>1. CASE clock' = clock /\ today' = today
    BY <1>1, <2>1
  <2>2. CASE clock' = clock + 12 /\ today' = HalfDayLater(today)
    BY <1>1, <2>2, HalfDay
  <2> QED
    BY <2>1, <2>2 DEF TimeStep
<1>3. ASSUME NEW p \in Proc
      PROVE  JobTimed(job[p], clock)' /\ ResultTimed(result[p], job[p], clock)'
  <2> DEFINE j == job[p]
             k == job'[p]
             r == result[p]
             s == result'[p]
  <2>1. JobTimed(j, clock) /\ ResultTimed(r, j, clock) /\ j.now \in Nat
    BY DEF Timed, IInv, Typed, JobTyped, JobType
  <2>2. Reports(r) => Hours(r.date) \in Nat
    BY <2>1, DateFields DEF ResultTimed
  <2>3. CASE Steady(p)
    <3>1. JobTimed(k, clock')
      BY <1>1, <1>2, <2>1, <2>3 DEF Steady, Carried, JobTimed
    <3>2. CASE s = r
      <4>1. k.pc # "idle" => j.pc # "idle" /\ k.now = j.now
        BY <2>3 DEF Steady, Carried
      <4> HIDE DEF j, k, r, s
      <4>2. ResultTimed(r, k, clock')
        BY <1>1, <1>2, <2>1, <2>2, <4>1 DEF ResultTimed
      <4> QED
        BY <3>1, <3>2, <4>2 DEF k, s
    <3>3. CASE ~Reports(s)
      BY <3>1, <3>3 DEF ResultTimed
    <3> QED
      BY <2>3, <3>2, <3>3 DEF Steady
  <2>4. CASE Reporting(p)
    <3>1. k.pc = "idle" /\ j.pc # "idle"
      BY <2>4 DEF Reporting
    <3>2. j.date \in Date /\ Hours(j.date) = j.now /\ j.now <= clock
      BY <2>1, <3>1 DEF JobTimed
    <3>3. Hours(j.date) <= clock'
      BY <1>1, <1>2, <2>1, <3>2
    <3>4. ResultTimed(s, k, clock')
      BY <2>4, <3>1, <3>2, <3>3 DEF Reporting, ResultTimed
    <3> QED
      BY <3>1, <3>4 DEF JobTimed
  <2>5. CASE Beginning(p)
    <3>1. k.date = today /\ k.now = clock /\ s = r /\ j.pc = "idle"
      BY <2>5 DEF Beginning
    <3>2. JobTimed(k, clock')
      BY <1>1, <1>2, <3>1 DEF JobTimed
    <3> HIDE DEF j, k, r, s
    <3>3. ResultTimed(s, k, clock')
      BY <1>1, <1>2, <2>1, <2>2, <3>1 DEF ResultTimed
    <3> QED
      BY <3>2, <3>3 DEF k, s
  <2> QED
    BY <2>3, <2>4, <2>5 DEF TimeStep
<1> QED
  BY <1>2, <1>3 DEF Timed

\* The arithmetic of a report: later, and by no more days to go.
LEMMA LaterReport ==
    ASSUME NEW now \in Nat, NEW later \in Nat, NEW expires \in Nat, NEW grace \in Nat, now <= later
    PROVE  /\ Rank[Outcome(later, expires, grace)] >= Rank[Outcome(now, expires, grace)]
           /\ Quotient(expires - later, 24) <= Quotient(expires - now, 24)
<1>1. Rank["valid"] = 1 /\ Rank["grace_period"] = 2 /\ Rank["expired"] = 3
  BY DEF Rank
<1>2. Rank[Outcome(later, expires, grace)] >= Rank[Outcome(now, expires, grace)]
  BY <1>1 DEF Outcome
<1>3. Quotient(expires - later, 24) <= Quotient(expires - now, 24)
  BY DEF Quotient
<1> QED
  BY <1>2, <1>3

LEMMA ReportsAgain ==
    ASSUME IInv, Timed, IInv', Timed', TimeStep, NEW p \in Proc,
           Reports(result[p]), Reports(result'[p]), result'[p].lic = result[p].lic
    PROVE  /\ Rank[result'[p].outcome] >= Rank[result[p].outcome]
           /\ result'[p].days_remaining <= result[p].days_remaining
<1> DEFINE r == result[p]
           s == result'[p]
           expires == Hours(r.lic.expires)
           grace == 24 * r.lic.grace_days
           now == Hours(r.date)
           later == Hours(s.date)
<1>1. /\ r.lic \in License /\ r.lic.expires # Odd /\ r.date \in Date
      /\ r.outcome = Outcome(now, expires, grace)
      /\ r.days_remaining = Quotient(expires - now, 24)
      /\ job[p].pc # "idle" => now <= job[p].now
  BY DEF Timed, ResultTimed
<1>2. /\ s.date \in Date /\ s.outcome = Outcome(later, expires, grace)
      /\ s.days_remaining = Quotient(expires - later, 24)
  BY DEF Timed, ResultTimed
<1>3. now \in Nat /\ later \in Nat
  BY <1>1, <1>2, DateFields
<1>4. expires \in Nat /\ grace \in Nat
  <2>1. r.lic.expires \in Date /\ r.lic.grace_days \in Nat
    BY <1>1, LicenseAssumption
  <2> QED
    BY <2>1, DateFields
<1>5. now <= later
  <2>1. CASE s = r
    BY <1>3, <2>1
  <2>2. CASE Reporting(p)
    <3>1. job[p].pc # "idle" /\ s.date = job[p].date
      BY <2>2 DEF Reporting
    <3>2. Hours(job[p].date) = job[p].now
      BY <3>1 DEF Timed, JobTimed
    <3> QED
      BY <1>1, <3>1, <3>2
  <2> QED
    BY <2>1, <2>2 DEF TimeStep, Steady, Beginning
<1> HIDE DEF r, s, expires, grace, now, later
<1>6. /\ Rank[Outcome(later, expires, grace)] >= Rank[Outcome(now, expires, grace)]
      /\ Quotient(expires - later, 24) <= Quotient(expires - now, 24)
  BY <1>3, <1>4, <1>5, LaterReport
<1>7. /\ Rank[s.outcome] >= Rank[r.outcome] /\ s.days_remaining <= r.days_remaining
  BY <1>1, <1>2, <1>6
<1> QED
  BY <1>7 DEF r, s

-----------------------------------------------------------------------------
(* The theorems *)

LEMMA InitHolds == Init => IInv
<1> SUFFICES ASSUME Init
             PROVE  IInv
  OBVIOUS
<1>1. keydirs \in [KeysDir -> SUBSET KeyFile]
  BY LicenseAssumption DEF Init
<1>2. /\ ever \subseteq KeyFile /\ [kid |-> RootKid, key |-> RootKey] \in ever
      /\ \A d \in KeysDir : keydirs[d] \subseteq ever
  <2>1. [kid |-> RootKid, key |-> RootKey] \in KeyFile
    BY LicenseAssumption DEF KeyFile
  <2>2. \A d \in KeysDir : keydirs[d] \subseteq KeyFile
    BY <1>1
  <2> QED
    BY <2>1, <2>2 DEF Init
<1>3. today \in Date /\ clock \in Nat
  <2>1. PICK s \in Starts : today = s.date /\ clock = 24 * s.days + s.date.hour
    BY DEF Init
  <2>2. s.date \in Date /\ s.days = DayOf(s.date)
    BY LicenseAssumption, DaysCounted
  <2>3. DayOf(s.date) \in Nat /\ s.date.hour \in Hour
    BY <2>2, HoursOfDate
  <2> QED
    BY <2>1, <2>2, <2>3 DEF Hour
<1>4. \A p \in Proc : job[p] = Idle /\ result[p] = NoResult
  BY DEF Init
<1>5. ResultTyped(NoResult) /\ NoResult.outcome = "none"
  BY DEF NoResult, ResultTyped, Outcomes
<1>6. Typed
  BY <1>1, <1>2, <1>3, <1>4, <1>5, IdleTyped, LicenseAssumption DEF Typed, Init
<1>7. Authentic
  <2>1. FilesAuthentic
    BY LicenseAssumption DEF FilesAuthentic, Init, Place
  <2>2. Idle.pc \notin Writing
    BY IdleTyped DEF Writing
  <2> QED
    BY <1>2, <1>4, <2>1, <2>2 DEF Authentic
<1>8. \A p \in Proc : Known(p)
  BY <1>4, <1>5, IdleTyped DEF Known, ResultHolds
<1> QED
  BY <1>6, <1>7, <1>8 DEF IInv

LEMMA NextHolds == IInv /\ [Next]_vars => IInv'
<1> SUFFICES ASSUME IInv, [Next]_vars
             PROVE  IInv'
  OBVIOUS
<1>1. ASSUME NEW p \in Proc, StatusBegin(p)
      PROVE  IInv'
  BY <1>1, BeginKeeps DEF StatusBegin
<1>2. ASSUME NEW p \in Proc, NEW lic \in License, InstallBegin(p, lic)
      PROVE  IInv'
  BY <1>2, BeginKeeps DEF InstallBegin
<1>3. ASSUME NEW p \in Proc, Search(p) \/ Report(p) \/ Pass(p) \/ Install(p) \/ Crash(p)
      PROVE  IInv'
  BY <1>3, SearchKeeps, ReportKeeps, PassKeeps, InstallKeeps, CrashKeeps
<1>4. ASSUME NEW place \in Place, NEW file \in License \union {Absent}, PutLicense(place, file)
      PROVE  IInv'
  BY <1>4, PutLicenseKeeps
<1>5. ASSUME NEW setup \in KeySetups, RotateKeys(setup)
      PROVE  IInv'
  BY <1>5, RotateKeysKeeps
<1>6. CASE Tick
  BY <1>6, TickKeeps
<1>7. CASE UNCHANGED vars
  <2>1. Typed'
    BY <1>7 DEF IInv, Typed, vars
  <2>2. Authentic'
    BY <1>7 DEF IInv, Authentic, FilesAuthentic, vars
  <2>3. \A p \in Proc : Known(p)'
    <3> TAKE p \in Proc
    <3> QED
      BY <1>7, Kept DEF IInv, vars
  <2> QED
    BY <2>1, <2>2, <2>3 DEF IInv
<1> QED
  BY <1>1, <1>2, <1>3, <1>4, <1>5, <1>6, <1>7 DEF Next

\* The inductive invariant, of which the theorems on files and keys are consequences
THEOREM Invariance == Spec => []IInv
<1> QED
  BY InitHolds, NextHolds, PTL DEF Spec

\* Every state is well typed; in particular no search goes beyond its last place and no
\* call goes on without a license (license.rs, verify_license_status; main.rs, Install).
THEOREM TypeCorrect == Spec => []TypeOK
<1>1. IInv => TypeOK
  BY DEF IInv, Typed, TypeOK, JobTyped, JobType, ResultTyped, Returned, Writing
<1> QED
  BY <1>1, Invariance, PTL

\* Where only install puts a license, there is none but those a trusted key has signed,
\* whatever was cut off, failed or was rotated in the middle of it.
THEOREM InstallsAuthentic == Spec => []InstalledIsAuthentic
<1>1. IInv => InstalledIsAuthentic
  BY DEF IInv, Authentic, FilesAuthentic, SignedBy, InstalledIsAuthentic
<1> QED
  BY <1>1, Invariance, PTL

\* While nobody writes, what install has reported as installed is at a place of the search
\* order, whole and intact.
THEOREM InstallsFindable == Spec => []InstallIsFound
<1>1. IInv => InstallIsFound
  <2> SUFFICES ASSUME IInv, NEW p \in Proc, Settled(p), result[p].outcome = "installed"
               PROVE  /\ files[result[p].place] = result[p].lic /\ MayBeIntact(result[p].lic)
                      /\ result[p].place \in Names(SearchPaths(env))
    BY DEF InstallIsFound, Names
  <2> QED
    BY DEF IInv, Known, ResultHolds, Settled, MaySet
<1> QED
  BY <1>1, Invariance, PTL

\* While nobody writes, a status reports the first license of the search order that is
\* intact under the keys there are.
THEOREM ReportsFirst == Spec => []StatusFindsFirst
<1>1. IInv => StatusFindsFirst
  <2> SUFFICES ASSUME IInv
               PROVE  StatusFindsFirst
    OBVIOUS
  <2> DEFINE places == SearchPaths(env)
             HasLicense(i) == files[places[i]] \in License
             FirstAt(i) == /\ HasLicense(i) /\ MayBeIntact(files[places[i]])
                           /\ \A j \in 1 .. i - 1 : ~(HasLicense(j) /\ IsIntact(files[places[j]]))
  <2>1. \A i : First(i, files, places, MaySet, IntactSet) => FirstAt(i)
    BY DEF First, MaySet, IntactSet
  <2>2. \A i : files[places[i]] \notin IntactSet => ~(HasLicense(i) /\ IsIntact(files[places[i]]))
    BY DEF IntactSet
  <2> HIDE DEF FirstAt, HasLicense
  <2>3. ASSUME NEW p \in Proc, Settled(p), Returned(p)
        PROVE  \E i \in 1 .. Len(places) : FirstAt(i) /\ files[places[i]] = result[p].lic
    BY <2>1, <2>3 DEF IInv, Known, ResultHolds, Settled, Returned
  <2>4. ASSUME NEW p \in Proc, Settled(p), result[p].outcome = "unlicensed"
        PROVE  \/ ~ \E i \in 1 .. Len(places) : HasLicense(i) /\ IsIntact(files[places[i]])
               \/ \E i \in 1 .. Len(places) : FirstAt(i) /\ files[places[i]].expires = Odd
    BY <2>1, <2>2, <2>4 DEF IInv, Known, ResultHolds, Settled
  <2> QED
    BY <2>3, <2>4 DEF StatusFindsFirst, FirstAt, HasLicense
<1> QED
  BY <1>1, Invariance, PTL

\* Time is told right in every state: the parser counts the present day as the calendar
\* does, a call has the hours of its date, and a report is what both give.
LEMMA TimeTold == Spec => [](IInv /\ Timed)
<1>1. Init => IInv /\ Timed
  BY InitHolds, InitTimed
<1>2. IInv /\ Timed /\ [Next]_vars => (IInv /\ Timed)'
  BY NextHolds, NextTime, StepTimed
<1> QED
  BY <1>1, <1>2, PTL DEF Spec

\* However many half days pass, what the parser makes of the date is what a clock has
\* counted that was right at the beginning (license.rs, parse_iso8601_to_unix).
THEOREM CountedRight == Spec => []ParsedAsCounted
<1>1. Timed => ParsedAsCounted
  BY DEF Timed, ParsedAsCounted
<1> QED
  BY <1>1, TimeTold, PTL

\* A license is reported as valid before the date of its expiration, by the calendar, and
\* not from then on, for any dates (license.rs, verify_license_status).
THEOREM ValidByTheCalendar == Spec => []ValidUntilTheDay
<1>1. Timed => ValidUntilTheDay
  <2> SUFFICES ASSUME Timed, NEW p \in Proc, Returned(p)
               PROVE  result[p].outcome = "valid" <=> Before(result[p].date, result[p].lic.expires)
    BY DEF ValidUntilTheDay
  <2> DEFINE r == result[p]
  <2>1. /\ r.lic \in License /\ r.lic.expires # Odd /\ r.date \in Date
        /\ r.outcome = Outcome(Hours(r.date), Hours(r.lic.expires), 24 * r.lic.grace_days)
    BY DEF Timed, ResultTimed, Reports, Returned
  <2>2. r.lic.expires \in Date
    BY <2>1, LicenseAssumption
  <2>3. ASSUME NEW now \in Nat, NEW expires \in Nat, NEW grace
        PROVE  Outcome(now, expires, grace) = "valid" <=> now < expires
    BY DEF Outcome
  <2>4. Hours(r.date) \in Nat /\ Hours(r.lic.expires) \in Nat
    BY <2>1, <2>2, DateFields
  <2>5. r.outcome = "valid" <=> Hours(r.date) < Hours(r.lic.expires)
    BY <2>1, <2>3, <2>4
  <2> QED
    BY <2>1, <2>2, <2>5, OrderOfDates
<1> QED
  BY <1>1, TimeTold, PTL

\* From one status of a process to its next, a license comes no nearer to being valid.
THEOREM NeverComesBack == Spec => NeverBack
<1>1. IInv /\ Timed /\ (IInv /\ Timed)' /\ [Next]_vars =>
          [\A p \in Proc :
             Returned(p) /\ Returned(p)' /\ result'[p].lic = result[p].lic =>
                 /\ Rank[result'[p].outcome] >= Rank[result[p].outcome]
                 /\ result'[p].days_remaining <= result[p].days_remaining]_result
  BY NextTime, ReportsAgain DEF Returned, Reports
<1> QED
  BY <1>1, TimeTold, PTL DEF Spec, NeverBack
=============================================================================
