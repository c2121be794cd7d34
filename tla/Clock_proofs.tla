---------------------------- MODULE Clock_proofs ----------------------------
(***************************************************************************)
(* Theorems about Clock: for every range of years, every grid of instants  *)
(* and every setting of the switches, and whatever days the calendar       *)
(* closes.                                                                 *)
(***************************************************************************)
EXTENDS Clock, DataFacts, TLAPS

USE DEF PREMARKET_PREP_OPEN, MARKET_OPEN, EARLY_CLOSE, MARKET_CLOSE, PREP_START

-----------------------------------------------------------------------------
DayMinutes == 0..1439

\* Every session ends at one of the two bells.
LEMMA Bells == \A d : session_close(d) \in {780, 960}
BY DEF session_close

(* What the settings of the router may be. *)
LEMMA Forcible ==
    ASSUME NEW s \in Settings
    PROVE  /\ s.force \in {"", "EQUITY", "CRYPTO", "IDLE"}
           /\ s.equity_enabled \in BOOLEAN /\ s.crypto_enabled \in BOOLEAN
BY SettingsAssumption

\* Whether an instant belongs to an equity shift.
EquityShift(d, t, s) ==
    IF s.force = ""
    THEN is_trading_day(d) /\ 540 <= t /\ t < session_close(d) /\ s.equity_enabled
    ELSE s.force = "EQUITY" /\ s.equity_enabled

\* The session key, with the router taken apart: a forced regime keeps its
\* kind all day, and by the clock an equity shift lasts from 09:00 to the bell.
LEMMA KeyOf ==
    ASSUME NEW d \in Int, NEW t \in DayMinutes, NEW s \in Settings
    PROVE  session_key(At(d, t), s) =
              [kind |-> IF EquityShift(d, t, s) THEN "EQ" ELSE "CX",
               date |-> IF EquityShift(d, t, s) \/ t >= 540 THEN d ELSE d - 1]
<1> DEFINE dt == At(d, t)
<1>1. DateOf(dt) = d /\ TimeOf(dt) = t
  BY DEF DateOf, TimeOf, At, DayMinutes
<1>2. session_close(d) \in {780, 960}
  BY Bells
<1>3. natural(dt).regime \in {"PREP", "EQUITY"}
         <=> is_trading_day(d) /\ 540 <= t /\ t < session_close(d)
  BY <1>1, <1>2 DEF natural, DayMinutes
<1>4. natural(dt).regime \in {"PREP", "EQUITY", "CRYPTO"}
  BY <1>1, <1>2 DEF natural, DayMinutes
<1>5. resolve(dt, s).regime \in {"EQUITY", "PREP"} <=> EquityShift(d, t, s)
  <2>1. CASE s.force = ""
    <3>1. CASE s.equity_enabled
      <4>3. EquityShift(d, t, s) <=> natural(dt).regime \in {"PREP", "EQUITY"}
        BY <2>1, <3>1, <1>3 DEF EquityShift
      <4>1. CASE natural(dt).regime \in {"PREP", "EQUITY"}
        <5>1. resolve(dt, s).regime = natural(dt).regime
          BY <2>1, <3>1, <4>1 DEF resolve
        <5> QED BY <4>1, <4>3, <5>1
      <4>2. CASE natural(dt).regime = "CRYPTO"
        <5>1. resolve(dt, s).regime \in {"CRYPTO", "IDLE"}
          BY <2>1, <3>1, <4>2 DEF resolve
        <5> QED BY <4>2, <4>3, <5>1
      <4> QED BY <4>1, <4>2, <1>4
    <3>2. CASE ~s.equity_enabled
      BY <2>1, <3>2, <1>3, <1>4 DEF resolve, EquityShift
    <3> QED BY <3>1, <3>2
  <2>2. CASE s.force # ""
    BY <2>2, Forcible DEF resolve, EquityShift
  <2> QED BY <2>1, <2>2
<1>6. CASE EquityShift(d, t, s)
  BY <1>1, <1>5, <1>6 DEF session_key
<1>7. CASE ~EquityShift(d, t, s)
  BY <1>1, <1>5, <1>7 DEF session_key, DayMinutes
<1> QED BY <1>6, <1>7

-----------------------------------------------------------------------------
\* Dates are integers, and the walk has a last day to reach.
LEMMA Ordinals ==
    /\ \A y \in Int : Date(y, 1, 1) \in Int /\ Date(y, 12, 31) \in Int
    /\ Date(FirstYear, 1, 1) <= Date(LastYear, 12, 31)
<1>1. \A y \in Int : DaysBefore(y, 1) = 0 /\ DaysBefore(y, 12) \in {334, 335}
  BY DEF DaysBefore
<1>2. \A y \in Int : Date(y, 1, 1) \in Int /\ Date(y, 12, 31) \in Int
  BY <1>1 DEF Date
<1>3. Date(FirstYear, 1, 1) <= Date(LastYear, 12, 31)
  <2>1. FirstYear \in 1900..2199 /\ LastYear \in FirstYear..2199
    BY YearsAssumption DEF Covered
  <2> QED
    BY <1>1, <2>1 DEF Date
<1> QED BY <1>2, <1>3

\* The router answers with one of four regimes.
LEMMA Regimes ==
    ASSUME NEW d \in Int, NEW t \in DayMinutes, NEW s \in Settings
    PROVE  resolve(At(d, t), s).regime \in {"PREP", "EQUITY", "CRYPTO", "IDLE"}
<1>1. natural(At(d, t)).regime \in {"PREP", "EQUITY", "CRYPTO"}
  BY DEF natural
<1>2. CASE s.force = ""
  <2>1. CASE s.equity_enabled
    BY <1>1, <1>2, <2>1 DEF resolve
  <2>2. CASE ~s.equity_enabled
    BY <1>1, <1>2, <2>2 DEF resolve
  <2> QED BY <2>1, <2>2
<1>3. CASE s.force # ""
  BY <1>3, Forcible DEF resolve
<1> QED BY <1>2, <1>3

\* The instants of a day are times of day; midnight and the last bell are
\* among them.
LEMMA Grid == Instants \subseteq DayMinutes /\ 0 \in Instants /\ 960 \in Instants
BY InstantsAssumption DEF DayMinutes

-----------------------------------------------------------------------------
\* The walk stays inside its years, on the grid, under settings that exist,
\* and the router always answers with one of its four regimes.
THEOREM TypeCorrect == Spec => []TypeOK
<1> DEFINE Place == /\ today \in Date(FirstYear, 1, 1)..Date(LastYear, 12, 31)
                    /\ minute \in Instants
                    /\ setting \in Settings
<1>1. FirstYear \in Int /\ LastYear \in Int
  BY YearsAssumption DEF Covered
<1>2. Date(FirstYear, 1, 1) \in Int /\ Date(LastYear, 12, 31) \in Int
  BY <1>1, Ordinals
<1>3. Init => Place
  BY <1>2, Ordinals, Grid DEF Init
<1>4. Place /\ [Next]_vars => Place'
  <2> SUFFICES ASSUME Place, [Next]_vars PROVE Place'
    OBVIOUS
  <2>1. CASE Tick
    BY <2>1 DEF Tick
  <2>2. CASE Midnight
    BY <2>2, <1>2, Grid DEF Midnight
  <2>3. CASE UNCHANGED vars
    BY <2>3 DEF vars
  <2> QED BY <2>1, <2>2, <2>3 DEF Next
<1>5. Place => TypeOK
  <2> SUFFICES ASSUME Place PROVE TypeOK
    OBVIOUS
  <2>1. today \in Int /\ minute \in DayMinutes
    BY <1>2, Grid
  <2>2. resolve(At(today, minute), setting).regime
            \in {"PREP", "EQUITY", "CRYPTO", "IDLE"}
    BY <2>1, Regimes
  <2> QED BY <2>2 DEF TypeOK, now
<1> QED BY <1>3, <1>4, <1>5, PTL DEF Spec

\* Within a day an equity shift cannot begin after nine o'clock, nor end before.
LEMMA WithinADay ==
    ASSUME NEW d \in Int, NEW t \in DayMinutes, NEW u \in DayMinutes,
           NEW s \in Settings, t < u
    PROVE  /\ EquityShift(d, u, s) /\ t >= 540 => EquityShift(d, t, s)
           /\ EquityShift(d, t, s) => EquityShift(d, u, s) \/ u >= 540
<1>1. CASE s.force = ""
  <2>1. session_close(d) \in Int
    BY Bells
  <2>2. \A v \in DayMinutes : EquityShift(d, v, s) <=>
           is_trading_day(d) /\ 540 <= v /\ v < session_close(d) /\ s.equity_enabled
    BY <1>1 DEF EquityShift
  <2>3. 540 <= t => 540 <= u
    BY DEF DayMinutes
  <2>4. u < session_close(d) => t < session_close(d)
    BY <2>1 DEF DayMinutes
  <2>5. t >= 540 <=> 540 <= t
    BY DEF DayMinutes
  <2>6. u >= 540 <=> 540 <= u
    BY DEF DayMinutes
  <2> QED BY <2>2, <2>3, <2>4, <2>5, <2>6
<1>2. CASE s.force # ""
  BY <1>2 DEF EquityShift
<1> QED BY <1>1, <1>2

\* The shift of a trade's key never comes back, and a night is one shift.
THEOREM KeysOnlyAdvance == Spec => ShiftsNeverComeBack
<1>1. TypeOK /\ TypeOK' /\ [Next]_vars => [KeysAdvance]_vars
  <2> SUFFICES ASSUME TypeOK, TypeOK', Next PROVE KeysAdvance
    OBVIOUS
  <2> DEFINE e == EquityShift(today, minute, setting)
             e2 == EquityShift(today, minute, setting)'
  <2>1. /\ today \in Int /\ minute \in DayMinutes /\ setting \in Settings
        /\ today' \in Int /\ minute' \in DayMinutes /\ setting' \in Settings
    BY Ordinals, YearsAssumption, Grid DEF TypeOK, Covered
  <2>2. /\ session_key(now, setting) =
              [kind |-> IF e THEN "EQ" ELSE "CX",
               date |-> IF e \/ minute >= 540 THEN today ELSE today - 1]
        /\ session_key(now, setting)' =
              [kind |-> IF e2 THEN "EQ" ELSE "CX",
               date |-> IF e2 \/ minute' >= 540 THEN today' ELSE today' - 1]
    BY <2>1, KeyOf DEF now
  <2>3. setting' = setting
    BY DEF Next, Tick, Midnight
  <2>4. CASE Tick
    <3>1. today' = today /\ minute < minute'
      BY <2>4 DEF Tick
    \* From nine o'clock on a crypto shift lasts to the end of the day.
    <3>2. e2 /\ minute >= 540 => e
      BY <2>1, <2>3, <3>1, WithinADay
    \* An equity shift by the clock ends after nine; a forced one does not end.
    <3>3. e => e2 \/ minute' >= 540
      BY <2>1, <2>3, <3>1, WithinADay
    <3> HIDE DEF e, e2
    <3> QED BY <2>1, <2>2, <3>1, <3>2, <3>3 DEF KeysAdvance, KeyRank, DayMinutes
  <2>5. CASE Midnight
    <3>1. today' = today + 1 /\ minute' = 0 /\ minute >= 960
      BY <2>5, Grid DEF Midnight
    <3> HIDE DEF e, e2
    <3> QED BY <2>1, <2>2, <3>1 DEF KeysAdvance, KeyRank, DayMinutes
  <2> QED BY <2>4, <2>5 DEF Next
<1> QED BY <1>1, TypeCorrect, PTL DEF Spec, ShiftsNeverComeBack
-----------------------------------------------------------------------------
(* Dates. *)

\* The first day of a year, and its leap day.
LeapDay(y) == IF Leap(y) THEN 1 ELSE 0
YearStart(y) ==
    365 * (y - 1) + (y - 1) \div 4 - (y - 1) \div 100 + (y - 1) \div 400 + 1

\* The days before each month, in its year.
LEMMA MonthOffsets ==
    ASSUME NEW y \in Int
    PROVE  /\ DaysBefore(y, 1) = 0 /\ DaysBefore(y, 2) = 31
           /\ DaysBefore(y, 3) = 59 + LeapDay(y) /\ DaysBefore(y, 4) = 90 + LeapDay(y)
           /\ DaysBefore(y, 5) = 120 + LeapDay(y) /\ DaysBefore(y, 6) = 151 + LeapDay(y)
           /\ DaysBefore(y, 7) = 181 + LeapDay(y) /\ DaysBefore(y, 8) = 212 + LeapDay(y)
           /\ DaysBefore(y, 9) = 243 + LeapDay(y) /\ DaysBefore(y, 10) = 273 + LeapDay(y)
           /\ DaysBefore(y, 11) = 304 + LeapDay(y) /\ DaysBefore(y, 12) = 334 + LeapDay(y)
<1>1. DaysBefore(y, 1) = 0 /\ DaysBefore(y, 2) = 31
  BY DEF DaysBefore
<1>2. DaysBefore(y, 3) = 59 + LeapDay(y) /\ DaysBefore(y, 4) = 90 + LeapDay(y)
  BY DEF DaysBefore, LeapDay
<1>3. DaysBefore(y, 5) = 120 + LeapDay(y) /\ DaysBefore(y, 6) = 151 + LeapDay(y)
  BY DEF DaysBefore, LeapDay
<1>4. DaysBefore(y, 7) = 181 + LeapDay(y) /\ DaysBefore(y, 8) = 212 + LeapDay(y)
  BY DEF DaysBefore, LeapDay
<1>5. DaysBefore(y, 9) = 243 + LeapDay(y) /\ DaysBefore(y, 10) = 273 + LeapDay(y)
  BY DEF DaysBefore, LeapDay
<1>6. DaysBefore(y, 11) = 304 + LeapDay(y) /\ DaysBefore(y, 12) = 334 + LeapDay(y)
  BY DEF DaysBefore, LeapDay
<1> QED
  BY <1>1, <1>2, <1>3, <1>4, <1>5, <1>6

\* A date is the start of its year, the days of the months before and the day.
LEMMA DateOfMonth ==
    ASSUME NEW y \in Int, NEW m \in 1..12, NEW k \in Int
    PROVE  /\ Date(y, m, k) = YearStart(y) + DaysBefore(y, m) + k - 1
           /\ YearStart(y) \in Int /\ LeapDay(y) \in {0, 1} /\ DaysBefore(y, m) \in 0..335
           /\ Date(y, m, k) \in Int
<1>1. LeapDay(y) \in {0, 1}
  BY DEF LeapDay
<1>2. DaysBefore(y, m) \in 0..335
  BY <1>1, MonthOffsets
<1>3. YearStart(y) \in Int
  BY DEF YearStart
<1> QED
  BY <1>1, <1>2, <1>3 DEF Date, YearStart

(* The first of a month is the first of January and the days before it. *)
LEMMA FirstOfMonth ==
    ASSUME NEW y \in Int, NEW m \in 1..12
    PROVE  /\ Date(y, m, 1) = YearStart(y) + DaysBefore(y, m) /\ DaysBefore(y, m) \in 0..335
           /\ YearStart(y) \in Int /\ LeapDay(y) \in {0, 1}
<1> DEFINE k == 1
<1>1. k \in Int
  OBVIOUS
<1> HIDE DEF k
<1>2. Date(y, m, k) = YearStart(y) + DaysBefore(y, m) + k - 1
  BY <1>1, DateOfMonth
<1>3. YearStart(y) \in Int /\ DaysBefore(y, m) \in 0..335
  BY ZenonT(40), <1>1, DateOfMonth
<1>4. LeapDay(y) \in {0, 1}
  BY <1>1, DateOfMonth
<1> QED
  BY <1>2, <1>3, <1>4 DEF k

\* A year is 365 days long, and its leap day.
LEMMA YearLength ==
    ASSUME NEW y \in Int
    PROVE  YearStart(y + 1) = YearStart(y) + 365 + LeapDay(y)
<1> DEFINE p == y - 1
<1>1. /\ y \div 4 = p \div 4 + (IF y % 4 = 0 THEN 1 ELSE 0)
  OBVIOUS
<1>2. y \div 100 = p \div 100 + (IF y % 100 = 0 THEN 1 ELSE 0)
  OBVIOUS
<1>3. y \div 400 = p \div 400 + (IF y % 400 = 0 THEN 1 ELSE 0)
  OBVIOUS
<1>4. (y % 400 = 0 => y % 100 = 0) /\ (y % 100 = 0 => y % 4 = 0)
  OBVIOUS
<1>5. YearStart(y + 1) = 365 * y + y \div 4 - y \div 100 + y \div 400 + 1
  BY DEF YearStart
<1>6. YearStart(y) = 365 * p + p \div 4 - p \div 100 + p \div 400 + 1
  BY DEF YearStart
<1> QED
  BY <1>1, <1>2, <1>3, <1>4, <1>5, <1>6 DEF LeapDay, Leap

\* A later year starts a year later at the least.
LEMMA YearsInOrder ==
    ASSUME NEW y \in Int, NEW z \in Int, y < z
    PROVE  YearStart(y + 1) <= YearStart(z)
<1>1. \A a, b \in Int : a <= b => YearStart(a) <= YearStart(b)
  <2> SUFFICES ASSUME NEW a \in Int, NEW b \in Int, a <= b PROVE YearStart(a) <= YearStart(b)
    OBVIOUS
  <2> DEFINE p == a - 1
             q == b - 1
  <2>1. q \div 4 - p \div 4 >= 0
    OBVIOUS
  <2>2. p < q => q \div 100 - p \div 100 <= q - p
    OBVIOUS
  <2>3. q \div 400 - p \div 400 >= 0
    OBVIOUS
  <2>4. YearStart(b) - YearStart(a) = 365 * (q - p) + (q \div 4 - p \div 4)
           - (q \div 100 - p \div 100) + (q \div 400 - p \div 400)
    BY DEF YearStart
  <2>5. CASE a = b
    BY <2>5 DEF YearStart
  <2>6. CASE a < b
    BY <2>1, <2>2, <2>3, <2>4, <2>6 DEF YearStart
  <2> QED
    BY <2>5, <2>6
<1> QED
  BY <1>1

-----------------------------------------------------------------------------
(* The year and the month of a date. *)

(* The years of the walk are whole, between 1900 and 2200, without a gap. *)
LEMMA YearsAreYears ==
    /\ \A y \in Years : y \in Int /\ 1900 <= y /\ y <= 2200
    /\ FirstYear \in Int /\ LastYear \in Int /\ FirstYear <= LastYear
    /\ \A y \in Int : FirstYear <= y /\ y <= LastYear + 1 => y \in Years
BY YearsAssumption DEF Years, Covered

InYear(d, y) == YearStart(y) <= d /\ d < YearStart(y + 1)

\* A date lies in one year only, and that is the one it is said to lie in.
LEMMA YearIs ==
    ASSUME NEW d \in Int, NEW y \in Years, InYear(d, y)
    PROVE  YearOf(d) = y
<1>1. \A z \in Years : Date(z, 1, 1) = YearStart(z) /\ Date(z + 1, 1, 1) = YearStart(z + 1)
  <2> SUFFICES ASSUME NEW z \in Int
               PROVE  Date(z, 1, 1) = YearStart(z) /\ Date(z + 1, 1, 1) = YearStart(z + 1)
    BY YearsAreYears
  <2>1. \A x \in Int : Date(x, 1, 1) = YearStart(x)
    <3> SUFFICES ASSUME NEW x \in Int PROVE Date(x, 1, 1) = YearStart(x)
      OBVIOUS
    <3>1. DaysBefore(x, 1) = 0
      BY MonthOffsets
    <3> QED
      BY <3>1, DateOfMonth
  <2> QED
    BY <2>1
<1>2. \A z \in Years : InYear(d, z) => z = y
  <2> SUFFICES ASSUME NEW z \in Years, InYear(d, z) PROVE z = y
    OBVIOUS
  <2>1. z \in Int /\ y \in Int
    BY YearsAreYears
  <2>2. /\ YearStart(y) \in Int /\ YearStart(z) \in Int
        /\ YearStart(y + 1) \in Int /\ YearStart(z + 1) \in Int
    BY <2>1 DEF YearStart
  <2>3. ~(z < y)
    <3>1. z < y => YearStart(z + 1) <= YearStart(y)
      BY <2>1, YearsInOrder
    <3> QED
      BY <2>2, <3>1 DEF InYear
  <2>4. ~(y < z)
    <3>1. y < z => YearStart(y + 1) <= YearStart(z)
      BY <2>1, YearsInOrder
    <3> QED
      BY <2>2, <3>1 DEF InYear
  <2> QED
    BY <2>1, <2>3, <2>4
<1>3. YearOf(d) = CHOOSE z \in Years : InYear(d, z)
  BY <1>1 DEF YearOf, InYear
<1> QED
  BY <1>2, <1>3

\* Every day from the first year to the one after the last lies in a year.
LEMMA YearExists ==
    ASSUME NEW d \in Int, YearStart(FirstYear) <= d, d < YearStart(LastYear + 2)
    PROVE  \E y \in Years : InYear(d, y) /\ YearOf(d) = y
<1> DEFINE T == {y \in Nat : FirstYear <= y /\ d < YearStart(y + 1)}
<1>1. \A y \in Int : YearStart(y) \in Int
  BY DEF YearStart
<1>2. LastYear + 1 \in T
  <2>1. LastYear + 1 + 1 = LastYear + 2 /\ LastYear + 1 \in Nat /\ FirstYear <= LastYear + 1
    BY YearsAreYears, YearsAssumption DEF Covered
  <2> QED
    BY <2>1
<1>3. PICK y \in T : \A k \in T : y <= k
  BY <1>2, LeastNatural
<1>4. y \in Nat /\ FirstYear <= y /\ d < YearStart(y + 1) /\ y <= LastYear + 1
  BY <1>2, <1>3
<1>5. y \in Years
  BY <1>4, YearsAreYears
<1>6. YearStart(y) <= d
  <2>1. CASE y = FirstYear
    BY <2>1
  <2>2. CASE y # FirstYear
    <3>1. y - 1 \in Nat /\ FirstYear <= y - 1 /\ (y - 1) + 1 = y
      BY <1>4, <2>2, YearsAssumption DEF Covered
    <3>2. y - 1 \notin T
      BY <1>3, <1>4, <3>1
    <3>3. ~(d < YearStart(y))
      BY <3>1, <3>2
    <3> QED
      BY <1>1, <1>4, <3>3
  <2> QED
    BY <2>1, <2>2
<1> QED
  BY <1>4, <1>5, <1>6, YearIs DEF InYear

\* The month of a date is the one it lies in, and its day is counted in it.
LEMMA MonthIs ==
    ASSUME NEW d \in Int, NEW y \in Years, InYear(d, y), NEW m \in 1..12
    PROVE  /\ MonthOf(d) \in 1..12
           /\ MonthOf(d) = m <=> Date(y, m, 1) <= d /\ (m = 12 \/ d < Date(y, m + 1, 1))
           /\ MonthOf(d) = m => DayOf(d) = d - Date(y, m, 1) + 1
<1> DEFINE In(n) == Date(y, n, 1) <= d /\ (n = 12 \/ d < Date(y, n + 1, 1))
           o(n) == DaysBefore(y, n)
<1>1. y \in Int /\ YearOf(d) = y
  BY YearsAreYears, YearIs
<1>2. /\ YearStart(y) \in Int /\ LeapDay(y) \in {0, 1}
      /\ \A n \in 1..12 : Date(y, n, 1) = YearStart(y) + o(n) /\ o(n) \in 0..335
  <2>1. ASSUME NEW n \in 1..12
        PROVE  /\ Date(y, n, 1) = YearStart(y) + o(n) /\ o(n) \in 0..335
               /\ YearStart(y) \in Int /\ LeapDay(y) \in {0, 1}
    <3>1. Date(y, n, 1) = YearStart(y) + o(n)
      BY <1>1, FirstOfMonth
    <3>2. o(n) \in 0..335 /\ YearStart(y) \in Int
      BY ZenonT(40), <1>1, FirstOfMonth
    <3>3. LeapDay(y) \in {0, 1}
      BY <1>1, FirstOfMonth
    <3> QED
      BY <3>1, <3>2, <3>3
  <2>2. YearStart(y) \in Int /\ LeapDay(y) \in {0, 1}
    <3>1. 1 \in 1..12
      OBVIOUS
    <3> QED
      BY <2>1, <3>1
  <2> HIDE DEF o
  <2> QED
    BY <2>1, <2>2
<1>3. \A n \in 1..12 : In(n) <=> o(n) <= d - YearStart(y)
                                  /\ (n = 12 \/ d - YearStart(y) < o(n + 1))
  <2> SUFFICES ASSUME NEW n \in 1..12
               PROVE  In(n) <=> o(n) <= d - YearStart(y)
                                  /\ (n = 12 \/ d - YearStart(y) < o(n + 1))
    OBVIOUS
  <2>1. Date(y, n, 1) = YearStart(y) + o(n) /\ o(n) \in Int
    BY <1>2
  <2>2. n # 12 => Date(y, n + 1, 1) = YearStart(y) + o(n + 1) /\ o(n + 1) \in Int
    BY <1>2
  <2> HIDE DEF o
  <2> QED
    BY <1>2, <2>1, <2>2
<1>4. \A i, j \in 1..12 : i < j => o(i + 1) <= o(j)
  <2>1. /\ o(1) = 0 /\ o(2) = 31 /\ o(3) = 59 + LeapDay(y) /\ o(4) = 90 + LeapDay(y)
        /\ o(5) = 120 + LeapDay(y) /\ o(6) = 151 + LeapDay(y)
        /\ o(7) = 181 + LeapDay(y) /\ o(8) = 212 + LeapDay(y)
        /\ o(9) = 243 + LeapDay(y) /\ o(10) = 273 + LeapDay(y)
        /\ o(11) = 304 + LeapDay(y) /\ o(12) = 334 + LeapDay(y)
    BY <1>1, MonthOffsets
  <2> HIDE DEF o
  <2>2. \A i \in 1..11 : o(i) <= o(i + 1) /\ o(i) \in Int /\ o(i + 1) \in Int
    BY <1>2, <2>1
  <2>3. \A i, j \in 2..12 : i <= j => o(i) <= o(j)
    BY <1>2, <2>1
  <2> QED
    BY <2>3
<1>5. \A i, j \in 1..12 : In(i) /\ In(j) => i = j
  <2> SUFFICES ASSUME NEW i \in 1..12, NEW j \in 1..12, In(i), In(j), i < j PROVE FALSE
    OBVIOUS
  <2>1. d - YearStart(y) < o(i + 1) /\ o(j) <= d - YearStart(y)
    BY <1>3
  <2>2. o(i + 1) <= o(j) /\ o(i + 1) \in Int /\ o(j) \in Int
    <3>1. i + 1 \in 1..12
      OBVIOUS
    <3> HIDE DEF o, In
    <3>2. o(i + 1) \in 0..335 /\ o(j) \in 0..335
      BY <1>2, <3>1, Zenon
    <3>3. o(i + 1) <= o(j)
      BY <1>4, Zenon
    <3> QED
      BY <3>2, <3>3
  <2> QED
    BY <1>2, <2>1, <2>2
<1>6. \E n \in 1..12 : In(n)
  <2>1. Date(y, 1, 1) <= d
    <3>1. o(1) = 0
      BY <1>1, MonthOffsets
    <3> QED
      BY <1>2, <3>1 DEF InYear
  <2> DEFINE T == {n \in 0..11 : n = 11 \/ d < Date(y, n + 2, 1)}
  <2>2. T \subseteq Nat /\ 11 \in T
    OBVIOUS
  <2>3. PICK n \in T : \A k \in T : n <= k
    BY <2>2, LeastNatural
  <2>4. n \in 0..11 /\ n + 1 \in 1..12 /\ (n + 1 = 12 \/ d < Date(y, (n + 1) + 1, 1))
    <3>1. n \in 0..11 /\ (n + 1) + 1 = n + 2
      BY <2>3
    <3> QED
      BY <2>3, <3>1
  <2>5. Date(y, n + 1, 1) <= d
    <3>1. CASE n = 0
      BY <2>1, <3>1
    <3>2. CASE n # 0
      <4>1. n - 1 \in 0..11 /\ n - 1 # 11 /\ (n - 1) + 2 = n + 1 /\ ~(n <= n - 1)
        BY <2>4, <3>2
      <4>2. ~(d < Date(y, n + 1, 1))
        BY <2>3, <4>1
      <4>3. Date(y, n + 1, 1) \in Int
        <5> HIDE DEF o, T
        <5>1. Date(y, n + 1, 1) = YearStart(y) + o(n + 1) /\ o(n + 1) \in 0..335
          BY <1>2, <2>4, Zenon
        <5> QED
          BY <1>2, <5>1
      <4> QED
        BY <4>2, <4>3
    <3> QED
      BY <3>1, <3>2
  <2> QED
    BY <2>4, <2>5
<1>7. MonthOf(d) = CHOOSE n \in 1..12 : In(n)
  BY <1>1 DEF MonthOf
<1>8. MonthOf(d) \in 1..12 /\ In(MonthOf(d))
  BY <1>6, <1>7
<1>9. MonthOf(d) = m <=> In(m)
  BY <1>5, <1>8
<1>10. MonthOf(d) = m => DayOf(d) = d - Date(y, m, 1) + 1
  BY <1>1 DEF DayOf
<1> QED
  BY <1>8, <1>9, <1>10

-----------------------------------------------------------------------------
(* Easter. *)

\* The moon's age, the days to its Sunday and the correction of the rule.
EasterH(y) ==
    LET b == y \div 100
    IN  (19 * (y % 19) + b - b \div 4 - ((b - ((b + 8) \div 25) + 1) \div 3) + 15) % 30
EasterL(y) ==
    (32 + 2 * ((y \div 100) % 4) + 2 * ((y % 100) \div 4) - EasterH(y)
        - ((y % 100) % 4)) % 7
EasterM(y) == ((y % 19) + 11 * EasterH(y) + 22 * EasterL(y)) \div 451

(* The intermediate numbers of the computus stay within their ranges. *)
LEMMA EasterParts ==
    ASSUME NEW y \in Nat
    PROVE  EasterH(y) \in 0..29 /\ EasterL(y) \in 0..6 /\ EasterM(y) \in 0..1
<1>1. EasterH(y) \in 0..29
  BY DEF EasterH
<1>2. EasterL(y) \in 0..6
  BY <1>1 DEF EasterL
<1>3. y % 19 \in 0..18
  OBVIOUS
<1>4. EasterM(y) \in 0..1
  BY <1>1, <1>2, <1>3 DEF EasterM
<1> QED
  BY <1>1, <1>2, <1>4

\* March and April in a row: Easter, counted from the 21st of March.
LEMMA EasterDate ==
    ASSUME NEW y \in Nat
    PROVE  easter_sunday(y)
             = YearStart(y) + LeapDay(y) + 80 + EasterH(y) + EasterL(y) - 7 * EasterM(y)
<1> DEFINE h == EasterH(y)
           l == EasterL(y)
           m == EasterM(y)
           n == h + l - 7 * m + 114
<1>1. easter_sunday(y) = Date(y, n \div 31, (n % 31) + 1)
  BY DEF easter_sunday, EasterH, EasterL, EasterM
<1>2. h \in 0..29 /\ l \in 0..6 /\ m \in 0..1
  BY EasterParts
<1> HIDE DEF h, l, m
<1>3. n \in 107..149
  BY <1>2
<1>4. YearStart(y) \in Int /\ LeapDay(y) \in {0, 1}
  BY DEF YearStart, LeapDay
<1>5. CASE n < 124
  <2>1. n \div 31 = 3 /\ n % 31 = n - 93
    BY <1>3, <1>5
  <2>2. (n % 31) + 1 \in Int
    BY <1>3
  <2>3. Date(y, 3, (n % 31) + 1) = YearStart(y) + DaysBefore(y, 3) + ((n % 31) + 1) - 1
    BY <2>2, DateOfMonth
  <2>4. DaysBefore(y, 3) = 59 + LeapDay(y)
    BY MonthOffsets
  <2>5. Date(y, 3, (n % 31) + 1) = YearStart(y) + LeapDay(y) + 59 + (n - 93)
    BY <1>3, <1>4, <2>1, <2>3, <2>4
  <2> QED
    BY <1>1, <1>2, <1>4, <2>1, <2>5 DEF h, l, m
<1>6. CASE ~(n < 124)
  <2>1. n \div 31 = 4 /\ n % 31 = n - 124
    BY <1>3, <1>6
  <2>2. (n % 31) + 1 \in Int
    BY <1>3
  <2>3. Date(y, 4, (n % 31) + 1) = YearStart(y) + DaysBefore(y, 4) + ((n % 31) + 1) - 1
    BY <2>2, DateOfMonth
  <2>4. DaysBefore(y, 4) = 90 + LeapDay(y)
    BY MonthOffsets
  <2>5. Date(y, 4, (n % 31) + 1) = YearStart(y) + LeapDay(y) + 90 + (n - 124)
    BY <1>3, <1>4, <2>1, <2>3, <2>4
  <2> QED
    BY <1>1, <1>2, <1>4, <2>1, <2>5 DEF h, l, m
<1> QED
  BY <1>5, <1>6

\* Easter Sunday is a Sunday, in every year.
LEMMA EasterIsASunday ==
    ASSUME NEW y \in Nat
    PROVE  Weekday(easter_sunday(y)) = 6
<1> DEFINE b == y \div 100
           c == y % 100
           d == b \div 4
           e == b % 4
           i == c \div 4
           k == c % 4
           h == EasterH(y)
           l == EasterL(y)
           m == EasterM(y)
           s == 32 + 2 * e + 2 * i - h - k
<1>1. y = 100 * b + c /\ b = 4 * d + e /\ c = 4 * i + k
  OBVIOUS
<1>2. b \in Int /\ c \in 0..99 /\ d \in Int /\ e \in 0..3 /\ i \in 0..24 /\ k \in 0..3
  OBVIOUS
<1>3. y \div 4 = 25 * b + i /\ y \div 400 = d
  <2>1. y \div 4 = 25 * b + i
    OBVIOUS
  <2>2. y \div 400 = d
    OBVIOUS
  <2> QED
    BY <2>1, <2>2
<1>4. YearStart(y) + LeapDay(y) = 365 * (y - 1) + y \div 4 - y \div 100 + y \div 400 + 1
  <2>1. YearStart(y + 1) = YearStart(y) + 365 + LeapDay(y)
    BY YearLength
  <2>2. YearStart(y + 1) = 365 * y + y \div 4 - y \div 100 + y \div 400 + 1
    BY DEF YearStart
  <2>3. YearStart(y) \in Int /\ LeapDay(y) \in {0, 1}
    BY DEF YearStart, LeapDay
  <2> QED
    BY <2>1, <2>2, <2>3
<1>5. h \in 0..29 /\ l \in 0..6 /\ m \in 0..1
  BY EasterParts
<1>6. l = s % 7
  BY DEF EasterL
<1>7. y \div 100 = b
  OBVIOUS
<1>8. easter_sunday(y) = YearStart(y) + LeapDay(y) + 80 + h + l - 7 * m
  BY EasterDate
<1>9. YearStart(y) \in Int /\ LeapDay(y) \in {0, 1}
  BY DEF YearStart, LeapDay
<1> HIDE DEF b, c, d, e, i, k, h, l, m
<1>10. s \in Int
  BY <1>2, <1>5
<1> DEFINE q == s \div 7
<1>11. q \in Int /\ l = s - 7 * q
  <2> HIDE DEF s
  <2> QED
    BY <1>6, <1>10
<1> HIDE DEF q
<1> DEFINE x == 20871 * d + 5218 * e + 209 * i + 52 * k - q - m - 36
<1>12. easter_sunday(y) + 6 = 7 * x + 6
  BY <1>1, <1>2, <1>3, <1>4, <1>5, <1>7, <1>8, <1>9, <1>11
<1>13. x \in Int
  BY <1>2, <1>5, <1>11
<1> HIDE DEF x
<1>14. (7 * x + 6) % 7 = 6
  BY <1>13
<1> QED
  BY <1>12, <1>14 DEF Weekday

\* From 1900 to 2199 it is the Sunday after the paschal full moon.
LEMMA EasterAgrees ==
    ASSUME NEW y \in 1900..2199
    PROVE  easter_sunday(y) = RefEaster(y)
<1> DEFINE a == y % 19
           b == y \div 100
           h == EasterH(y)
           l == EasterL(y)
           m == EasterM(y)
           n == (19 * a + 24) % 30
           k == IF n = 29 \/ (n = 28 /\ a > 10) THEN n - 1 ELSE n
           e == easter_sunday(y)
<1>1. y \in Nat /\ a \in 0..18
  OBVIOUS
<1>2. h = n
  <2>1. b \in 19..21
    OBVIOUS
  <2>2. b - b \div 4 - ((b - ((b + 8) \div 25) + 1) \div 3) + 15 = 24
    <3> HIDE DEF b
    <3>1. b = 19 \/ b = 20 \/ b = 21
      BY <2>1
    <3> QED
      BY <3>1
  <2>3. 19 * a + b - b \div 4 - ((b - ((b + 8) \div 25) + 1) \div 3) + 15 = 19 * a + 24
    <3> DEFINE f == (b - ((b + 8) \div 25) + 1) \div 3
               g == b \div 4
    <3>1. f \in Int /\ g \in Int
      BY <2>1
    <3> HIDE DEF f, g
    <3>2. b - g - f + 15 = 24
      BY <2>2 DEF f, g
    <3>3. 19 * a + b - g - f + 15 = 19 * a + 24
      <4> HIDE DEF a, b
      <4> QED
        BY <1>1, <2>1, <3>1, <3>2
    <3> QED
      BY <3>3 DEF f, g
  <2> QED
    BY <2>3 DEF EasterH
<1>3. h \in 0..29 /\ l \in 0..6 /\ m \in 0..1
  BY <1>1, EasterParts
<1>4. m = (a + 11 * h + 22 * l) \div 451
  BY DEF EasterM
<1>5. e = YearStart(y) + LeapDay(y) + 80 + h + l - 7 * m
  BY <1>1, EasterDate
<1>6. Weekday(e) = 6
  BY <1>1, EasterIsASunday
<1>7. YearStart(y) \in Int /\ LeapDay(y) \in {0, 1}
  BY DEF YearStart, LeapDay
<1>8. PaschalMoon(y) = YearStart(y) + LeapDay(y) + 79 + k
  <2>1. Date(y, 3, 21) = YearStart(y) + DaysBefore(y, 3) + 21 - 1
    BY <1>1, DateOfMonth
  <2>2. DaysBefore(y, 3) = 59 + LeapDay(y)
    BY <1>1, MonthOffsets
  <2>3. PaschalMoon(y) = Date(y, 3, 21) + k
    BY DEF PaschalMoon
  <2>4. k \in Int
    BY <1>2, <1>3
  <2> HIDE DEF k
  <2> QED
    BY <1>7, <2>1, <2>2, <2>3, <2>4
<1> HIDE DEF a, h, l, m, n, e
<1>9. h + l - 7 * m - k \in 0..6
  <2>1. m = 1 <=> a + 11 * h + 22 * l >= 451
    BY <1>1, <1>3, <1>4
  <2>2. CASE h = 29 \/ (h = 28 /\ a > 10)
    <3>1. k = h - 1
      BY <1>2, <2>2
    <3>2. m = 1 <=> l = 6
      BY <1>1, <1>3, <2>1, <2>2
    <3> HIDE DEF k
    <3> QED
      BY <1>3, <3>1, <3>2
  <2>3. CASE ~(h = 29 \/ (h = 28 /\ a > 10))
    <3>1. k = h
      BY <1>2, <2>3
    <3>2. m = 0
      BY <1>1, <1>3, <2>1, <2>3
    <3> HIDE DEF k
    <3> QED
      BY <1>3, <3>1, <3>2
  <2> QED
    BY <2>2, <2>3
<1>10. k \in Int
  BY <1>2, <1>3
<1> HIDE DEF k
<1> DEFINE p == PaschalMoon(y)
<1>11. p \in Int /\ e \in (p + 1)..(p + 7)
  BY <1>3, <1>5, <1>7, <1>8, <1>9, <1>10
<1> HIDE DEF p
<1>12. \A x, z \in (p + 1)..(p + 7) : Weekday(x) = 6 /\ Weekday(z) = 6 => x = z
  BY <1>11 DEF Weekday
<1>13. RefEaster(y) = CHOOSE x \in (p + 1)..(p + 7) : Weekday(x) = 6
  BY DEF RefEaster, p
<1> QED
  BY <1>6, <1>11, <1>12, <1>13 DEF e

-----------------------------------------------------------------------------
(* The closures of a year. *)

\* The dates of a year that its rules name, counted from its first day.
LEMMA YearTable ==
    ASSUME NEW y \in Int
    PROVE  /\ YearStart(y) \in Int /\ LeapDay(y) \in {0, 1}
           /\ YearStart(y + 1) = YearStart(y) + 365 + LeapDay(y)
           /\ Date(y, 1, 1) = YearStart(y)
           /\ Date(y, 2, 1) = YearStart(y) + 31
           /\ Date(y, 3, 1) = YearStart(y) + 59 + LeapDay(y)
           /\ Date(y, 5, 1) = YearStart(y) + 120 + LeapDay(y)
           /\ Date(y, 6, 1) = YearStart(y) + 151 + LeapDay(y)
           /\ Date(y, 6, 19) = YearStart(y) + 169 + LeapDay(y)
           /\ Date(y, 7, 1) = YearStart(y) + 181 + LeapDay(y)
           /\ Date(y, 7, 3) = YearStart(y) + 183 + LeapDay(y)
           /\ Date(y, 7, 4) = YearStart(y) + 184 + LeapDay(y)
           /\ Date(y, 8, 1) = YearStart(y) + 212 + LeapDay(y)
           /\ Date(y, 9, 1) = YearStart(y) + 243 + LeapDay(y)
           /\ Date(y, 10, 1) = YearStart(y) + 273 + LeapDay(y)
           /\ Date(y, 11, 1) = YearStart(y) + 304 + LeapDay(y)
           /\ Date(y, 12, 1) = YearStart(y) + 334 + LeapDay(y)
           /\ Date(y, 12, 24) = YearStart(y) + 357 + LeapDay(y)
           /\ Date(y, 12, 25) = YearStart(y) + 358 + LeapDay(y)
           /\ Date(y, 12, 31) = YearStart(y) + 364 + LeapDay(y)
<1> DEFINE S == YearStart(y)
           L == LeapDay(y)
<1>1. S \in Int /\ L \in {0, 1} /\ YearStart(y + 1) = S + 365 + L
  BY YearLength DEF YearStart, LeapDay
<1>2. ASSUME NEW m \in 1..12, NEW k \in Int
      PROVE  Date(y, m, k) = S + DaysBefore(y, m) + k - 1
  BY DateOfMonth
<1>3. /\ DaysBefore(y, 1) = 0 /\ DaysBefore(y, 2) = 31
      /\ DaysBefore(y, 3) = 59 + L /\ DaysBefore(y, 5) = 120 + L
      /\ DaysBefore(y, 6) = 151 + L /\ DaysBefore(y, 7) = 181 + L
      /\ DaysBefore(y, 8) = 212 + L /\ DaysBefore(y, 9) = 243 + L
      /\ DaysBefore(y, 10) = 273 + L /\ DaysBefore(y, 11) = 304 + L
      /\ DaysBefore(y, 12) = 334 + L
  BY MonthOffsets
<1> HIDE DEF S, L
<1>4. /\ Date(y, 1, 1) = S /\ Date(y, 2, 1) = S + 31
      /\ Date(y, 3, 1) = S + 59 + L /\ Date(y, 5, 1) = S + 120 + L
  BY <1>1, <1>2, <1>3
<1>5. /\ Date(y, 6, 1) = S + 151 + L /\ Date(y, 7, 1) = S + 181 + L
      /\ Date(y, 8, 1) = S + 212 + L /\ Date(y, 9, 1) = S + 243 + L
  BY <1>1, <1>2, <1>3
<1>6. /\ Date(y, 10, 1) = S + 273 + L /\ Date(y, 11, 1) = S + 304 + L
      /\ Date(y, 12, 1) = S + 334 + L
  BY <1>1, <1>2, <1>3
<1>7. /\ Date(y, 6, 19) = S + 169 + L /\ Date(y, 7, 4) = S + 184 + L
      /\ Date(y, 7, 3) = S + 183 + L
  BY <1>1, <1>2, <1>3
<1>8. /\ Date(y, 12, 24) = S + 357 + L
      /\ Date(y, 12, 25) = S + 358 + L /\ Date(y, 12, 31) = S + 364 + L
  BY <1>1, <1>2, <1>3
<1> QED
  BY <1>1, <1>4, <1>5, <1>6, <1>7, <1>8 DEF S, L

(* easter_sunday is a day number. *)
LEMMA EasterIsADate ==
    ASSUME NEW y \in Nat
    PROVE  easter_sunday(y) \in Int
<1>1. easter_sunday(y)
        = YearStart(y) + LeapDay(y) + 80 + EasterH(y) + EasterL(y) - 7 * EasterM(y)
  BY EasterDate
<1>2. EasterH(y) \in 0..29 /\ EasterL(y) \in 0..6 /\ EasterM(y) \in 0..1
  BY EasterParts
<1>3. YearStart(y) \in Int /\ LeapDay(y) \in {0, 1}
  BY YearTable
<1> QED
  BY <1>1, <1>2, <1>3

\* Dates are whole numbers.
LEMMA DatesAreWhole ==
    ASSUME NEW y \in Int, NEW m \in 1..12
    PROVE  Date(y, m, 1) \in Int
<1>1. Date(y, m, 1) = YearStart(y) + DaysBefore(y, m)
  BY FirstOfMonth
<1>2. YearStart(y) \in Int /\ DaysBefore(y, m) \in 0..335
  BY ZenonT(40), FirstOfMonth
<1> QED
  BY <1>1, <1>2

(* Days of the week are numbered 0 to 6, and repeat every seven days. *)
LEMMA WeekdayIs == \A d \in Int : Weekday(d) \in 0..6 /\ Weekday(d) = (d + 6) % 7
BY DEF Weekday

\* The n-th weekday of a month is the one in the n-th week of its days.
LEMMA NthWeekday ==
    ASSUME NEW y \in Int, NEW m \in 1..12, NEW w \in 0..6, NEW n \in 1..5, NEW d \in Int
    PROVE  d = nth_weekday(y, m, w, n)
             <=> /\ Weekday(d) = w
                 /\ Date(y, m, 1) + 7 * (n - 1) <= d /\ d < Date(y, m, 1) + 7 * n
<1> DEFINE f == Date(y, m, 1)
<1>1. f \in Int
  BY DatesAreWhole
<1>2. nth_weekday(y, m, w, n) = f + ((w - Weekday(f)) % 7) + 7 * (n - 1)
  BY DEF nth_weekday
<1> HIDE DEF f
<1> DEFINE g == (w - Weekday(f)) % 7
<1>3. g \in 0..6 /\ Weekday(f + g) = w
  BY <1>1 DEF Weekday
<1>4. \A x \in 0..6 : Weekday(f + x) = w => x = g
  BY <1>1, <1>3 DEF Weekday
<1> HIDE DEF g
<1>5. \A x \in Int : Weekday(x) = Weekday(x - 7 * (n - 1))
  BY DEF Weekday
<1>6. ASSUME d = f + g + 7 * (n - 1)
      PROVE  Weekday(d) = w /\ f + 7 * (n - 1) <= d /\ d < f + 7 * n
  <2>1. d - 7 * (n - 1) = f + g
    BY <1>1, <1>3, <1>6
  <2> QED
    BY <1>1, <1>3, <1>5, <1>6, <2>1
<1>7. ASSUME Weekday(d) = w, f + 7 * (n - 1) <= d, d < f + 7 * n
      PROVE  d = f + g + 7 * (n - 1)
  <2> DEFINE x == d - 7 * (n - 1) - f
  <2>1. x \in 0..6 /\ f + x = d - 7 * (n - 1)
    BY <1>1, <1>7
  <2>2. Weekday(f + x) = w
    BY <1>5, <1>7, <2>1
  <2>3. x = g
    BY <1>4, <2>1, <2>2
  <2> QED
    BY <1>1, <1>3, <2>3
<1> QED
  BY <1>2, <1>6, <1>7 DEF f, g

\* The last Monday of May is the one in its last week.
LEMMA LastMonday ==
    ASSUME NEW y \in Int, NEW d \in Int
    PROVE  d = last_weekday(y, 5, 0)
             <=> /\ Weekday(d) = 0
                 /\ Date(y, 5, 1) + 24 <= d /\ d < Date(y, 6, 1)
<1> DEFINE e == Date(y, 6, 1) - 1
<1>1. e \in Int /\ Date(y, 5, 1) + 24 = e - 6 /\ Date(y, 6, 1) = e + 1
  <2>1. Date(y, 5, 1) = YearStart(y) + 120 + LeapDay(y)
    BY YearTable
  <2>2. Date(y, 6, 1) = YearStart(y) + 151 + LeapDay(y)
    BY YearTable
  <2>3. YearStart(y) \in Int /\ LeapDay(y) \in {0, 1}
    BY YearTable
  <2> QED
    BY <2>1, <2>2, <2>3
<1>2. last_weekday(y, 5, 0) = e - ((Weekday(e) - 0) % 7)
  BY DEF last_weekday
<1> HIDE DEF e
<1>3. Weekday(e) \in 0..6
  BY <1>1, WeekdayIs
<1>4. last_weekday(y, 5, 0) = e - Weekday(e)
  BY <1>2, <1>3
<1>5. d = e - Weekday(e) <=> Weekday(d) = 0 /\ e - 6 <= d /\ d < e + 1
  BY <1>1 DEF Weekday
<1> QED
  BY <1>1, <1>4, <1>5

\* A day of a month between two of its days.
LEMMA DaysOfMonth ==
    ASSUME NEW y \in Years, NEW d \in Int, InYear(d, y), NEW m \in 1..12,
           NEW i \in 1..31, NEW j \in i..31,
           m = 12 \/ Date(y, m, 1) + j <= Date(y, m + 1, 1)
    PROVE  MonthOf(d) = m /\ DayOf(d) \in i..j
             <=> Date(y, m, 1) + i - 1 <= d /\ d < Date(y, m, 1) + j
<1>1. y \in Int
  BY YearsAreYears
<1>2. Date(y, m, 1) \in Int
  BY <1>1, DatesAreWhole
<1>3. m # 12 => Date(y, m + 1, 1) \in Int
  <2>1. m # 12 => m + 1 \in 1..12
    OBVIOUS
  <2> QED
    BY <1>1, <2>1, DatesAreWhole
<1>4. MonthOf(d) = m <=> Date(y, m, 1) <= d /\ (m = 12 \/ d < Date(y, m + 1, 1))
  BY MonthIs
<1>5. MonthOf(d) = m => DayOf(d) = d - Date(y, m, 1) + 1
  BY MonthIs
<1> QED
  BY <1>2, <1>3, <1>4, <1>5

\* The feasts with a fixed date, in a year.
FeastsOf(y) ==
    {Date(y, 1, 1), Date(y, 7, 4), Date(y, 12, 25)}
       \cup (IF y >= 2022 THEN {Date(y, 6, 19)} ELSE {})

(* The feasts with a fixed date, within one year, are the listed days. *)
LEMMA FeastsOfYear ==
    ASSUME NEW y \in Years, NEW d \in Int, InYear(d, y)
    PROVE  Feast(d) <=> d \in FeastsOf(y)
<1>1. y \in Int /\ YearOf(d) = y
  BY YearsAreYears, YearIs
<1>2. ASSUME NEW m \in {1, 6, 7, 12}, NEW i \in 1..28
      PROVE  MonthOf(d) = m /\ DayOf(d) = i <=> d = Date(y, m, 1) + i - 1
  <2>1. m \in 1..12 /\ i \in 1..31 /\ i \in i..31
    OBVIOUS
  <2>2. m = 12 \/ Date(y, m, 1) + i <= Date(y, m + 1, 1)
    <3>1. Date(y, 1, 1) = YearStart(y) /\ Date(y, 2, 1) = YearStart(y) + 31
      BY <1>1, YearTable
    <3>2. /\ Date(y, 6, 1) = YearStart(y) + 151 + LeapDay(y)
          /\ Date(y, 7, 1) = YearStart(y) + 181 + LeapDay(y)
      BY <1>1, YearTable
    <3>3. Date(y, 8, 1) = YearStart(y) + 212 + LeapDay(y)
      BY <1>1, YearTable
    <3>4. YearStart(y) \in Int /\ LeapDay(y) \in {0, 1}
      BY <1>1, YearTable
    <3>5. CASE m = 1
      BY <3>1, <3>4, <3>5
    <3>6. CASE m = 6
      BY <3>2, <3>4, <3>6
    <3>7. CASE m = 7
      BY <3>2, <3>3, <3>4, <3>7
    <3> QED
      BY <3>5, <3>6, <3>7
  <2>3. MonthOf(d) = m /\ DayOf(d) \in i..i
          <=> Date(y, m, 1) + i - 1 <= d /\ d < Date(y, m, 1) + i
    BY <2>1, <2>2, DaysOfMonth
  <2>4. DayOf(d) \in i..i <=> DayOf(d) = i
    OBVIOUS
  <2>5. Date(y, m, 1) \in Int
    BY <1>1, <2>1, DatesAreWhole
  <2> QED
    BY <2>3, <2>4, <2>5
<1>3. /\ Date(y, 1, 1) = Date(y, 1, 1) + 1 - 1 /\ Date(y, 6, 19) = Date(y, 6, 1) + 19 - 1
      /\ Date(y, 7, 4) = Date(y, 7, 1) + 4 - 1 /\ Date(y, 12, 25) = Date(y, 12, 1) + 25 - 1
  <2>1. YearStart(y) \in Int /\ LeapDay(y) \in {0, 1}
    BY <1>1, YearTable
  <2>2. Date(y, 1, 1) = Date(y, 1, 1) + 1 - 1
    <3>1. Date(y, 1, 1) = YearStart(y)
      BY <1>1, YearTable
    <3> QED
      BY <2>1, <3>1
  <2>3. Date(y, 6, 19) = Date(y, 6, 1) + 19 - 1
    <3>1. Date(y, 6, 19) = YearStart(y) + 169 + LeapDay(y)
      BY <1>1, YearTable
    <3>2. Date(y, 6, 1) = YearStart(y) + 151 + LeapDay(y)
      BY <1>1, YearTable
    <3> QED
      BY <2>1, <3>1, <3>2
  <2>4. Date(y, 7, 4) = Date(y, 7, 1) + 4 - 1
    <3>1. Date(y, 7, 4) = YearStart(y) + 184 + LeapDay(y)
      BY <1>1, YearTable
    <3>2. Date(y, 7, 1) = YearStart(y) + 181 + LeapDay(y)
      BY <1>1, YearTable
    <3> QED
      BY <2>1, <3>1, <3>2
  <2>5. Date(y, 12, 25) = Date(y, 12, 1) + 25 - 1
    <3>1. Date(y, 12, 25) = YearStart(y) + 358 + LeapDay(y)
      BY <1>1, YearTable
    <3>2. Date(y, 12, 1) = YearStart(y) + 334 + LeapDay(y)
      BY <1>1, YearTable
    <3> QED
      BY <2>1, <3>1, <3>2
  <2> QED
    BY <2>2, <2>3, <2>4, <2>5
<1>4. /\ MonthOf(d) = 1 /\ DayOf(d) = 1 <=> d = Date(y, 1, 1)
      /\ MonthOf(d) = 6 /\ DayOf(d) = 19 <=> d = Date(y, 6, 19)
  BY <1>2, <1>3
<1>5. /\ MonthOf(d) = 7 /\ DayOf(d) = 4 <=> d = Date(y, 7, 4)
      /\ MonthOf(d) = 12 /\ DayOf(d) = 25 <=> d = Date(y, 12, 25)
  BY <1>2, <1>3
<1> QED
  BY <1>1, <1>4, <1>5 DEF Feast, FeastsOf

\* The rules that name the n-th weekday of a month, and the reference that
\* names the days it may fall on, mean the same days.
LEMMA WeekdayFeasts ==
    ASSUME NEW y \in Years, NEW d \in Int, InYear(d, y)
    PROVE  /\ d = nth_weekday(y, 1, 0, 3)
                <=> Weekday(d) = 0 /\ MonthOf(d) = 1 /\ DayOf(d) \in 15..21
           /\ d = nth_weekday(y, 2, 0, 3)
                <=> Weekday(d) = 0 /\ MonthOf(d) = 2 /\ DayOf(d) \in 15..21
           /\ d = last_weekday(y, 5, 0)
                <=> Weekday(d) = 0 /\ MonthOf(d) = 5 /\ DayOf(d) >= 25
           /\ d = nth_weekday(y, 9, 0, 1)
                <=> Weekday(d) = 0 /\ MonthOf(d) = 9 /\ DayOf(d) <= 7
           /\ d = nth_weekday(y, 11, 3, 4)
                <=> Weekday(d) = 3 /\ MonthOf(d) = 11 /\ DayOf(d) \in 22..28
           /\ d - 1 = nth_weekday(y, 11, 3, 4)
                <=> Weekday(d) = 4 /\ MonthOf(d) = 11 /\ DayOf(d) \in 23..29
<1>1. y \in Int
  BY YearsAreYears
<1>2. YearStart(y) \in Int /\ LeapDay(y) \in {0, 1}
  BY <1>1, YearTable
<1>3. ASSUME NEW m \in {1, 2, 11}, NEW w \in 0..6, NEW n \in {3, 4},
             Date(y, m, 1) + 28 <= Date(y, m + 1, 1)
      PROVE  d = nth_weekday(y, m, w, n)
               <=> Weekday(d) = w /\ MonthOf(d) = m /\ DayOf(d) \in (7 * n - 6)..(7 * n)
  <2>1. m \in 1..12 /\ n \in 1..5 /\ m # 12
    OBVIOUS
  <2>2. /\ 7 * n - 6 \in 1..31 /\ 7 * n \in (7 * n - 6)..31
        /\ Date(y, m, 1) \in Int /\ Date(y, m + 1, 1) \in Int
    <3>1. m + 1 \in 1..12
      OBVIOUS
    <3>2. Date(y, m, 1) \in Int /\ Date(y, m + 1, 1) \in Int
      BY <1>1, <2>1, <3>1, DatesAreWhole
    <3>3. 7 * n - 6 \in 1..31 /\ 7 * n \in (7 * n - 6)..31
      BY <2>1
    <3> QED
      BY <3>2, <3>3
  <2> DEFINE i == 7 * n - 6
             j == 7 * n
  <2>3. Date(y, m, 1) + j <= Date(y, m + 1, 1)
    BY <1>3, <2>2
  <2>4. i \in 1..31 /\ j \in i..31
    BY <2>2
  <2>5. i - 1 = 7 * (n - 1) /\ j = 7 * n
    OBVIOUS
  <2> HIDE DEF i, j
  <2>6. MonthOf(d) = m /\ DayOf(d) \in i..j
          <=> Date(y, m, 1) + i - 1 <= d /\ d < Date(y, m, 1) + j
    BY <2>1, <2>3, <2>4, DaysOfMonth
  <2>7. d = nth_weekday(y, m, w, n)
          <=> /\ Weekday(d) = w
              /\ Date(y, m, 1) + 7 * (n - 1) <= d /\ d < Date(y, m, 1) + 7 * n
    BY <1>1, <2>1, NthWeekday
  <2>8. Date(y, m, 1) + i - 1 = Date(y, m, 1) + 7 * (n - 1)
    BY <2>2, <2>4, <2>5
  <2> QED
    BY <2>5, <2>6, <2>7, <2>8 DEF i, j
<1>4. Date(y, 1, 1) + 28 <= Date(y, 1 + 1, 1) /\ Date(y, 2, 1) + 28 <= Date(y, 2 + 1, 1)
  <2>1. Date(y, 1, 1) = YearStart(y) /\ Date(y, 2, 1) = YearStart(y) + 31
    BY <1>1, YearTable
  <2>2. Date(y, 3, 1) = YearStart(y) + 59 + LeapDay(y)
    BY <1>1, YearTable
  <2> QED
    BY <1>2, <2>1, <2>2
<1>5. Date(y, 11, 1) + 30 = Date(y, 11 + 1, 1) /\ Date(y, 11, 1) \in Int
  <2>1. /\ Date(y, 11, 1) = YearStart(y) + 304 + LeapDay(y)
        /\ Date(y, 12, 1) = YearStart(y) + 334 + LeapDay(y)
    BY <1>1, YearTable
  <2> QED
    BY <1>2, <2>1
<1>6. /\ d = nth_weekday(y, 1, 0, 3)
           <=> Weekday(d) = 0 /\ MonthOf(d) = 1 /\ DayOf(d) \in 15..21
      /\ d = nth_weekday(y, 2, 0, 3)
           <=> Weekday(d) = 0 /\ MonthOf(d) = 2 /\ DayOf(d) \in 15..21
  <2>1. /\ 1 \in {1, 2, 11} /\ 2 \in {1, 2, 11} /\ 3 \in {3, 4} /\ 0 \in 0..6
        /\ 7 * 3 - 6 = 15 /\ 7 * 3 = 21
    OBVIOUS
  <2>2. d = nth_weekday(y, 1, 0, 3)
          <=> Weekday(d) = 0 /\ MonthOf(d) = 1 /\ DayOf(d) \in (7 * 3 - 6)..(7 * 3)
    BY <1>3, <1>4, <2>1
  <2>3. d = nth_weekday(y, 2, 0, 3)
          <=> Weekday(d) = 0 /\ MonthOf(d) = 2 /\ DayOf(d) \in (7 * 3 - 6)..(7 * 3)
    BY <1>3, <1>4, <2>1
  <2> QED
    BY <2>1, <2>2, <2>3
<1>7. d = nth_weekday(y, 11, 3, 4)
        <=> Weekday(d) = 3 /\ MonthOf(d) = 11 /\ DayOf(d) \in 22..28
  <2>1. 11 \in {1, 2, 11} /\ 4 \in {3, 4} /\ 3 \in 0..6 /\ 7 * 4 - 6 = 22 /\ 7 * 4 = 28
    OBVIOUS
  <2>2. Date(y, 11, 1) + 28 <= Date(y, 11 + 1, 1)
    BY <1>5
  <2>3. d = nth_weekday(y, 11, 3, 4)
          <=> Weekday(d) = 3 /\ MonthOf(d) = 11 /\ DayOf(d) \in (7 * 4 - 6)..(7 * 4)
    BY <1>3, <2>1, <2>2
  <2> QED
    BY <2>1, <2>3
<1>8. d - 1 = nth_weekday(y, 11, 3, 4)
        <=> Weekday(d) = 4 /\ MonthOf(d) = 11 /\ DayOf(d) \in 23..29
  <2>1. MonthOf(d) = 11 /\ DayOf(d) \in 23..29
          <=> Date(y, 11, 1) + 23 - 1 <= d /\ d < Date(y, 11, 1) + 29
    <3> DEFINE m == 11
               i == 23
               k == 29
    <3>1. m \in 1..12 /\ i \in 1..31 /\ k \in i..31
          /\ Date(y, m, 1) + k <= Date(y, m + 1, 1)
      BY <1>5
    <3> HIDE DEF m, i, k
    <3>2. MonthOf(d) = m /\ DayOf(d) \in i..k
            <=> Date(y, m, 1) + i - 1 <= d /\ d < Date(y, m, 1) + k
      BY <3>1, DaysOfMonth
    <3> QED
      BY <3>2 DEF m, i, k
  <2>2. d - 1 = nth_weekday(y, 11, 3, 4)
          <=> /\ Weekday(d - 1) = 3
              /\ Date(y, 11, 1) + 7 * (4 - 1) <= d - 1 /\ d - 1 < Date(y, 11, 1) + 7 * 4
    <3>1. 11 \in 1..12 /\ 3 \in 0..6 /\ 4 \in 1..5 /\ d - 1 \in Int
      OBVIOUS
    <3> QED
      BY <1>1, <3>1, NthWeekday
  <2>3. Weekday(d - 1) = 3 <=> Weekday(d) = 4
    BY DEF Weekday
  <2> QED
    BY <1>5, <2>1, <2>2, <2>3
<1>9. d = last_weekday(y, 5, 0)
        <=> Weekday(d) = 0 /\ MonthOf(d) = 5 /\ DayOf(d) >= 25
  <2>1. /\ MonthOf(d) = 5 <=> Date(y, 5, 1) <= d /\ (5 = 12 \/ d < Date(y, 5 + 1, 1))
        /\ MonthOf(d) = 5 => DayOf(d) = d - Date(y, 5, 1) + 1
    <3>1. 5 \in 1..12
      OBVIOUS
    <3> QED
      BY <3>1, MonthIs
  <2>2. d = last_weekday(y, 5, 0)
          <=> Weekday(d) = 0 /\ Date(y, 5, 1) + 24 <= d /\ d < Date(y, 6, 1)
    BY <1>1, LastMonday
  <2>3. Date(y, 5, 1) \in Int
    BY <1>1, DatesAreWhole
  <2> QED
    BY <2>1, <2>2, <2>3
<1>10. d = nth_weekday(y, 9, 0, 1)
         <=> Weekday(d) = 0 /\ MonthOf(d) = 9 /\ DayOf(d) <= 7
  <2>1. /\ MonthOf(d) = 9 <=> Date(y, 9, 1) <= d /\ (9 = 12 \/ d < Date(y, 9 + 1, 1))
        /\ MonthOf(d) = 9 => DayOf(d) = d - Date(y, 9, 1) + 1
    <3>1. 9 \in 1..12
      OBVIOUS
    <3> QED
      BY <3>1, MonthIs
  <2>2. d = nth_weekday(y, 9, 0, 1)
          <=> /\ Weekday(d) = 0
              /\ Date(y, 9, 1) + 7 * (1 - 1) <= d /\ d < Date(y, 9, 1) + 7 * 1
    <3>1. 9 \in 1..12 /\ 0 \in 0..6 /\ 1 \in 1..5
      OBVIOUS
    <3> QED
      BY <1>1, <3>1, NthWeekday
  <2>3. Date(y, 9, 1) \in Int /\ Date(y, 9, 1) + 30 = Date(y, 10, 1)
    <3>1. /\ Date(y, 9, 1) = YearStart(y) + 243 + LeapDay(y)
          /\ Date(y, 10, 1) = YearStart(y) + 273 + LeapDay(y)
      BY <1>1, YearTable
    <3> QED
      BY <1>2, <3>1
  <2> QED
    BY <2>1, <2>2, <2>3
<1> QED
  BY <1>6, <1>7, <1>8, <1>9, <1>10

\* The weekdays follow each other.
LEMMA Weekdays ==
    ASSUME NEW x \in Int, NEW d \in Int
    PROVE  /\ Weekday(d) \in 0..6 /\ Weekday(x) \in 0..6
           /\ d = x + 1 => Weekday(d) = IF Weekday(x) = 6 THEN 0 ELSE Weekday(x) + 1
           /\ x = d + 1 => Weekday(x) = IF Weekday(d) = 6 THEN 0 ELSE Weekday(d) + 1
           /\ d - 1 = x <=> d = x + 1
           /\ d = x - 1 <=> x = d + 1
<1>1. \A e \in Int : /\ Weekday(e) \in 0..6
                     /\ Weekday(e + 1) = IF Weekday(e) = 6 THEN 0 ELSE Weekday(e) + 1
  BY DEF Weekday
<1> QED
  BY <1>1

\* A feast with a fixed date on a weekend is kept on the weekday next to it;
\* New Year on a Saturday is not kept at all.
NewYearOn(x) == IF Weekday(x) # 5 THEN {observed(x, FALSE)} ELSE {}
Kept(x) ==
    {d \in Int : d = x \/ (Weekday(d) = 0 /\ d - 1 = x) \/ (Weekday(d) = 4 /\ d + 1 = x)}
NewYearKept(x) == {d \in Int : d = x \/ (Weekday(d) = 0 /\ d - 1 = x)}

(* On a weekday, a feast kept with observance is the feast or its substitute. *)
LEMMA Observance ==
    ASSUME NEW x \in Int, NEW d \in Int, Weekday(d) \in 0..4
    PROVE  /\ d = observed(x, TRUE) <=> d \in Kept(x)
           /\ d \in NewYearOn(x) <=> d \in NewYearKept(x)
<1>1. Weekday(d) \in Int /\ Weekday(x) \in Int
  BY Weekdays
<1>2. PICK w \in Int : w = Weekday(d)
  BY <1>1
<1>3. PICK v \in Int : v = Weekday(x)
  BY <1>1
<1>4. /\ w \in 0..4 /\ v \in 0..6
      /\ d = x => w = v
      /\ d = x + 1 => w = IF v = 6 THEN 0 ELSE v + 1
      /\ x = d + 1 => v = IF w = 6 THEN 0 ELSE w + 1
  BY <1>2, <1>3, Weekdays
<1>5. d \in Kept(x) <=> d = x \/ (w = 0 /\ d - 1 = x) \/ (w = 4 /\ d + 1 = x)
  BY <1>2 DEF Kept
<1>6. d \in NewYearKept(x) <=> d = x \/ (w = 0 /\ d - 1 = x)
  BY <1>2 DEF NewYearKept
<1>7. CASE v = 5
  <2>1. observed(x, TRUE) = x - 1 /\ NewYearOn(x) = {}
    BY <1>3, <1>7 DEF observed, NewYearOn
  <2>2. d \in Kept(x) <=> d = x - 1
    BY <1>4, <1>5, <1>7
  <2>3. d \notin NewYearKept(x)
    BY <1>4, <1>6, <1>7
  <2> QED
    BY <2>1, <2>2, <2>3
<1>8. CASE v = 6
  <2>1. observed(x, TRUE) = x + 1 /\ NewYearOn(x) = {x + 1}
    BY <1>3, <1>8 DEF observed, NewYearOn
  <2>2. d \in Kept(x) <=> d = x + 1
    BY <1>4, <1>5, <1>8
  <2>3. d \in NewYearKept(x) <=> d = x + 1
    BY <1>4, <1>6, <1>8
  <2> QED
    BY <2>1, <2>2, <2>3
<1>9. CASE v # 5 /\ v # 6
  <2>1. observed(x, TRUE) = x /\ NewYearOn(x) = {x}
    BY <1>3, <1>9 DEF observed, NewYearOn
  <2>2. d \in Kept(x) <=> d = x
    BY <1>4, <1>5, <1>9
  <2>3. d \in NewYearKept(x) <=> d = x
    BY <1>4, <1>6, <1>9
  <2> QED
    BY <2>1, <2>2, <2>3
<1> QED
  BY <1>7, <1>8, <1>9

\* The feasts that are the n-th weekday of a month.
Floating(y) == {nth_weekday(y, 1, 0, 3), nth_weekday(y, 2, 0, 3),
                last_weekday(y, 5, 0), nth_weekday(y, 9, 0, 1),
                nth_weekday(y, 11, 3, 4)}
JuneKept(y, j) == IF y >= 2022 THEN Kept(j) ELSE {}
JuneOn(y, j) == IF y >= 2022 THEN {observed(j, TRUE)} ELSE {}

(* The weekdays of holidays(y): floating feasts, Good Friday, and fixed feasts as kept. *)
LEMMA HolidayRules ==
    ASSUME NEW y \in Int, NEW n \in Int, NEW j \in Int, NEW u \in Int, NEW x \in Int,
           n = Date(y, 1, 1), j = Date(y, 6, 19), u = Date(y, 7, 4), x = Date(y, 12, 25),
           NEW d \in Int, Weekday(d) \in 0..4
    PROVE  d \in holidays(y)
             <=> \/ d \in Floating(y) \/ d \in {easter_sunday(y) - 2}
                 \/ d \in NewYearKept(n) \/ d \in JuneKept(y, j)
                 \/ d \in Kept(u) \/ d \in Kept(x)
<1>1. holidays(y) = NewYearOn(n) \cup Floating(y) \cup {easter_sunday(y) - 2}
                      \cup JuneOn(y, j) \cup {observed(u, TRUE)} \cup {observed(x, TRUE)}
  <2>1. holidays(y)
          = NewYearOn(n) \cup {nth_weekday(y, 1, 0, 3), nth_weekday(y, 2, 0, 3),
                               easter_sunday(y) - 2, last_weekday(y, 5, 0)}
                \cup JuneOn(y, j)
                \cup {observed(u, TRUE), nth_weekday(y, 9, 0, 1),
                      nth_weekday(y, 11, 3, 4), observed(x, TRUE)}
    BY DEF holidays, NewYearOn, JuneOn
  <2> DEFINE a == nth_weekday(y, 1, 0, 3)
             b == nth_weekday(y, 2, 0, 3)
             c == last_weekday(y, 5, 0)
             e == nth_weekday(y, 9, 0, 1)
             f == nth_weekday(y, 11, 3, 4)
             g == easter_sunday(y) - 2
             N == NewYearOn(n)
             J == JuneOn(y, j)
             o == observed(u, TRUE)
             p == observed(x, TRUE)
  <2>2. Floating(y) = {a, b, c, e, f}
    BY DEF Floating
  <2>3. holidays(y) = N \cup {a, b, g, c} \cup J \cup {o, e, f, p}
    BY <2>1
  <2> HIDE DEF a, b, c, e, f, g, N, J, o, p
  <2>4. holidays(y) = N \cup Floating(y) \cup {g} \cup J \cup {o} \cup {p}
    BY <2>2, <2>3
  <2> QED
    BY <2>4 DEF g, N, J, o, p
<1>2. ASSUME NEW e \in Int PROVE d \in {observed(e, TRUE)} <=> d \in Kept(e)
  BY Observance
<1>3. d \in NewYearOn(n) <=> d \in NewYearKept(n)
  BY Observance
<1>4. d \in JuneOn(y, j) <=> d \in JuneKept(y, j)
  <2>1. CASE y >= 2022
    <3>1. JuneOn(y, j) = {observed(j, TRUE)} /\ JuneKept(y, j) = Kept(j)
      BY <2>1 DEF JuneOn, JuneKept
    <3> QED
      BY <1>2, <3>1
  <2>2. CASE ~(y >= 2022)
    BY <2>2 DEF JuneOn, JuneKept
  <2> QED
    BY <2>1, <2>2
<1>5. d \in {observed(u, TRUE)} <=> d \in Kept(u)
  BY <1>2
<1>6. d \in {observed(x, TRUE)} <=> d \in Kept(x)
  BY <1>2
<1>7. d \in holidays(y)
        <=> \/ d \in NewYearOn(n) \/ d \in Floating(y) \/ d \in {easter_sunday(y) - 2}
            \/ d \in JuneOn(y, j) \/ d \in {observed(u, TRUE)} \/ d \in {observed(x, TRUE)}
  BY <1>1
<1> QED
  BY <1>3, <1>4, <1>5, <1>6, <1>7

\* The days the feasts with a fixed date fall on.
FeastDays == {e \in Int : Feast(e)}

(* The same, as a set of days. *)
LEMMA FeastDaysOfYear ==
    ASSUME NEW y \in Years, NEW d \in Int, InYear(d, y)
    PROVE  d \in FeastDays <=> d \in FeastsOf(y)
<1>1. Feast(d) <=> d \in FeastsOf(y)
  BY FeastsOfYear
<1>2. d \in FeastDays <=> Feast(d)
  BY Zenon DEF FeastDays
<1> QED
  BY <1>1, <1>2, Zenon

\* The rules of a year close the weekdays the exchange closes in it.
LEMMA HolidaysAgree ==
    ASSUME NEW y \in Years, y \in 1900..2199, NEW d \in Int, InYear(d, y),
           Weekday(d) \in 0..4
    PROVE  d \in holidays(y) <=> RefHoliday(d)
<1> DEFINE n == Date(y, 1, 1)
           j == Date(y, 6, 19)
           u == Date(y, 7, 4)
           x == Date(y, 12, 25)
<1>1. y \in Int /\ y \in 1900..2199 /\ y \in Nat /\ YearOf(d) = y
  BY YearsAreYears, YearIs
<1>2. YearStart(y) \in Int /\ LeapDay(y) \in {0, 1} /\ n = YearStart(y)
  BY <1>1, YearTable
<1>3. j = YearStart(y) + 169 + LeapDay(y) /\ u = YearStart(y) + 184 + LeapDay(y)
  BY <1>1, YearTable
<1>4. x = YearStart(y) + 358 + LeapDay(y)
  BY <1>1, YearTable
<1>5. Date(y, 12, 1) = YearStart(y) + 334 + LeapDay(y)
  BY <1>1, YearTable
<1>6. InYear(d, y) /\ YearStart(y + 1) = YearStart(y) + 365 + LeapDay(y)
  BY <1>1, YearTable
<1>7. d \in holidays(y)
        <=> \/ d \in Floating(y) \/ d \in {easter_sunday(y) - 2}
            \/ d \in NewYearKept(n) \/ d \in JuneKept(y, j)
            \/ d \in Kept(u) \/ d \in Kept(x)
  <2>1. n \in Int /\ j \in Int /\ u \in Int /\ x \in Int
    BY <1>2, <1>3, <1>4
  <2> HIDE DEF n, j, u, x
  <2>2. Weekday(d) \in 0..4
    OBVIOUS
  <2>3. n = Date(y, 1, 1) /\ j = Date(y, 6, 19) /\ u = Date(y, 7, 4) /\ x = Date(y, 12, 25)
    BY DEF n, j, u, x
  <2> QED
    BY <1>1, <2>1, <2>2, <2>3, HolidayRules
<1>8. d \in Floating(y)
        <=> \/ Weekday(d) = 0 /\ MonthOf(d) \in {1, 2} /\ DayOf(d) \in 15..21
            \/ Weekday(d) = 0 /\ MonthOf(d) = 5 /\ DayOf(d) >= 25
            \/ Weekday(d) = 0 /\ MonthOf(d) = 9 /\ DayOf(d) <= 7
            \/ Weekday(d) = 3 /\ MonthOf(d) = 11 /\ DayOf(d) \in 22..28
  <2>1. d = nth_weekday(y, 1, 0, 3) \/ d = nth_weekday(y, 2, 0, 3)
          <=> Weekday(d) = 0 /\ MonthOf(d) \in {1, 2} /\ DayOf(d) \in 15..21
    <3>1. d = nth_weekday(y, 1, 0, 3)
            <=> Weekday(d) = 0 /\ MonthOf(d) = 1 /\ DayOf(d) \in 15..21
      BY WeekdayFeasts
    <3>2. d = nth_weekday(y, 2, 0, 3)
            <=> Weekday(d) = 0 /\ MonthOf(d) = 2 /\ DayOf(d) \in 15..21
      BY WeekdayFeasts
    <3> QED
      BY <3>1, <3>2
  <2>2. d = last_weekday(y, 5, 0) <=> Weekday(d) = 0 /\ MonthOf(d) = 5 /\ DayOf(d) >= 25
    BY WeekdayFeasts
  <2>3. d = nth_weekday(y, 9, 0, 1) <=> Weekday(d) = 0 /\ MonthOf(d) = 9 /\ DayOf(d) <= 7
    BY WeekdayFeasts
  <2>4. d = nth_weekday(y, 11, 3, 4)
          <=> Weekday(d) = 3 /\ MonthOf(d) = 11 /\ DayOf(d) \in 22..28
    BY WeekdayFeasts
  <2>5. d \in Floating(y)
          <=> \/ (d = nth_weekday(y, 1, 0, 3) \/ d = nth_weekday(y, 2, 0, 3))
              \/ d = last_weekday(y, 5, 0) \/ d = nth_weekday(y, 9, 0, 1)
              \/ d = nth_weekday(y, 11, 3, 4)
    BY SMT DEF Floating
  <2> QED
    BY <2>1, <2>2, <2>3, <2>4, <2>5
<1>9. d \in {easter_sunday(y) - 2} <=> Weekday(d) = 4 /\ d + 2 = RefEaster(YearOf(d))
  <2>1. easter_sunday(y) = RefEaster(YearOf(d)) /\ Weekday(easter_sunday(y)) = 6
    BY <1>1, EasterAgrees, EasterIsASunday
  <2>2. easter_sunday(y) \in Int
    BY <1>1, EasterIsADate
  <2>3. \A e \in Int : Weekday(e) = 6 /\ d = e - 2 => Weekday(d) = 4
    BY DEF Weekday
  <2>4. \A e \in Int : d = e - 2 <=> d + 2 = e
    OBVIOUS
  <2> QED
    BY <2>1, <2>2, <2>3, <2>4
\* The feasts, looked at from the day, the day after and the day before.
<1>10. d \in FeastDays <=> d \in FeastsOf(y)
  BY FeastDaysOfYear
<1>11. Weekday(d) = 0 /\ d # n => (d - 1 \in FeastDays <=> d - 1 \in FeastsOf(y))
  <2>1. d # n => InYear(d - 1, y) /\ d - 1 \in Int
    BY <1>2, <1>6 DEF InYear
  <2> QED
    BY <2>1, FeastDaysOfYear
<1>12. MonthOf(d) # 12 <=> d < Date(y, 12, 1)
  <2>1. MonthOf(d) = 12 <=> Date(y, 12, 1) <= d /\ (12 = 12 \/ d < Date(y, 12 + 1, 1))
    <3>1. 12 \in 1..12
      OBVIOUS
    <3> QED
      BY <3>1, MonthIs
  <2>2. Date(y, 12, 1) \in Int
    BY <1>2, <1>5
  <2> QED
    BY <2>1, <2>2
<1>13. MonthOf(d) # 12 => (d + 1 \in FeastDays <=> d + 1 \in FeastsOf(y))
  <2>1. MonthOf(d) # 12 => InYear(d + 1, y) /\ d + 1 \in Int
    BY <1>2, <1>5, <1>6, <1>12 DEF InYear
  <2> QED
    BY <2>1, FeastDaysOfYear
<1>14. MonthOf(d) = 12 /\ DayOf(d) = 24 <=> d + 1 = x
  <2>1. MonthOf(d) = 12 => DayOf(d) = d - Date(y, 12, 1) + 1
    <3>1. 12 \in 1..12
      OBVIOUS
    <3> QED
      BY <3>1, MonthIs
  <2> QED
    BY <1>2, <1>4, <1>5, <1>12, <2>1
<1>15. d \in NewYearKept(n) \/ d \in JuneKept(y, j) \/ d \in Kept(u) \/ d \in Kept(x)
         <=> \/ Weekday(d) < 5 /\ d \in FeastDays
             \/ Weekday(d) = 0 /\ d - 1 \in FeastDays
             \/ Weekday(d) = 4 /\ MonthOf(d) # 12 /\ d + 1 \in FeastDays
             \/ Weekday(d) = 4 /\ MonthOf(d) = 12 /\ DayOf(d) = 24
  <2>1. /\ n \in Int /\ j \in Int /\ u \in Int /\ x \in Int
        /\ n <= d /\ n < j /\ j < u /\ u < Date(y, 12, 1) /\ Date(y, 12, 1) \in Int
    BY <1>2, <1>3, <1>4, <1>5, <1>6 DEF InYear
  <2>2. (d + 1 = j \/ d + 1 = u) => MonthOf(d) # 12
    BY <1>12, <2>1
  <2>3. MonthOf(d) = 12 /\ d + 1 \in FeastsOf(y) => d + 1 = x
    <3>1. d + 1 # n
      BY <2>1
    <3> QED
      BY <2>1, <2>2, <3>1 DEF FeastsOf
  <2>4. d + 1 # n /\ (d + 1 = x => d + 1 \in FeastsOf(y))
    BY <2>1 DEF FeastsOf
  <2>5. d = n => d \in FeastsOf(y)
    BY DEF FeastsOf
  <2>6. \A e \in Int : e \in FeastsOf(y) <=> e = n \/ (y >= 2022 /\ e = j) \/ e = u \/ e = x
    BY DEF FeastsOf
  <2>7. PICK w \in Int : w = Weekday(d) /\ w \in 0..4
    BY Weekdays
  <2> HIDE DEF n, j, u, x
  <2>8. d \in NewYearKept(n) \/ d \in JuneKept(y, j) \/ d \in Kept(u) \/ d \in Kept(x)
          <=> \/ d \in FeastsOf(y)
              \/ w = 0 /\ d - 1 \in FeastsOf(y)
              \/ w = 4 /\ d + 1 \in FeastsOf(y)
    <3>1. d \in NewYearKept(n) <=> d = n \/ (w = 0 /\ d - 1 = n)
      BY <2>7 DEF NewYearKept
    <3>2. d \in Kept(u) <=> d = u \/ (w = 0 /\ d - 1 = u) \/ (w = 4 /\ d + 1 = u)
      BY <2>7 DEF Kept
    <3>3. d \in Kept(x) <=> d = x \/ (w = 0 /\ d - 1 = x) \/ (w = 4 /\ d + 1 = x)
      BY <2>7 DEF Kept
    <3>4. d \in JuneKept(y, j)
            <=> y >= 2022 /\ (d = j \/ (w = 0 /\ d - 1 = j) \/ (w = 4 /\ d + 1 = j))
      BY <2>7 DEF JuneKept, Kept
    <3>5. d \in FeastsOf(y) <=> d = n \/ (y >= 2022 /\ d = j) \/ d = u \/ d = x
      BY <2>6
    <3>6. d - 1 \in FeastsOf(y)
            <=> d - 1 = n \/ (y >= 2022 /\ d - 1 = j) \/ d - 1 = u \/ d - 1 = x
      BY <2>6
    <3>7. d + 1 \in FeastsOf(y)
            <=> (y >= 2022 /\ d + 1 = j) \/ d + 1 = u \/ d + 1 = x
      BY <2>4, <2>6
    <3> QED
      BY <3>1, <3>2, <3>3, <3>4, <3>5, <3>6, <3>7
  <2>9. Weekday(d) < 5 /\ d \in FeastDays <=> d \in FeastsOf(y)
    <3>1. Weekday(d) < 5
      BY <2>7
    <3> QED
      BY <1>10, <3>1
  <2>10. CASE d = n
    BY <2>5, <2>8, <2>9, <2>10
  <2>11. CASE d # n
    <3>1. Weekday(d) = 0 /\ d - 1 \in FeastDays <=> w = 0 /\ d - 1 \in FeastsOf(y)
      BY <1>11, <2>7, <2>11
    <3>2. Weekday(d) = 4 /\ MonthOf(d) # 12 /\ d + 1 \in FeastDays
            <=> w = 4 /\ MonthOf(d) # 12 /\ d + 1 \in FeastsOf(y)
      BY <1>13, <2>7
    <3>3. Weekday(d) = 4 /\ MonthOf(d) = 12 /\ DayOf(d) = 24
            <=> w = 4 /\ MonthOf(d) = 12 /\ d + 1 \in FeastsOf(y)
      <4>1. MonthOf(d) = 12 /\ DayOf(d) = 24 <=> MonthOf(d) = 12 /\ d + 1 \in FeastsOf(y)
        <5>1. d + 1 = x => MonthOf(d) = 12 /\ d + 1 \in FeastsOf(y)
          BY <1>14, <2>4
        <5> QED
          BY <1>14, <2>3, <5>1
      <4> QED
        BY <2>7, <4>1
    <3> QED
      BY <2>8, <2>9, <3>1, <3>2, <3>3
  <2> QED
    BY <2>10, <2>11
<1>16. RefHoliday(d)
         <=> \/ Weekday(d) = 0 /\ MonthOf(d) \in {1, 2} /\ DayOf(d) \in 15..21
             \/ Weekday(d) = 0 /\ MonthOf(d) = 5 /\ DayOf(d) >= 25
             \/ Weekday(d) = 0 /\ MonthOf(d) = 9 /\ DayOf(d) <= 7
             \/ Weekday(d) = 3 /\ MonthOf(d) = 11 /\ DayOf(d) \in 22..28
             \/ Weekday(d) = 4 /\ d + 2 = RefEaster(YearOf(d))
             \/ Weekday(d) < 5 /\ d \in FeastDays
             \/ Weekday(d) = 0 /\ d - 1 \in FeastDays
             \/ Weekday(d) = 4 /\ MonthOf(d) # 12 /\ d + 1 \in FeastDays
             \/ Weekday(d) = 4 /\ MonthOf(d) = 12 /\ DayOf(d) = 24
  BY DEF RefHoliday, Feast, FeastDays
<1> QED
  BY <1>7, <1>8, <1>9, <1>15, <1>16

\* The days the exchange is open.
OpenDays == {d \in Int : is_trading_day(d)}

\* A day the exchange is open is a weekday that is not one of its holidays.
LEMMA TradingDays ==
    ASSUME NEW y \in Years, y \in Covered, NEW d \in Int, InYear(d, y)
    PROVE  /\ d \in OpenDays <=> Weekday(d) < 5 /\ d \notin holidays(y)
           /\ d \in OpenDays <=> Weekday(d) < 5 /\ ~RefHoliday(d)
<1>1. HolidaysOf[YearOf(d)] = holidays(y)
  BY YearIs, Zenon DEF HolidaysOf
<1>2. d \in OpenDays <=> Weekday(d) < 5 /\ d \notin holidays(y)
  BY <1>1, Zenon DEF is_trading_day, OpenDays
<1>3. Weekday(d) < 5 => Weekday(d) \in 0..4
  BY WeekdayIs
<1>4. Weekday(d) < 5 => (d \in holidays(y) <=> RefHoliday(d))
  BY <1>3, HolidaysAgree DEF Covered
<1> QED
  BY <1>2, <1>4, Zenon

\* The sessions that end at one o'clock.
LEMMA EarlyClosesAgree ==
    ASSUME NEW y \in Years, y \in Covered, NEW d \in Int, InYear(d, y), d \in OpenDays
    PROVE  session_close(d) = EARLY_CLOSE <=> RefEarlyClose(d)
<1> DEFINE f == nth_weekday(y, 11, 3, 4)
           j == Date(y, 7, 3)
           x == Date(y, 12, 24)
<1>1. y \in Int /\ YearStart(y) \in Int /\ LeapDay(y) \in {0, 1}
  BY YearsAreYears, YearTable
<1>2. j = YearStart(y) + 183 + LeapDay(y) /\ x = YearStart(y) + 357 + LeapDay(y)
  BY <1>1, YearTable
<1>3. /\ Date(y, 7, 1) = YearStart(y) + 181 + LeapDay(y)
      /\ Date(y, 8, 1) = YearStart(y) + 212 + LeapDay(y)
      /\ Date(y, 12, 1) = YearStart(y) + 334 + LeapDay(y)
  BY <1>1, YearTable
<1>4. Weekday(d) < 5 /\ d \notin holidays(y)
  BY TradingDays, Zenon
<1>5. PICK w \in Int : w = Weekday(d) /\ w \in 0..4
  BY <1>4, WeekdayIs
<1>6. Weekday(d + 1) < 5 <=> w \in 0..3
  BY <1>5 DEF Weekday
<1>7. EarlyClosesOf[YearOf(d)] = early_closes(y)
  BY YearIs, Zenon DEF EarlyClosesOf
<1>8. session_close(d) = EARLY_CLOSE <=> d \in early_closes(y)
  <2>1. session_close(d) = IF d \in early_closes(y) THEN 780 ELSE 960
    BY <1>7 DEF session_close
  <2> QED
    BY <2>1
<1>9. d \in early_closes(y) <=> d = f + 1 \/ (d = j /\ w \in 0..3) \/ (d = x /\ w \in 0..3)
  <2> DEFINE eve(e) == IF Weekday(e) < 5 /\ Weekday(e + 1) < 5 THEN {e} ELSE {}
  <2>1. early_closes(y) = ({f + 1} \cup eve(j) \cup eve(x)) \ holidays(y)
    BY DEF early_closes
  <2>2. ASSUME NEW e \in Int PROVE d \in eve(e) <=> d = e /\ w \in 0..3
    <3>1. CASE d = e
      BY <1>4, <1>6, <3>1
    <3>2. CASE d # e
      BY <3>2
    <3> QED
      BY <3>1, <3>2
  <2>3. d \in eve(j) <=> d = j /\ w \in 0..3
    BY <1>1, <1>2, <2>2
  <2>4. d \in eve(x) <=> d = x /\ w \in 0..3
    BY <1>1, <1>2, <2>2
  <2> HIDE DEF f, j, x, eve
  <2>5. d \in early_closes(y) <=> d = f + 1 \/ d \in eve(j) \/ d \in eve(x)
    BY <1>4, <2>1
  <2> QED
    BY <2>3, <2>4, <2>5
<1>10. d = f + 1 <=> w = 4 /\ MonthOf(d) = 11 /\ DayOf(d) \in 23..29
  <2>1. d - 1 = f <=> Weekday(d) = 4 /\ MonthOf(d) = 11 /\ DayOf(d) \in 23..29
    BY WeekdayFeasts
  <2>2. f \in Int
    <3>1. Date(y, 11, 1) \in Int
      <4>1. 11 \in 1..12
        OBVIOUS
      <4> QED
        BY <1>1, <4>1, DatesAreWhole
    <3> QED
      BY <3>1, WeekdayIs DEF nth_weekday
  <2> HIDE DEF f
  <2>3. d - 1 = f <=> d = f + 1
    BY <2>2
  <2> QED
    BY <1>5, <2>1, <2>3
<1>11. d = j <=> MonthOf(d) = 7 /\ DayOf(d) = 3
  <2>1. /\ MonthOf(d) = 7 <=> Date(y, 7, 1) <= d /\ (7 = 12 \/ d < Date(y, 7 + 1, 1))
        /\ MonthOf(d) = 7 => DayOf(d) = d - Date(y, 7, 1) + 1
    <3>1. 7 \in 1..12
      OBVIOUS
    <3> QED
      BY <3>1, MonthIs
  <2> QED
    BY <1>1, <1>2, <1>3, <2>1
<1>12. d = x <=> MonthOf(d) = 12 /\ DayOf(d) = 24
  <2>1. /\ MonthOf(d) = 12 <=> Date(y, 12, 1) <= d /\ (12 = 12 \/ d < Date(y, 12 + 1, 1))
        /\ MonthOf(d) = 12 => DayOf(d) = d - Date(y, 12, 1) + 1
    <3>1. 12 \in 1..12
      OBVIOUS
    <3> QED
      BY <3>1, MonthIs
  <2> QED
    BY <1>1, <1>2, <1>3, <2>1
<1>13. RefEarlyClose(d)
         <=> \/ w = 4 /\ MonthOf(d) = 11 /\ DayOf(d) \in 23..29
             \/ w \in 0..3 /\ \/ MonthOf(d) = 7 /\ DayOf(d) = 3
                              \/ MonthOf(d) = 12 /\ DayOf(d) = 24
  BY <1>5 DEF RefEarlyClose
<1> HIDE DEF f, j, x
<1> QED
  BY <1>8, <1>9, <1>10, <1>11, <1>12, <1>13

\* A day of the walk lies in one of the years walked.
LEMMA WalkedYears ==
    ASSUME NEW d \in Date(FirstYear, 1, 1)..Date(LastYear, 12, 31)
    PROVE  d \in Int /\ \E y \in Years : y \in FirstYear..LastYear /\ InYear(d, y)
<1>1. FirstYear \in Int /\ LastYear \in Int /\ FirstYear <= LastYear
  BY YearsAreYears
<1>2. Date(FirstYear, 1, 1) = YearStart(FirstYear) /\ YearStart(FirstYear) \in Int
  BY <1>1, YearTable
<1>3. /\ YearStart(LastYear) \in Int /\ LeapDay(LastYear) \in {0, 1}
      /\ Date(LastYear, 12, 31) = YearStart(LastYear) + 364 + LeapDay(LastYear)
      /\ YearStart(LastYear + 1) = YearStart(LastYear) + 365 + LeapDay(LastYear)
  BY <1>1, YearTable
<1>4. d \in Int /\ YearStart(FirstYear) <= d /\ d < YearStart(LastYear + 1)
  BY <1>2, <1>3
<1>5. YearStart(LastYear + 1) <= YearStart(LastYear + 2) /\ YearStart(LastYear + 2) \in Int
  <2>1. LastYear + 1 \in Int /\ LastYear + 1 + 1 = LastYear + 2
    BY <1>1
  <2>2. /\ YearStart(LastYear + 1) \in Int /\ LeapDay(LastYear + 1) \in {0, 1}
        /\ YearStart(LastYear + 1 + 1) = YearStart(LastYear + 1) + 365 + LeapDay(LastYear + 1)
    BY <2>1, YearTable
  <2> QED
    BY <2>1, <2>2
<1>6. PICK y \in Years : InYear(d, y)
  <2>1. d < YearStart(LastYear + 2)
    BY <1>3, <1>4, <1>5
  <2> QED
    BY <1>4, <2>1, YearExists
<1>7. y \in Int /\ FirstYear <= y /\ y <= LastYear + 1
  BY <1>1 DEF Years
<1>8. y # LastYear + 1
  BY <1>3, <1>4, <1>6 DEF InYear
<1> QED
  BY <1>1, <1>4, <1>6, <1>7, <1>8

\* The rules of the calendar close the days the exchange closes and shorten
\* the sessions it shortens, on every day of every range of years from 1900
\* to 2199; and Easter is computed right in all three centuries.
THEOREM CalendarIsTheExchanges == Spec => []CalendarAgrees
<1>1. TypeOK => CalendarAgrees
  <2> SUFFICES ASSUME TypeOK PROVE CalendarAgrees
    OBVIOUS
  <2>1. PICK y \in Years : today \in Int /\ y \in FirstYear..LastYear /\ InYear(today, y)
    BY WalkedYears DEF TypeOK
  <2>2. y \in Covered
    BY <2>1, YearsAssumption DEF Covered
  <2>3. \A z \in Covered : easter_sunday(z) = RefEaster(z)
    BY EasterAgrees DEF Covered
  <2>4. today \in OpenDays <=> Weekday(today) < 5 /\ ~RefHoliday(today)
    BY <2>1, <2>2, TradingDays, Zenon
  <2>5. today \in OpenDays => (session_close(today) = EARLY_CLOSE <=> RefEarlyClose(today))
    BY <2>1, <2>2, EarlyClosesAgree, Zenon
  <2>6. is_trading_day(today) <=> today \in OpenDays
    BY <2>1, Zenon DEF OpenDays
  <2> QED
    BY <2>3, <2>4, <2>5, <2>6, Zenon DEF CalendarAgrees
<1> QED
  BY <1>1, TypeCorrect, PTL

-----------------------------------------------------------------------------
(* The next session. *)

\* A day the exchange is open, in a year of the table.
LEMMA OpenDay ==
    ASSUME NEW y \in Years, NEW d \in Int, InYear(d, y)
    PROVE  d \in OpenDays <=> Weekday(d) < 5 /\ d \notin holidays(y)
<1>1. HolidaysOf[YearOf(d)] = holidays(y)
  BY YearIs, Zenon DEF HolidaysOf
<1> QED
  BY <1>1, Zenon DEF is_trading_day, OpenDays

\* A Tuesday or a Wednesday is closed for a feast on its own date only: the
\* other closures fall on Mondays, Thursdays and Fridays.
LEMMA MidweekClosure ==
    ASSUME NEW y \in Years, NEW d \in Int, InYear(d, y), Weekday(d) \in {1, 2},
           d \notin OpenDays
    PROVE  d \in FeastsOf(y)
<1>1. y \in Int /\ y \in Nat
  BY YearsAreYears
<1>2. Weekday(d) \in 0..4 /\ Weekday(d) < 5
  OBVIOUS
<1>3. d \in holidays(y)
  BY <1>2, OpenDay
<1>4. PICK n \in Int, j \in Int, u \in Int, x \in Int :
         n = Date(y, 1, 1) /\ j = Date(y, 6, 19) /\ u = Date(y, 7, 4) /\ x = Date(y, 12, 25)
  <2>1. YearStart(y) \in Int /\ LeapDay(y) \in {0, 1} /\ Date(y, 1, 1) = YearStart(y)
    BY <1>1, YearTable
  <2>2. /\ Date(y, 6, 19) = YearStart(y) + 169 + LeapDay(y)
        /\ Date(y, 7, 4) = YearStart(y) + 184 + LeapDay(y)
        /\ Date(y, 12, 25) = YearStart(y) + 358 + LeapDay(y)
    BY <1>1, YearTable
  <2> QED
    BY <2>1, <2>2
<1>5. \/ d \in Floating(y) \/ d \in {easter_sunday(y) - 2}
      \/ d \in NewYearKept(n) \/ d \in JuneKept(y, j) \/ d \in Kept(u) \/ d \in Kept(x)
  BY <1>1, <1>2, <1>3, <1>4, HolidayRules
<1>6. d \notin Floating(y)
  <2>1. d # nth_weekday(y, 1, 0, 3) /\ d # nth_weekday(y, 2, 0, 3)
    BY WeekdayFeasts
  <2>2. d # last_weekday(y, 5, 0) /\ d # nth_weekday(y, 9, 0, 1)
    BY WeekdayFeasts
  <2>3. d # nth_weekday(y, 11, 3, 4)
    BY WeekdayFeasts
  <2> QED
    BY <2>1, <2>2, <2>3, SMT DEF Floating
<1>7. d \notin {easter_sunday(y) - 2}
  <2>1. Weekday(easter_sunday(y)) = 6
    BY <1>1, EasterIsASunday
  <2>2. easter_sunday(y) \in Int
    BY <1>1, EasterIsADate
  <2>3. \A e \in Int : Weekday(e) = 6 /\ d = e - 2 => Weekday(d) = 4
    BY DEF Weekday
  <2> QED
    BY <2>1, <2>2, <2>3
<1>8. FeastsOf(y) = {n, u, x} \cup (IF y >= 2022 THEN {j} ELSE {})
  BY <1>4 DEF FeastsOf
<1>9. d \in Kept(u) \/ d \in Kept(x) => d \in {u, x}
  BY DEF Kept
<1>10. d \in NewYearKept(n) => d = n
  BY DEF NewYearKept
<1>11. d \in JuneKept(y, j) => y >= 2022 /\ d = j
  BY DEF JuneKept, Kept
<1> QED
  BY <1>5, <1>6, <1>7, <1>8, <1>9, <1>10, <1>11

\* Two feasts on different dates are at least a week apart.
LEMMA FeastsApart ==
    ASSUME NEW y \in Years, NEW z \in Years, NEW e \in FeastsOf(y), NEW f \in FeastsOf(z), e < f
    PROVE  e \in Int /\ f \in Int /\ f >= e + 7
<1>1. y \in Int /\ z \in Int
  BY YearsAreYears
<1>2. ASSUME NEW a \in Int
      PROVE  /\ YearStart(a) \in Int /\ LeapDay(a) \in {0, 1}
             /\ YearStart(a + 1) = YearStart(a) + 365 + LeapDay(a)
             /\ FeastsOf(a) \subseteq {YearStart(a), YearStart(a) + 169 + LeapDay(a),
                                       YearStart(a) + 184 + LeapDay(a),
                                       YearStart(a) + 358 + LeapDay(a)}
  <2>1. YearStart(a) \in Int /\ LeapDay(a) \in {0, 1} /\ Date(a, 1, 1) = YearStart(a)
        /\ YearStart(a + 1) = YearStart(a) + 365 + LeapDay(a)
    BY YearTable
  <2>2. /\ Date(a, 6, 19) = YearStart(a) + 169 + LeapDay(a)
        /\ Date(a, 7, 4) = YearStart(a) + 184 + LeapDay(a)
        /\ Date(a, 12, 25) = YearStart(a) + 358 + LeapDay(a)
    BY YearTable
  <2>3. FeastsOf(a) \subseteq {Date(a, 1, 1), Date(a, 6, 19), Date(a, 7, 4), Date(a, 12, 25)}
    BY DEF FeastsOf
  <2> QED
    BY <2>1, <2>2, <2>3
<1>3. PICK s \in Int, l \in {0, 1} : s = YearStart(y) /\ l = LeapDay(y)
  BY <1>1, <1>2
<1>4. PICK t \in Int, m \in {0, 1} : t = YearStart(z) /\ m = LeapDay(z)
  BY <1>1, <1>2
<1>5. e \in {s, s + 169 + l, s + 184 + l, s + 358 + l}
  BY <1>1, <1>2, <1>3
<1>6. f \in {t, t + 169 + m, t + 184 + m, t + 358 + m}
  BY <1>1, <1>2, <1>4
<1>7. YearStart(y + 1) = s + 365 + l /\ YearStart(z + 1) = t + 365 + m
  BY <1>1, <1>2, <1>3, <1>4
<1>8. CASE y = z
  BY <1>3, <1>4, <1>5, <1>6, <1>8
<1>9. CASE y < z
  <2>1. s + 365 + l <= t
    BY <1>1, <1>4, <1>7, <1>9, YearsInOrder
  <2> QED
    BY <1>5, <1>6, <2>1
<1>10. CASE z < y
  <2>1. t + 365 + m <= s
    BY <1>1, <1>3, <1>7, <1>10, YearsInOrder
  <2> QED
    BY <1>5, <1>6, <2>1
<1> QED
  BY <1>1, <1>8, <1>9, <1>10

\* No closure of the exchange lasts a week: a week holds a Tuesday and a
\* Wednesday, and they are not both feasts.
LEMMA NoLongClosure ==
    ASSUME NEW d \in Date(FirstYear, 1, 1)..Date(LastYear, 12, 31)
    PROVE  \E k \in 1..7 : d + k \in OpenDays
<1>1. FirstYear \in Int /\ LastYear \in Int
  BY YearsAreYears
<1>2. Date(FirstYear, 1, 1) = YearStart(FirstYear) /\ YearStart(FirstYear) \in Int
  BY <1>1, YearTable
<1>3. /\ YearStart(LastYear) \in Int /\ LeapDay(LastYear) \in {0, 1}
      /\ Date(LastYear, 12, 31) = YearStart(LastYear) + 364 + LeapDay(LastYear)
      /\ YearStart(LastYear + 1) = YearStart(LastYear) + 365 + LeapDay(LastYear)
  BY <1>1, YearTable
<1>4. YearStart(LastYear + 2) \in Int /\ YearStart(LastYear + 1) + 365 <= YearStart(LastYear + 2)
  <2>1. LastYear + 1 \in Int /\ LastYear + 1 + 1 = LastYear + 2
    BY <1>1
  <2>2. /\ YearStart(LastYear + 1) \in Int /\ LeapDay(LastYear + 1) \in {0, 1}
        /\ YearStart(LastYear + 1 + 1) = YearStart(LastYear + 1) + 365 + LeapDay(LastYear + 1)
    BY <2>1, YearTable
  <2> QED
    BY <2>1, <2>2
<1>5. d \in Int /\ YearStart(FirstYear) <= d /\ d < YearStart(LastYear + 1)
  BY <1>2, <1>3
<1>6. ASSUME NEW k \in 1..7 PROVE d + k \in Int /\ \E y \in Years : InYear(d + k, y)
  <2>1. d + k \in Int /\ YearStart(FirstYear) <= d + k
    BY <1>2, <1>5
  <2>2. d + k < YearStart(LastYear + 2)
    BY <1>3, <1>4, <1>5
  <2> QED
    BY <2>1, <2>2, YearExists
<1>7. PICK i \in 1..7, j \in 1..7 :
         /\ Weekday(d + i) = 1 /\ Weekday(d + j) = 2
         /\ (i < j /\ j - i < 7) \/ (j < i /\ i - j < 7)
  <2>1. PICK r \in 0..6 : r = (d + 6) % 7
    BY <1>5
  <2>2. ASSUME NEW k \in 1..7 PROVE Weekday(d + k) = (r + k) % 7
    BY <1>5, <2>1 DEF Weekday
  <2>3. \E i, j \in 1..7 : (r + i) % 7 = 1 /\ (r + j) % 7 = 2
    <3>1. CASE r = 0
      <4>1. (r + 1) % 7 = 1 /\ (r + 2) % 7 = 2
        BY <3>1
      <4> QED
        BY <4>1
    <3>2. CASE r = 1
      <4>1. (r + 7) % 7 = 1 /\ (r + 1) % 7 = 2
        BY <3>2
      <4> QED
        BY <4>1
    <3>3. CASE r \in 2..6
      <4>1. 8 - r \in 1..7 /\ 9 - r \in 1..7 /\ r + (8 - r) = 8 /\ r + (9 - r) = 9
        BY <3>3
      <4>2. (r + (8 - r)) % 7 = 1 /\ (r + (9 - r)) % 7 = 2
        BY <4>1
      <4> QED
        BY <4>1, <4>2
    <3> QED
      BY <3>1, <3>2, <3>3
  <2>4. PICK i \in 1..7, j \in 1..7 : (r + i) % 7 = 1 /\ (r + j) % 7 = 2
    BY <2>3
  <2>5. Weekday(d + i) = 1 /\ Weekday(d + j) = 2
    BY <2>2, <2>4
  <2>6. i # j
    BY <2>4
  <2> QED
    BY <2>5, <2>6
<1>8. SUFFICES ASSUME d + i \notin OpenDays, d + j \notin OpenDays PROVE FALSE
  OBVIOUS
<1>9. PICK y \in Years : d + i \in FeastsOf(y)
  <2>1. PICK y \in Years : d + i \in Int /\ InYear(d + i, y)
    BY <1>6
  <2>2. Weekday(d + i) \in {1, 2}
    BY <1>7
  <2> QED
    BY <1>8, <2>1, <2>2, MidweekClosure
<1>10. PICK z \in Years : d + j \in FeastsOf(z)
  <2>1. PICK z \in Years : d + j \in Int /\ InYear(d + j, z)
    BY <1>6
  <2>2. Weekday(d + j) \in {1, 2}
    BY <1>7
  <2> QED
    BY <1>8, <2>1, <2>2, MidweekClosure
<1>11. CASE i < j
  <2>1. d + i < d + j
    BY <1>5, <1>11
  <2>2. d + j >= d + i + 7
    BY <1>9, <1>10, <2>1, FeastsApart
  <2> QED
    BY <1>5, <1>7, <1>11, <2>2
<1>12. CASE j < i
  <2>1. d + j < d + i
    BY <1>5, <1>12
  <2>2. d + i >= d + j + 7
    BY <1>9, <1>10, <2>1, FeastsApart
  <2> QED
    BY <1>5, <1>7, <1>12, <2>2
<1> QED
  BY <1>7, <1>11, <1>12

\* From every day of the walk the next session is at most a week away, and it
\* is the first one.
LEMMA NextSession ==
    ASSUME NEW d \in Date(FirstYear, 1, 1)..Date(LastYear, 12, 31)
    PROVE  /\ next_trading_day(d) \in (d + 1)..(d + 7)
           /\ next_trading_day(d) \in OpenDays
<1>1. d \in Int
  BY WalkedYears
<1> DEFINE T == {k \in 1..7 : d + k \in OpenDays}
<1>2. T \subseteq Nat /\ T # {}
  BY NoLongClosure
<1>3. PICK k \in T : \A i \in T : k <= i
  BY <1>2, LeastNatural
<1> DEFINE First(n) == /\ n \in (d + 1)..(d + 7) /\ is_trading_day(n)
                       /\ \A e \in (d + 1)..(n - 1) : ~is_trading_day(e)
<1>4. \A e \in Int : is_trading_day(e) <=> e \in OpenDays
  BY Zenon DEF OpenDays
<1>5. d + k \in (d + 1)..(d + 7) /\ d + k \in OpenDays /\ d + k \in Int
  BY <1>1
<1>6. ASSUME NEW e \in (d + 1)..(d + k - 1) PROVE e \notin OpenDays
  <2>1. e - d \in 1..7 /\ e - d < k /\ d + (e - d) = e
    BY <1>1
  <2> QED
    BY <1>3, <2>1
<1>7. ASSUME NEW e \in (d + 1)..(d + k - 1) PROVE ~is_trading_day(e)
  <2>1. e \in Int
    BY <1>1
  <2> QED
    BY <1>4, <1>6, <2>1, Zenon
<1>8. First(d + k)
  <2>1. is_trading_day(d + k)
    BY <1>4, <1>5, Zenon
  <2>2. \A e \in (d + 1)..(d + k - 1) : ~is_trading_day(e)
    BY <1>7, Zenon
  <2>3. d + k \in (d + 1)..(d + 7)
    BY <1>5
  <2> DEFINE n == d + k
  <2>4. /\ n \in (d + 1)..(d + 7) /\ is_trading_day(n)
        /\ \A e \in (d + 1)..(n - 1) : ~is_trading_day(e)
    <3>1. is_trading_day(n)
      BY <2>1
    <3>2. \A e \in (d + 1)..(n - 1) : ~is_trading_day(e)
      BY <2>2
    <3>3. n \in (d + 1)..(d + 7)
      BY <2>3
    <3> HIDE DEF n
    <3> QED
      BY <3>1, <3>2, <3>3, Zenon
  <2> HIDE DEF n
  <2>5. First(n)
    BY <2>4
  <2> QED
    BY <2>5 DEF n
<1>9. next_trading_day(d) = CHOOSE n : First(n)
  BY DEF next_trading_day
<1>10. First(next_trading_day(d))
  BY <1>8, <1>9, Zenon
<1>11. next_trading_day(d) \in Int
  BY <1>1, <1>10
<1> QED
  BY <1>4, <1>10, <1>11, Zenon

\* What the router reads of an instant.
LEMMA Reading ==
    ASSUME NEW d \in Int, NEW t \in DayMinutes
    PROVE  DateOf(At(d, t)) = d /\ TimeOf(At(d, t)) = t
BY DEF DateOf, TimeOf, At, DayMinutes

\* The regime by the clock, by the hours of the day.
LEMMA NaturalIs ==
    ASSUME NEW d \in Date(FirstYear, 1, 1)..Date(LastYear, 12, 31), NEW t \in DayMinutes
    PROVE  /\ d \in OpenDays /\ t < 540 =>
                natural(At(d, t)) = [regime |-> "CRYPTO", handoff |-> At(d, 540)]
           /\ d \in OpenDays /\ 540 <= t /\ t < 570 =>
                natural(At(d, t)) = [regime |-> "PREP", handoff |-> At(d, 570)]
           /\ d \in OpenDays /\ 570 <= t /\ t < session_close(d) =>
                natural(At(d, t)) = [regime |-> "EQUITY", handoff |-> At(d, session_close(d))]
           /\ d \notin OpenDays \/ session_close(d) <= t =>
                natural(At(d, t)) = [regime |-> "CRYPTO",
                                     handoff |-> At(next_trading_day(d), 540)]
<1> DEFINE dt == At(d, t)
           open == is_trading_day(d)
<1>1. d \in Int
  BY WalkedYears
<1>2. DateOf(dt) = d /\ TimeOf(dt) = t /\ t \in Int
  <2>1. t \in Int
    BY DEF DayMinutes
  <2> QED
    BY <1>1, <2>1, Reading, Zenon
<1>3. d \in OpenDays <=> open
  BY <1>1, Zenon DEF OpenDays
<1>4. session_close(d) \in {780, 960}
  BY Bells
<1>5. natural(dt) =
        CASE open /\ 540 <= t /\ t < 570 -> [regime |-> "PREP", handoff |-> At(d, 570)]
          [] open /\ 570 <= t /\ t < session_close(d) ->
                [regime |-> "EQUITY", handoff |-> At(d, session_close(d))]
          [] OTHER -> [regime |-> "CRYPTO", handoff |-> next_prep_start(dt)]
  BY <1>2 DEF natural
<1>6. next_prep_start(dt) = IF open /\ t < 540 THEN At(d, 540) ELSE At(next_trading_day(d), 540)
  BY <1>2 DEF next_prep_start
<1> HIDE DEF dt, open
<1>7. open \in BOOLEAN
  BY Zenon DEF open, is_trading_day
<1>8. /\ d \in OpenDays /\ t < 540 =>
           natural(dt) = [regime |-> "CRYPTO", handoff |-> At(d, 540)]
      /\ d \in OpenDays /\ 540 <= t /\ t < 570 =>
           natural(dt) = [regime |-> "PREP", handoff |-> At(d, 570)]
  BY <1>2, <1>3, <1>4, <1>5, <1>6, <1>7
<1>9. /\ d \in OpenDays /\ 570 <= t /\ t < session_close(d) =>
           natural(dt) = [regime |-> "EQUITY", handoff |-> At(d, session_close(d))]
      /\ d \notin OpenDays \/ session_close(d) <= t =>
           natural(dt) = [regime |-> "CRYPTO", handoff |-> At(next_trading_day(d), 540)]
  BY <1>2, <1>3, <1>4, <1>5, <1>6, <1>7
<1> QED
  BY <1>8, <1>9 DEF dt

\* The next bells, by the hours of the day.
LEMMA NextBells ==
    ASSUME NEW d \in Date(FirstYear, 1, 1)..Date(LastYear, 12, 31), NEW t \in DayMinutes,
           NEW n, n = next_trading_day(d)
    PROVE  /\ next_open(At(d, t)) = IF d \in OpenDays /\ t < 570 THEN At(d, 570) ELSE At(n, 570)
           /\ next_close(At(d, t)) = IF d \in OpenDays /\ t < session_close(d)
                                     THEN At(d, session_close(d)) ELSE At(n, session_close(n))
<1> DEFINE dt == At(d, t)
           open == is_trading_day(d)
<1>1. d \in Int
  BY WalkedYears
<1>2. DateOf(dt) = d /\ TimeOf(dt) = t
  BY <1>1, Reading, Zenon
<1>3. d \in OpenDays <=> open
  BY <1>1, Zenon DEF OpenDays
<1>4. next_open(dt) = IF open /\ t < 570 THEN At(d, 570) ELSE At(n, 570)
  BY <1>2 DEF next_open
<1>5. next_close(dt) = IF open /\ t < session_close(d)
                       THEN At(d, session_close(d)) ELSE At(n, session_close(n))
  BY <1>2 DEF next_close
<1> HIDE DEF dt, open
<1>6. open \in BOOLEAN
  BY Zenon DEF open, is_trading_day
<1>7. next_open(dt) = IF d \in OpenDays /\ t < 570 THEN At(d, 570) ELSE At(n, 570)
  BY <1>3, <1>4, <1>6
<1>8. next_close(dt) = IF d \in OpenDays /\ t < session_close(d)
                       THEN At(d, session_close(d)) ELSE At(n, session_close(n))
  BY <1>3, <1>5, <1>6
<1> QED
  BY <1>7, <1>8 DEF dt

\* The market is open between its bells on the days it opens, and exactly then
\* the next bell is a closing one.
LEMMA MarketHours ==
    ASSUME NEW d \in Date(FirstYear, 1, 1)..Date(LastYear, 12, 31), NEW t \in DayMinutes
    PROVE  /\ is_market_open(At(d, t)) <=> d \in OpenDays /\ 570 <= t /\ t < session_close(d)
           /\ next_close(At(d, t)) < next_open(At(d, t))
                <=> d \in OpenDays /\ 570 <= t /\ t < session_close(d)
           /\ natural(At(d, t)).regime = "EQUITY"
                <=> d \in OpenDays /\ 570 <= t /\ t < session_close(d)
<1>1. d \in Int /\ t \in Int /\ 0 <= t /\ t < 1440
  BY WalkedYears DEF DayMinutes
<1>2. is_market_open(At(d, t)) <=> d \in OpenDays /\ 570 <= t /\ t < session_close(d)
  <2>1. DateOf(At(d, t)) = d /\ TimeOf(At(d, t)) = t
    BY <1>1, Reading, ZenonT(40)
  <2>2. d \in OpenDays <=> is_trading_day(d)
    BY <1>1, ZenonT(40) DEF OpenDays
  <2>3. is_market_open(At(d, t)) <=> is_trading_day(d) /\ 570 <= t /\ t < session_close(d)
    BY <2>1, Zenon DEF is_market_open
  <2> QED
    BY <2>2, <2>3, Zenon
<1>3. PICK n \in Int : n = next_trading_day(d) /\ n >= d + 1
  BY <1>1, NextSession
<1>4. PICK c \in {780, 960} : c = session_close(d)
  BY Bells
<1>5. PICK e \in {780, 960} : e = session_close(n)
  BY Bells
<1>6. next_open(At(d, t)) = IF d \in OpenDays /\ t < 570 THEN At(d, 570) ELSE At(n, 570)
  BY <1>3, NextBells
<1>7. next_close(At(d, t)) = IF d \in OpenDays /\ t < c THEN At(d, c) ELSE At(n, e)
  BY <1>3, <1>4, <1>5, NextBells
<1>8. /\ At(d, 570) = 1440 * d + 570 /\ At(n, 570) = 1440 * n + 570
      /\ At(d, c) = 1440 * d + c /\ At(n, e) = 1440 * n + e
  BY DEF At
<1>9. next_close(At(d, t)) < next_open(At(d, t)) <=> d \in OpenDays /\ 570 <= t /\ t < c
  BY <1>1, <1>3, <1>6, <1>7, <1>8
<1>10. natural(At(d, t)).regime = "EQUITY" <=> d \in OpenDays /\ 570 <= t /\ t < c
  <2>1. CASE d \in OpenDays /\ t < 540
    <3>1. natural(At(d, t)) = [regime |-> "CRYPTO", handoff |-> At(d, 540)]
      BY <2>1, NaturalIs
    <3> QED
      BY <1>1, <2>1, <3>1
  <2>2. CASE d \in OpenDays /\ 540 <= t /\ t < 570
    <3>1. natural(At(d, t)) = [regime |-> "PREP", handoff |-> At(d, 570)]
      BY <2>2, NaturalIs
    <3> QED
      BY <1>1, <2>2, <3>1
  <2>3. CASE d \in OpenDays /\ 570 <= t /\ t < c
    <3>1. natural(At(d, t)) = [regime |-> "EQUITY", handoff |-> At(d, session_close(d))]
      BY <1>4, <2>3, NaturalIs
    <3> QED
      BY <2>3, <3>1
  <2>4. CASE d \notin OpenDays \/ c <= t
    <3>1. natural(At(d, t)) = [regime |-> "CRYPTO", handoff |-> At(next_trading_day(d), 540)]
      BY <1>4, <2>4, NaturalIs
    <3> QED
      BY <1>1, <2>4, <3>1
  <2> QED
    BY <1>1, <2>1, <2>2, <2>3, <2>4
<1>11. next_close(At(d, t)) < next_open(At(d, t))
         <=> d \in OpenDays /\ 570 <= t /\ t < session_close(d)
  BY <1>4, <1>9, ZenonT(40)
<1>12. natural(At(d, t)).regime = "EQUITY"
         <=> d \in OpenDays /\ 570 <= t /\ t < session_close(d)
  BY <1>4, <1>10, ZenonT(40)
<1> QED
  BY <1>2, <1>11, <1>12, ZenonT(40)

\* The settings under which the ribbon promises to be true, and the regime of
\* the hours that are not the equity desk's.
DeskOn == {s \in Settings : s.force = "" /\ s.equity_enabled}
OffHours(s) == IF s.crypto_enabled THEN "CRYPTO" ELSE "IDLE"

\* With the equity desk on, the router follows the clock.
LEMMA FollowsTheClock ==
    ASSUME NEW dt, NEW s \in DeskOn, natural(dt).regime \in {"PREP", "EQUITY", "CRYPTO"}
    PROVE  resolve(dt, s).regime =
              IF natural(dt).regime = "CRYPTO" THEN OffHours(s) ELSE natural(dt).regime
<1>1. s \in Settings /\ s.force = "" /\ s.equity_enabled
  BY Zenon DEF DeskOn
<1>2. CASE s.crypto_enabled
  BY <1>1, <1>2 DEF resolve, OffHours
<1>3. CASE ~s.crypto_enabled
  BY <1>1, <1>3 DEF resolve, OffHours
<1> QED
  BY <1>2, <1>3

\* By the clock and with the equity desk on, the ribbon of the day shows the
\* regime the router is in.
LEMMA RibbonShowsTheRegime ==
    ASSUME NEW d \in Date(FirstYear, 1, 1)..Date(LastYear, 12, 31), NEW t \in DayMinutes,
           NEW s \in DeskOn
    PROVE  \E seg \in ribbon_segments(d, s.crypto_enabled) :
              /\ seg[1] = resolve(At(d, t), s).regime
              /\ seg[2] <= t /\ t < seg[3]
<1>0. d \in Int
  BY WalkedYears
<1>1. d \in Int /\ t \in Int /\ 0 <= t /\ t < 1440
  BY WalkedYears DEF DayMinutes
<1>2. PICK off : off = OffHours(s)
  OBVIOUS
<1>3. PICK c \in {780, 960} : c = session_close(d)
  BY Bells
<1>4. d \notin OpenDays => <<off, 0, 1440>> \in ribbon_segments(d, s.crypto_enabled)
  <2>1. d \notin OpenDays => ~is_trading_day(d)
    BY <1>0, Zenon DEF OpenDays
  <2> QED
    BY <1>2, <2>1 DEF ribbon_segments, OffHours
<1>5. d \in OpenDays => {<<off, 0, 540>>, <<"PREP", 540, 570>>, <<"EQUITY", 570, c>>,
                         <<off, c, 1440>>} \subseteq ribbon_segments(d, s.crypto_enabled)
  <2>1. d \in OpenDays => is_trading_day(d)
    BY <1>0, Zenon DEF OpenDays
  <2> QED
    BY <1>2, <1>3, <2>1 DEF ribbon_segments, OffHours
<1>6. ASSUME NEW r, r = natural(At(d, t)).regime
      PROVE  /\ r \in {"PREP", "EQUITY"} => resolve(At(d, t), s).regime = r
             /\ r = "CRYPTO" => resolve(At(d, t), s).regime = off
  BY <1>2, <1>6, FollowsTheClock
<1>7. ASSUME NEW r, NEW a \in Int, NEW b \in Int, a <= t, t < b,
             <<r, a, b>> \in ribbon_segments(d, s.crypto_enabled),
             r = resolve(At(d, t), s).regime
      PROVE  \E seg \in ribbon_segments(d, s.crypto_enabled) :
                /\ seg[1] = resolve(At(d, t), s).regime
                /\ seg[2] <= t /\ t < seg[3]
  BY <1>7
<1>8. CASE d \in OpenDays /\ t < 540
  <2>1. natural(At(d, t)) = [regime |-> "CRYPTO", handoff |-> At(d, 540)]
    BY <1>8, NaturalIs
  <2> QED
    BY <1>1, <1>5, <1>6, <1>7, <1>8, <2>1
<1>9. CASE d \in OpenDays /\ 540 <= t /\ t < 570
  <2>1. natural(At(d, t)) = [regime |-> "PREP", handoff |-> At(d, 570)]
    BY <1>9, NaturalIs
  <2> QED
    BY <1>1, <1>5, <1>6, <1>7, <1>9, <2>1
<1>10. CASE d \in OpenDays /\ 570 <= t /\ t < c
  <2>1. natural(At(d, t)) = [regime |-> "EQUITY", handoff |-> At(d, session_close(d))]
    BY <1>3, <1>10, NaturalIs
  <2> QED
    BY <1>1, <1>5, <1>6, <1>7, <1>10, <2>1
<1>11. CASE d \in OpenDays /\ c <= t
  <2>1. natural(At(d, t)) = [regime |-> "CRYPTO", handoff |-> At(next_trading_day(d), 540)]
    BY <1>3, <1>11, NaturalIs
  <2> QED
    BY <1>1, <1>5, <1>6, <1>7, <1>11, <2>1
<1>12. CASE d \notin OpenDays
  <2>1. natural(At(d, t)) = [regime |-> "CRYPTO", handoff |-> At(next_trading_day(d), 540)]
    BY <1>12, NaturalIs
  <2> QED
    BY <1>1, <1>4, <1>6, <1>7, <1>12, <2>1
<1> QED
  BY <1>1, <1>8, <1>9, <1>10, <1>11, <1>12

\* What every state of the walk gives the lemmas above.
LEMMA Place ==
    ASSUME TypeOK
    PROVE  /\ today \in Date(FirstYear, 1, 1)..Date(LastYear, 12, 31)
           /\ minute \in DayMinutes /\ setting \in Settings
           /\ today \in Int /\ now = At(today, minute)
BY Grid, WalkedYears DEF TypeOK, now

\* The router, the market's hours, its next bells and the ribbon never
\* disagree, at any instant of any year, whatever the switches.
THEOREM OneStory == Spec => []ViewsAgree
<1>1. TypeOK => ViewsAgree
  <2> SUFFICES ASSUME TypeOK PROVE ViewsAgree
    OBVIOUS
  <2>1. /\ today \in Date(FirstYear, 1, 1)..Date(LastYear, 12, 31)
        /\ minute \in DayMinutes /\ setting \in Settings /\ now = At(today, minute)
    BY Place
  <2>2. /\ is_market_open(now)
             <=> today \in OpenDays /\ 570 <= minute /\ minute < session_close(today)
        /\ next_close(now) < next_open(now)
             <=> today \in OpenDays /\ 570 <= minute /\ minute < session_close(today)
        /\ natural(now).regime = "EQUITY"
             <=> today \in OpenDays /\ 570 <= minute /\ minute < session_close(today)
    BY <2>1, MarketHours, ZenonT(40)
  <2>3. setting.force = "" /\ setting.equity_enabled =>
           \E seg \in ribbon_segments(today, setting.crypto_enabled) :
              /\ seg[1] = resolve(now, setting).regime
              /\ seg[2] <= minute /\ minute < seg[3]
    <3>1. setting.force = "" /\ setting.equity_enabled => setting \in DeskOn
      BY <2>1, Zenon DEF DeskOn
    <3> QED
      BY <2>1, <3>1, RibbonShowsTheRegime, Zenon
  <2> QED
    BY <2>2, <2>3, Zenon DEF ViewsAgree
<1> QED
  BY <1>1, TypeCorrect, PTL

\* From minute t of day d to minute u of day e no bell is jumped over.
Follows(d, t, e, u) ==
    \/ /\ e = d /\ t < u
       /\ \A b \in {540, 570, 780, 960} : t < b => u <= b
    \/ e = d + 1 /\ u = 0 /\ 960 <= t

\* What the walk does to the clock: a step of it goes to the next instant of
\* the day, or from the last one to midnight.
LEMMA Steps ==
    ASSUME TypeOK, Next
    PROVE  setting' = setting /\ Follows(today, minute, today', minute')
<1>1. {540, 570, 780, 960} \subseteq Instants
  BY InstantsAssumption
<1>2. setting' = setting
  BY DEF Next, Tick, Midnight
<1>3. CASE Tick
  <2>1. today' = today
    BY <1>3 DEF Tick
  <2>2. minute < minute' /\ \A b \in Instants : minute < b => minute' <= b
    <3>1. PICK t \in Instants : /\ t > minute /\ minute' = t
                                /\ \A u \in Instants : u > minute => t <= u
      BY <1>3 DEF Tick
    <3>2. minute \in Int /\ \A u \in Instants : u \in Int
      BY Place, Grid DEF DayMinutes
    <3> QED
      BY <3>1, <3>2
  <2> QED
    BY <1>1, <1>2, <2>1, <2>2 DEF Follows
<1>4. CASE Midnight
  <2>1. today' = today + 1 /\ minute' = 0
    BY <1>4 DEF Midnight
  <2>2. 960 <= minute
    BY <1>1, <1>4 DEF Midnight
  <2> QED
    BY <1>2, <2>1, <2>2 DEF Follows
<1> QED
  BY <1>3, <1>4 DEF Next

\* The clock alone: the regime of an instant lasts until its handoff and
\* changes at it.
LEMMA NaturalHandsOver ==
    ASSUME NEW d \in Date(FirstYear, 1, 1)..Date(LastYear, 12, 31), NEW t \in DayMinutes,
           NEW e \in Date(FirstYear, 1, 1)..Date(LastYear, 12, 31), NEW u \in DayMinutes,
           Follows(d, t, e, u)
    PROVE  /\ At(d, t) < natural(At(d, t)).handoff
           /\ natural(At(e, u)).regime # natural(At(d, t)).regime
                <=> At(e, u) >= natural(At(d, t)).handoff
<1>1. d \in Int /\ t \in Int /\ 0 <= t /\ t < 1440 /\ e \in Int /\ u \in Int /\ 0 <= u /\ u < 1440
  BY WalkedYears DEF DayMinutes
<1>2. PICK n \in Int : n = next_trading_day(d) /\ n >= d + 1
  BY <1>1, NextSession
<1>3. PICK c \in {780, 960} : c = session_close(d)
  BY Bells
<1>4. /\ At(d, t) = 1440 * d + t /\ At(e, u) = 1440 * e + u
      /\ At(d, 540) = 1440 * d + 540 /\ At(d, 570) = 1440 * d + 570
      /\ At(d, c) = 1440 * d + c /\ At(n, 540) = 1440 * n + 540
  BY DEF At
<1>5. ASSUME NEW x \in Date(FirstYear, 1, 1)..Date(LastYear, 12, 31), NEW v \in DayMinutes
      PROVE  natural(At(x, v)).regime =
                IF x \in OpenDays /\ 540 <= v /\ v < 570 THEN "PREP"
                ELSE IF x \in OpenDays /\ 570 <= v /\ v < session_close(x) THEN "EQUITY"
                ELSE "CRYPTO"
  <2>1. v \in Int /\ session_close(x) \in {780, 960}
    BY Bells DEF DayMinutes
  <2>2. CASE x \in OpenDays /\ v < 540
    <3>1. natural(At(x, v)) = [regime |-> "CRYPTO", handoff |-> At(x, 540)]
      BY <2>2, NaturalIs
    <3> QED
      BY <2>1, <2>2, <3>1
  <2>3. CASE x \in OpenDays /\ 540 <= v /\ v < 570
    <3>1. natural(At(x, v)) = [regime |-> "PREP", handoff |-> At(x, 570)]
      BY <2>3, NaturalIs
    <3> QED
      BY <2>1, <2>3, <3>1
  <2>4. CASE x \in OpenDays /\ 570 <= v /\ v < session_close(x)
    <3>1. natural(At(x, v)) = [regime |-> "EQUITY", handoff |-> At(x, session_close(x))]
      BY <2>4, NaturalIs
    <3> QED
      BY <2>1, <2>4, <3>1
  <2>5. CASE x \notin OpenDays \/ session_close(x) <= v
    <3>1. natural(At(x, v)) = [regime |-> "CRYPTO", handoff |-> At(next_trading_day(x), 540)]
      BY <2>5, NaturalIs
    <3> QED
      BY <2>1, <2>5, <3>1
  <2> QED
    BY <2>1, <2>2, <2>3, <2>4, <2>5
<1>6. natural(At(e, u)).regime =
        IF e \in OpenDays /\ 540 <= u /\ u < 570 THEN "PREP"
        ELSE IF e \in OpenDays /\ 570 <= u /\ u < session_close(e) THEN "EQUITY"
        ELSE "CRYPTO"
  BY <1>5
<1>7. CASE e = d /\ t < u /\ \A b \in {540, 570, 780, 960} : t < b => u <= b
  <2>1. natural(At(e, u)).regime =
          IF d \in OpenDays /\ 540 <= u /\ u < 570 THEN "PREP"
          ELSE IF d \in OpenDays /\ 570 <= u /\ u < c THEN "EQUITY"
          ELSE "CRYPTO"
    BY <1>3, <1>6, <1>7
  <2>2. CASE d \in OpenDays /\ t < 540
    <3>1. natural(At(d, t)) = [regime |-> "CRYPTO", handoff |-> At(d, 540)]
      BY <2>2, NaturalIs
    <3>2. u <= 540
      BY <1>7, <2>2
    <3> QED
      BY <1>1, <1>4, <1>7, <2>1, <2>2, <3>1, <3>2
  <2>3. CASE d \in OpenDays /\ 540 <= t /\ t < 570
    <3>1. natural(At(d, t)) = [regime |-> "PREP", handoff |-> At(d, 570)]
      BY <2>3, NaturalIs
    <3>2. u <= 570
      BY <1>7, <2>3
    <3> QED
      BY <1>1, <1>4, <1>7, <2>1, <2>3, <3>1, <3>2
  <2>4. CASE d \in OpenDays /\ 570 <= t /\ t < c
    <3>1. natural(At(d, t)) = [regime |-> "EQUITY", handoff |-> At(d, c)]
      BY <1>3, <2>4, NaturalIs
    <3>2. u <= c
      BY <1>7, <2>4
    <3> QED
      BY <1>1, <1>4, <1>7, <2>1, <2>4, <3>1, <3>2
  <2>5. CASE d \notin OpenDays \/ c <= t
    <3>1. natural(At(d, t)) = [regime |-> "CRYPTO", handoff |-> At(n, 540)]
      BY <1>2, <1>3, <2>5, NaturalIs
    <3> QED
      BY <1>1, <1>2, <1>4, <1>7, <2>1, <2>5, <3>1
  <2> QED
    BY <1>1, <2>2, <2>3, <2>4, <2>5
<1>8. CASE e = d + 1 /\ u = 0 /\ 960 <= t
  <2>1. natural(At(e, u)).regime = "CRYPTO"
    BY <1>6, <1>8
  <2>2. natural(At(d, t)) = [regime |-> "CRYPTO", handoff |-> At(n, 540)]
    <3>1. session_close(d) <= t
      BY <1>1, <1>3, <1>8
    <3> QED
      BY <1>2, <3>1, NaturalIs
  <2> QED
    BY <1>1, <1>2, <1>4, <1>8, <2>1, <2>2
<1> QED
  BY <1>7, <1>8 DEF Follows

\* With both desks on and nothing forced, the announced handoff is the next
\* change of regime, over every night, weekend, feast and early close.
THEOREM HandoffIsRight == Spec => HandoffIsTheNextChange
<1> DEFINE BothOn == setting = [force |-> "", equity_enabled |-> TRUE, crypto_enabled |-> TRUE]
           Kept1 == BothOn =>
              LET s == resolve(now, setting)
              IN  /\ now < s.handoff
                  /\ resolve(now, setting)'.regime # s.regime <=> now' >= s.handoff
<1>1. TypeOK /\ TypeOK' /\ [Next]_vars => [Kept1]_vars
  <2> SUFFICES ASSUME TypeOK, TypeOK', Next, BothOn
               PROVE  /\ now < resolve(now, setting).handoff
                      /\ resolve(now', setting').regime # resolve(now, setting).regime
                           <=> now' >= resolve(now, setting).handoff
    OBVIOUS
  <2>1. /\ today \in Date(FirstYear, 1, 1)..Date(LastYear, 12, 31) /\ minute \in DayMinutes
        /\ now = At(today, minute)
    BY Place
  <2>2. /\ today' \in Date(FirstYear, 1, 1)..Date(LastYear, 12, 31) /\ minute' \in DayMinutes
        /\ now' = At(today', minute')
    BY Grid DEF TypeOK, now
  <2>3. ASSUME NEW dt
        PROVE  /\ resolve(dt, setting).regime = natural(dt).regime
               /\ resolve(dt, setting).handoff = natural(dt).handoff
    BY DEF resolve
  <2>4. setting' = setting
    BY Steps
  <2>5. resolve(now', setting').regime = natural(now').regime
    BY <2>3, <2>4, Zenon
  <2>6. /\ resolve(now, setting).regime = natural(now).regime
        /\ resolve(now, setting).handoff = natural(now).handoff
    BY <2>3, Zenon
  <2>7. Follows(today, minute, today', minute')
    BY Steps, Zenon
  <2>8. /\ At(today, minute) < natural(At(today, minute)).handoff
        /\ natural(At(today', minute')).regime # natural(At(today, minute)).regime
             <=> At(today', minute') >= natural(At(today, minute)).handoff
    BY <2>1, <2>2, <2>7, NaturalHandsOver, Zenon
  <2> QED
    BY <2>1, <2>2, <2>5, <2>6, <2>8
<1> QED
  BY <1>1, TypeCorrect, PTL DEF Spec, HandoffIsTheNextChange
=============================================================================
