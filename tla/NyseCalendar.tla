---------------------------- MODULE NyseCalendar ----------------------------
(***************************************************************************)
(* The exchange calendar of src/app/calendar_nyse.py: full-day closures,   *)
(* sessions that end at 13:00, and the next bell.  A date is its proleptic *)
(* Gregorian ordinal (Python's date.toordinal), a time of day is a number  *)
(* of minutes, and a naive Eastern datetime is 1440 * ordinal + minutes.   *)
(***************************************************************************)
EXTENDS Integers, FiniteSets

CONSTANTS FirstYear, LastYear  \* the years whose days are walked

\* The years the reference calendar below holds for.
Covered == 1900..2199

ASSUME YearsAssumption ==
    /\ {FirstYear, LastYear} \subseteq Covered
    /\ FirstYear <= LastYear

\* One year more than is walked: the last night looks into the next January.
Years == FirstYear..(LastYear + 1)

-----------------------------------------------------------------------------
(* The date type of the standard library. *)

Leap(y) == (y % 4 = 0 /\ y % 100 # 0) \/ y % 400 = 0

DaysBefore(y, m) ==
    <<0, 31, 59, 90, 120, 151, 181, 212, 243, 273, 304, 334>>[m]
        + IF m > 2 /\ Leap(y) THEN 1 ELSE 0

Date(y, m, d) ==
    365 * (y - 1) + (y - 1) \div 4 - (y - 1) \div 100 + (y - 1) \div 400
        + DaysBefore(y, m) + d

\* Monday is 0.
Weekday(d) == (d + 6) % 7

YearOf(d) == CHOOSE y \in Years : Date(y, 1, 1) <= d /\ d < Date(y + 1, 1, 1)

At(d, t) == 1440 * d + t
DateOf(dt) == dt \div 1440
TimeOf(dt) == dt % 1440

-----------------------------------------------------------------------------
(* The calendar. *)

MARKET_OPEN == 570
MARKET_CLOSE == 960
EARLY_CLOSE == 780
PREMARKET_PREP_OPEN == 540

nth_weekday(y, m, wd, n) ==
    LET first == Date(y, m, 1)
    IN  first + ((wd - Weekday(first)) % 7) + 7 * (n - 1)

last_weekday(y, m, wd) ==
    LET end == IF m = 12 THEN Date(y, 12, 31) ELSE Date(y, m + 1, 1) - 1
    IN  end - ((Weekday(end) - wd) % 7)

easter_sunday(y) ==
    LET a == y % 19
        b == y \div 100
        c == y % 100
        f == (b + 8) \div 25
        g == (b - f + 1) \div 3
        h == (19 * a + b - b \div 4 - g + 15) % 30
        lm == (32 + 2 * (b % 4) + 2 * (c \div 4) - h - (c % 4)) % 7
        m == (a + 11 * h + 22 * lm) \div 451
        n == h + lm - 7 * m + 114
    IN  Date(y, n \div 31, (n % 31) + 1)

\* Mutant of observed: a Saturday feast is not kept on the Friday before.
observed_Sunday_only(d, shift_saturday_back) ==
    IF Weekday(d) = 6 THEN d + 1 ELSE d

observed(d, shift_saturday_back) ==
    CASE Weekday(d) = 5 -> (IF shift_saturday_back THEN d - 1 ELSE d)
      [] Weekday(d) = 6 -> d + 1
      [] OTHER -> d

holidays(y) ==
    LET newYear == Date(y, 1, 1)
    IN  (IF Weekday(newYear) # 5 THEN {observed(newYear, FALSE)} ELSE {})
          \cup {nth_weekday(y, 1, 0, 3), nth_weekday(y, 2, 0, 3),
                easter_sunday(y) - 2, last_weekday(y, 5, 0)}
          \cup (IF y >= 2022 THEN {observed(Date(y, 6, 19), TRUE)} ELSE {})
          \cup {observed(Date(y, 7, 4), TRUE), nth_weekday(y, 9, 0, 1),
                nth_weekday(y, 11, 3, 4), observed(Date(y, 12, 25), TRUE)}

early_closes(y) ==
    LET eve(d) == IF Weekday(d) < 5 /\ Weekday(d + 1) < 5 THEN {d} ELSE {}
    IN  ({nth_weekday(y, 11, 3, 4) + 1}
            \cup eve(Date(y, 7, 3)) \cup eve(Date(y, 12, 24))) \ holidays(y)

\* The two caches (lru_cache).
HolidaysOf == [y \in Years |-> holidays(y)]
EarlyClosesOf == [y \in Years |-> early_closes(y)]

is_trading_day(d) == Weekday(d) < 5 /\ d \notin HolidaysOf[YearOf(d)]

session_close(d) ==
    IF d \in EarlyClosesOf[YearOf(d)] THEN EARLY_CLOSE ELSE MARKET_CLOSE

is_market_open(dt) ==
    /\ is_trading_day(DateOf(dt))
    /\ MARKET_OPEN <= TimeOf(dt)
    /\ TimeOf(dt) < session_close(DateOf(dt))

\* The loop ends within a week: no closure of the exchange lasts longer.
next_trading_day(d) ==
    CHOOSE n \in (d + 1)..(d + 7) :
        is_trading_day(n) /\ \A k \in (d + 1)..(n - 1) : ~is_trading_day(k)

next_open(dt) ==
    LET d == DateOf(dt)
    IN  IF is_trading_day(d) /\ TimeOf(dt) < MARKET_OPEN
        THEN At(d, MARKET_OPEN)
        ELSE At(next_trading_day(d), MARKET_OPEN)

next_close(dt) ==
    LET d == DateOf(dt)
        n == next_trading_day(d)
    IN  IF is_trading_day(d) /\ TimeOf(dt) < session_close(d)
        THEN At(d, session_close(d))
        ELSE At(n, session_close(n))

-----------------------------------------------------------------------------
(* A reference calendar, stated as the exchange states it, day by day: a   *)
(* day is looked at through its month, its day of the month and its        *)
(* weekday, and Easter through the paschal full moon.                      *)

MonthOf(d) ==
    LET y == YearOf(d)
    IN  CHOOSE m \in 1..12 :
            /\ Date(y, m, 1) <= d
            /\ m = 12 \/ d < Date(y, m + 1, 1)

DayOf(d) == d - Date(YearOf(d), MonthOf(d), 1) + 1

\* The paschal full moon of a year from 1900 to 2199: its number of days
\* after the 21st of March, with the two corrections of the epact table.
PaschalMoon(y) ==
    LET g == y % 19
        n == (19 * g + 24) % 30
        k == IF n = 29 \/ (n = 28 /\ g > 10) THEN n - 1 ELSE n
    IN  Date(y, 3, 21) + k

RefEaster(y) ==
    CHOOSE d \in (PaschalMoon(y) + 1)..(PaschalMoon(y) + 7) : Weekday(d) = 6

\* A feast with a fixed date.
Feast(d) ==
    \/ MonthOf(d) = 1 /\ DayOf(d) = 1
    \/ MonthOf(d) = 6 /\ DayOf(d) = 19 /\ YearOf(d) >= 2022
    \/ MonthOf(d) = 7 /\ DayOf(d) = 4
    \/ MonthOf(d) = 12 /\ DayOf(d) = 25

RefHoliday(d) ==
    LET m == MonthOf(d)
        k == DayOf(d)
        wd == Weekday(d)
    IN  \/ wd = 0 /\ m \in {1, 2} /\ k \in 15..21
        \/ wd = 0 /\ m = 5 /\ k >= 25
        \/ wd = 0 /\ m = 9 /\ k <= 7
        \/ wd = 3 /\ m = 11 /\ k \in 22..28
        \/ wd = 4 /\ d + 2 = RefEaster(YearOf(d))
        \/ wd < 5 /\ Feast(d)
        \/ wd = 0 /\ Feast(d - 1)
        \/ wd = 4 /\ m # 12 /\ Feast(d + 1)
        \/ wd = 4 /\ m = 12 /\ k = 24

RefEarlyClose(d) ==
    LET m == MonthOf(d)
        k == DayOf(d)
    IN  \/ Weekday(d) = 4 /\ m = 11 /\ k \in 23..29
        \/ Weekday(d) \in 0..3 /\ <<m, k>> \in {<<7, 3>>, <<12, 24>>}
=============================================================================
