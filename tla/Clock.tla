------------------------------- MODULE Clock -------------------------------
(***************************************************************************)
(* The session router of src/app/clock.py over the exchange calendar.  The *)
(* state is the Eastern wall clock, which jumps from one instant to the    *)
(* next, and the settings the engine resolves with: the forced regime and  *)
(* the two master switches of the desks.  What the router answers is a     *)
(* function of that state; the properties compare its answers at different *)
(* instants, and the answers of the several functions that read the        *)
(* calendar on their own.                                                  *)
(***************************************************************************)
EXTENDS NyseCalendar

CONSTANTS Instants, \* the minutes of the day at which the clock stops
          Settings  \* the settings explored, constant through a behaviour

ASSUME InstantsAssumption ==
    /\ Instants \subseteq 0..1439
    /\ {0, PREMARKET_PREP_OPEN, MARKET_OPEN, EARLY_CLOSE, MARKET_CLOSE}
           \subseteq Instants

ASSUME SettingsAssumption ==
    Settings \subseteq [force : {"", "EQUITY", "CRYPTO", "IDLE"},
                        equity_enabled : BOOLEAN, crypto_enabled : BOOLEAN]

VARIABLES today,   \* the Eastern date
          minute,  \* the Eastern time of day
          setting  \* force, equity_enabled, crypto_enabled

vars == <<today, minute, setting>>

now == At(today, minute)

-----------------------------------------------------------------------------
PREP_START == PREMARKET_PREP_OPEN

next_prep_start(dt) ==
    IF is_trading_day(DateOf(dt)) /\ TimeOf(dt) < PREP_START
    THEN At(DateOf(dt), PREP_START)
    ELSE At(next_trading_day(DateOf(dt)), PREP_START)

\* Mutant of natural: the handoff of an early close is four o'clock.
natural_late_bell(dt) ==
    LET d == DateOf(dt)
        t == TimeOf(dt)
    IN  CASE is_trading_day(d) /\ PREP_START <= t /\ t < MARKET_OPEN ->
                [regime |-> "PREP", handoff |-> At(d, MARKET_OPEN)]
          [] is_trading_day(d) /\ MARKET_OPEN <= t /\ t < session_close(d) ->
                [regime |-> "EQUITY", handoff |-> At(d, MARKET_CLOSE)]
          [] OTHER -> [regime |-> "CRYPTO", handoff |-> next_prep_start(dt)]

\* The regime by the clock alone, and when it hands over.
natural(dt) ==
    LET d == DateOf(dt)
        t == TimeOf(dt)
    IN  CASE is_trading_day(d) /\ PREP_START <= t /\ t < MARKET_OPEN ->
                [regime |-> "PREP", handoff |-> At(d, MARKET_OPEN)]
          [] is_trading_day(d) /\ MARKET_OPEN <= t /\ t < session_close(d) ->
                [regime |-> "EQUITY", handoff |-> At(d, session_close(d))]
          [] OTHER -> [regime |-> "CRYPTO", handoff |-> next_prep_start(dt)]

\* A desk that is off cannot be forced on; by the clock it leaves its hours
\* to the crypto desk.
resolve(dt, s) ==
    LET desk(r) ==
            CASE s.force # "" /\ r = "EQUITY" /\ ~s.equity_enabled -> "IDLE"
              [] r = "CRYPTO" /\ ~s.crypto_enabled -> "IDLE"
              [] s.force = "" /\ r \in {"EQUITY", "PREP"} /\ ~s.equity_enabled ->
                    (IF s.crypto_enabled THEN "CRYPTO" ELSE "IDLE")
              [] OTHER -> r
    IN  IF s.force # ""
        THEN [regime |-> desk(s.force), handoff |-> dt + 60]
        ELSE [regime |-> desk(natural(dt).regime), handoff |-> natural(dt).handoff]

\* Mutant of session_key: the small hours are keyed on their own date.
session_key_by_date(dt, s) ==
    IF resolve(dt, s).regime \in {"EQUITY", "PREP"}
    THEN [kind |-> "EQ", date |-> DateOf(dt)]
    ELSE [kind |-> "CX", date |-> DateOf(dt)]

session_key(dt, s) ==
    IF resolve(dt, s).regime \in {"EQUITY", "PREP"}
    THEN [kind |-> "EQ", date |-> DateOf(dt)]
    ELSE [kind |-> "CX",
          date |-> IF TimeOf(dt) < PREP_START THEN DateOf(dt) - 1 ELSE DateOf(dt)]

\* Mutant of ribbon_segments: every session is drawn to four o'clock.
ribbon_segments_no_early_close(d, crypto_enabled) ==
    LET off == IF crypto_enabled THEN "CRYPTO" ELSE "IDLE"
    IN  IF ~is_trading_day(d) THEN {<<off, 0, 1440>>}
        ELSE {<<off, 0, PREP_START>>, <<"PREP", PREP_START, MARKET_OPEN>>,
              <<"EQUITY", MARKET_OPEN, MARKET_CLOSE>>, <<off, MARKET_CLOSE, 1440>>}

\* The territories of a day as the dashboard draws them: regime, from, to.
ribbon_segments(d, crypto_enabled) ==
    LET off == IF crypto_enabled THEN "CRYPTO" ELSE "IDLE"
        bell == session_close(d)
    IN  IF ~is_trading_day(d) THEN {<<off, 0, 1440>>}
        ELSE {<<off, 0, PREP_START>>, <<"PREP", PREP_START, MARKET_OPEN>>,
              <<"EQUITY", MARKET_OPEN, bell>>, <<off, bell, 1440>>}

-----------------------------------------------------------------------------
Init ==
    /\ today = Date(FirstYear, 1, 1)
    /\ minute = 0
    /\ setting \in Settings

\* The clock goes to the next instant of the day.
Tick ==
    /\ \E t \in Instants :
          /\ t > minute
          /\ \A u \in Instants : u > minute => t <= u
          /\ minute' = t
    /\ UNCHANGED <<today, setting>>

\* Midnight.  The walk ends with the last year.
Midnight ==
    /\ \A t \in Instants : t <= minute
    /\ today < Date(LastYear, 12, 31)
    /\ today' = today + 1
    /\ minute' = 0
    /\ UNCHANGED setting

Next == Tick \/ Midnight

Spec == Init /\ [][Next]_vars

-----------------------------------------------------------------------------
TypeOK ==
    /\ today \in Date(FirstYear, 1, 1)..Date(LastYear, 12, 31)
    /\ minute \in Instants
    /\ setting \in Settings
    /\ resolve(now, setting).regime \in {"PREP", "EQUITY", "CRYPTO", "IDLE"}

\* The rules of calendar_nyse.py (n-th weekdays, Easter, observed feasts, the
\* exceptions) close exactly the days the exchange closes, and shorten
\* exactly the sessions it shortens; and Easter falls on the computed Sunday
\* in each of the three centuries the reference covers.
CalendarAgrees ==
    minute = 0 =>
        /\ today = Date(FirstYear, 1, 1) =>
              \A y \in Covered : easter_sunday(y) = RefEaster(y)
        /\ is_trading_day(today) <=> Weekday(today) < 5 /\ ~RefHoliday(today)
        /\ is_trading_day(today) =>
              (session_close(today) = EARLY_CLOSE <=> RefEarlyClose(today))

\* Four functions read the calendar on their own: the router, is_market_open,
\* the pair next_open and next_close, and the dashboard's ribbon.  They never
\* tell different stories: the desk trades equities exactly while the market
\* is open, exactly while the next bell is a closing one, and the ribbon
\* shows at every instant the regime the router is in.
ViewsAgree ==
    LET r == natural(now).regime
    IN  /\ r = "EQUITY" <=> is_market_open(now)
        /\ is_market_open(now) <=> next_close(now) < next_open(now)
        /\ setting.force = "" /\ setting.equity_enabled =>
              \E seg \in ribbon_segments(today, setting.crypto_enabled) :
                  /\ seg[1] = resolve(now, setting).regime
                  /\ seg[2] <= minute /\ minute < seg[3]

\* With both desks on and nothing forced, the regime lasts to the announced
\* handoff and not a minute longer: over weekends, holidays and early closes
\* the countdown the exits flatten by is never short and never long.
HandoffIsTheNextChange ==
    [][setting = [force |-> "", equity_enabled |-> TRUE, crypto_enabled |-> TRUE] =>
          LET s == resolve(now, setting)
          IN  /\ now < s.handoff
              /\ resolve(now, setting)'.regime # s.regime <=> now' >= s.handoff]_vars

KeyRank(key) == 2 * key.date + (IF key.kind = "CX" THEN 1 ELSE 0)

\* The session key, part of the idempotency key of every trade, never goes
\* back to an earlier shift while time passes, whatever is forced or off; and
\* midnight does not split a crypto night into two shifts.
KeysAdvance ==
    LET key == session_key(now, setting)
    IN  /\ KeyRank(key') >= KeyRank(key)
        /\ today' # today /\ key.kind = "CX" /\ key.kind' = "CX" => key' = key

ShiftsNeverComeBack == [][KeysAdvance]_vars
=============================================================================
