# A verification development of the Janus Desk

TLA+ models, TLC runs and TLAPS proofs about the paper-trading desk in this
repository: what it does with the account, the command queue and the stops of
its positions when processes die, commits fail and several actors interleave;
how a scan gets from a feed to a position within the limits; what its calendar
says; and how it asks the venues of the world.
File and line references are to the repository.

## 1. The system

| component | state it keeps | operations | what makes it correct |
|---|---|---|---|
| **Booking** (`app/db/repositories.py` PositionRepo and LedgerRepo, `app/broker/paper.py`, `scanner._try_open`, `position_manager._close`, `db/connection.init_db`, `scripts/reset_book.py`) | tables `positions` (unique idempotency key, status) and `ledger` (one row) | open: gates, debit, insert; close: request, credit, close; rebase of the capital at a boot; reset of the book | debit and credit happen once per trade; cash and PnL agree with the rows; a CLOSED row is final |
| **Engine loop** (`app/engine/scheduler.py`, `CommandRepo`, the command endpoints of `app/web/server.py`, pass 2 of `scanner.run_scan`) | table `commands`, kv `halted` and `force_regime`; in memory: `last_manage_at`, `last_scan_at`, `consecutive_failures` | tick = commands, manage pass, scan, heartbeat; cycle failure; restart | the kill switch, the position limit, every command applied at most once and answered, exits never abandoned |
| **Exit policy** (`position_manager.manage_all`, `exit_rules.py`, exit-plan columns) | `stop_price`, `trail_high_water`, `vwap_floor`, `mark_ts`, `status` | per position: raise the lock-in stop, record the mark, evaluate, close; close as stale | stops only rise, gains reached stay locked in, a broken stop is closed |
| **Scanner** (`scanner.run_scan`, `_try_open`) | tables `scans`, `scan_results` | context, assessment of every symbol, ranking, openings, recording | every symbol is accounted for; the best candidates win the slots |
| **Risk gates** (`risk.py`) | none (reads positions, ledger, kv) | `check`, `size_position` | limits hold at the moment of the fill, whatever came before |
| **Desks and signals** (`markets/adapters.py`, `engine/scoring.py`, `indicators.py`, `regime.py`, `crossover.py`, `scalping.py`) | the shared context of a scan | `assess` of options, shares and crypto | a shortcut never discards a candidate; the stop a position gets is the one its size assumed |
| **Clock** (`clock.py`, `calendar_nyse.py`) | none | `resolve`, `session_key`, holidays, bells, ribbon | the days and bells of the exchange; handoffs when the regime changes; session keys that never come back |
| **Resilience** (`app/resilience/`) and **data** (`app/data/`) | request window, breaker counters, a pool of 12 threads, a lock file | `acquire`, `record_429`, `guard`, `budget`, fail-over, `SingleInstance` | the venue's ceiling is kept; nothing waits for ever; a venue is asked again |
| **News** (`agents/news.py`, `scheduler._maybe_refresh_news`, `llm/chain.py`) | single-flight lock, table `sentiment` | refresh in a daemon thread | at most one refresh in flight; an old bias stops counting |
| **Supervisor** (`run.py`, `run_engine.py`, `run_web.py`) | child processes | spawn, restart, stop | children are restarted unless shutting down |
| **Dashboard** (`app/web/`) | none of its own | read endpoints; command endpoints that enqueue | only the engine acts |
| **Notifications, commentary, backtests** | caches | tell people, evaluate offline | not modelled: no decision of the desk reads them |

**How they interact.** The supervisor runs two processes, the engine (one
thread in a loop) and the dashboard (a web server), over one SQLite database
in WAL mode. The dashboard appends `commands` rows and reads everything else;
the engine claims the commands one by one at the start of each tick, and is
otherwise the only writer of positions and ledger. Two things break that
rule: `init_db` runs in *both* processes and may rebase the account, and
`scripts/reset_book.py` may be run at any time.

**What is hard.** There is no transaction around the commits of an opening or
a closing, so a failed commit, a death or another process can fall between
any two. Rows are read before a transaction begins and updated by id inside
it. Commands arrive at any moment of a tick. A command is marked RUNNING
before it is executed. Failures are counted in memory and cleared by a
restart. A market's feed can be dead while the other lives.
A slot of the rate window is reserved in one place and used in another, by a
pool that abandoned calls may fill. Every gate of a scan reads a book that the
scan itself is changing.
`PROJECT.json` lists these hazards line by line with the properties that
cover each.

## 2. Modules

| module | models | extends / uses |
|---|---|---|
| `TradeLedger` | the account as it is promised: entering and leaving a trade are single events | |
| `Booking` | the same account as the program keeps it, one action per database commit | instance of `TradeLedger` under a refinement mapping |
| `EngineLoop` | tick, command queue, kill switch, failures, restarts | |
| `ExitPolicy` | the manage pass and the exit rules | |
| `NyseCalendar` | holidays, early closes, bells; beside them a reference calendar in the exchange's own terms | |
| `Clock` | the router, handoffs, session keys and the ribbon, over a wall clock that walks the years | extends `NyseCalendar` |
| `RateGovernor`, `CircuitBreaker` | one window, one breaker, as operators on a value | |
| `MarketFeed` | the engine and the news thread behind governor, breakers and the pool of budgeted calls | instances of the two |
| `Signals` | indicators, regime, scalp gates and the pillars of a score, in integers | |
| `Desks` | `assess` of the three desks | extends `Signals` |
| `RiskGates` | the gates in their order, the budget and the sizing | extends `Desks` |
| `Scanner` | scans one after the other, with the book between them | extends `RiskGates` |
| `MC...` | instances for TLC | the module they are named after |
| `..._proofs` | theorems (`TradeLedger_proofs` holds those that speak of the account: the refinement by `Booking` and the two about its sums) | the module they are named after, `TLAPS` |
| `DataFacts` | lemmas about finite sets, sums and counts that the proofs share | |

Operators marked "mutant" in a comment are not part of the models: each is a
plausible mistake in the definition that follows it, kept to show that the
properties notice it.

### Booking

`positions[k]` is the row of idempotency key `k` (`NONE` where there is no
row), `ledger` the ledger row, `op[e]` the handler engine `e` is in the middle
of: the next commit, the key, the amount of the fill, the entry cost held in
the row object. Quantity is folded into prices. `debits`, `credits` and
`settled` are history variables the program does not have.

| actions | code |
|---|---|
| `PassGates`, `Buy`, `InsertPosition` | `scanner._try_open`: `risk.check` (duplicate and cash gates), `PaperBroker.buy`, `PositionRepo.open_position` |
| `ReadForClose`, `RequestRead`, `RequestWrite`, `Sell`, `CloseRead`, `CloseWrite` | `_close`: `request_close`, `PaperBroker.sell`, `close`; the reads are steps of their own because the code reads before `BEGIN` |
| `Interrupt` | the next commit raises, or the process dies: the handler is abandoned, what was committed stays |
| `DetectDrift`, `RebaseCapital` | `init_db` and `LedgerRepo.rebase_capital`, in the engine before it trades and in the dashboard at any time (`WebReboots`) |
| `ResetBook` | `LedgerRepo.reset_book` under a running engine (`BookResets`) |

A close under way when the table is wiped finds no row; its audit row then
violates the foreign key of `position_events`, and the transaction rolls back.
That is why `RequestWrite` and `CloseWrite` change nothing in that case.

Promises are stated as what holds *until* something fails: `Unwiped` (no
reset so far) and `Unfailed` (no abandoned handler either) are conditions on
the state, so that one run shows both the clean behaviour and what failures
cost. With two engines or a rebooting dashboard only `BookedAtLeastOnce`,
`FirstFillStands` and `RowsComeFromInsert` are claimed. `BookResets` is
modelled for one engine only.

### EngineLoop

`pc` says where the thread is: `commands`, `running`, `answering`/`refusing`
(recording DONE/FAILED), `manage`, `managing`, `scan`, `scanning`, `opening`,
`beat`, `failing`, `sleeping`, `down`. `book` is the number of open positions.
`CommandRaises` is the try/except around one command, `TickRaises` everything
else that ends a tick, `HandleCycleFailure` the counter and the auto-halt,
`Crash`/`Restart` a death and the supervisor's restart. The wall clock's choice of
regime is an input (`Resolves`). `SET_WEIGHTS` and `REFRESH_NEWS` are one kind,
`OTHER`, because the loop reads nothing they write; a request for a regime
whose desk is switched off answers likewise. News refresh, keepalive
ping and shift announcements do not affect the state modelled here.

### ExitPolicy

Per position the columns the rules read, and the pass's own state: positions
still to come (`todo`), the one in hand (`cur`), the marks fetched for the
pass, the flatten decision. A feed may omit a symbol or fail for a market. Prices are
integers in units of the plan's entry (per mille or per cent); comparisons in
the code are between rounded floats with a tolerance of 1e-12, below what the
prices can tell apart. `peak` is a history variable.

### Clock

The state is a date, a minute and the settings of the router, which stay
constant. Midnight is an action of its own and `Tick` goes to the next of the
`Instants`. Everything the router says is a function of that state, so the
interesting properties compare two instants, or two functions. Times are Eastern: the
conversion from UTC is the time zone library's, and so `seconds_to_handoff`
counts wall-clock seconds here as it does in the code.

### MarketFeed

| actions | code |
|---|---|
| `BeginAlpaca`, `Acquire`, `AcquireRaises`, `AlpacaAnswers`, `AlpacaTimeout` | `alpaca._get`, `RateGovernor.acquire`, `record_429`, `budget` |
| `BeginCrypto`, `BeginYahoo`, `FencedAnswers`, `FencedFails`, `FencedTimeout` | the Coinbase, Kraken and Yahoo providers behind their breakers, Kraken standing in for Coinbase |
| `KickNews`, `ModelAnswers`, `ModelFails`, `ModelTimeout` | `_maybe_refresh_news`, `news.refresh`, the chain of models |
| `TakeTask`, `LateEnd` | a thread of the pool takes a task; an abandoned one ends after all, perhaps with a 429 |
| `Tick` | a unit of time passes, while every thread waits |

Ages replace timestamps: `hits` are the ages of reserved slots, `sent` (a
history variable) of the requests that left. The lock of the refresh is held
exactly while `news` is a thread. Left out: `pace()`, which sleeps up to two
seconds before a request while it holds a global lock; the engine's own
requests for commentary, which use the same pool; the second scope of the
news, which has a row of its own.

### Signals, Desks, RiskGates, Scanner

A *view* is what the feed gives of a symbol: an optional quote, bars, an
optional chain. `assess` is the set of assessments the desk may make of it,
empty where the code raises. Arithmetic is fixed point, rounded down (prices
in cents, shares in basis points); the window lengths, arguments in the
code, are a constant record, so that an instance can use tapes of four bars.
`Begin`, `BuildContext`, `Assess`, `Rank`, then `Refuse`, `DryRun` or `Open`
for each candidate, `Record` and `Return` are `run_scan`; `Stop` is a death, or an
exception in pass 2, at any step. `Mark`, `Close`, `CooldownEnds`, `Halt` and
`Midnight` are what happens to the book and its gates between and during
scans. The engine has one thread, so only the clock moves while a scan runs.
What the clock does during pass 1 is let happen at the start of pass 2, where
it is first seen.

## 3. The runs

| run | question | bounds and why they are enough |
|---|---|---|
| `booking_trading` | Is the sequence of commits as good as one (`BookedOnce`, `BooksAgree`, `AccountSpec`), and what remains after a failure (`BookedAtLeastOnce`, `ExtraBookingsBounded`, `ClosedIsFinal`, `RowsComeFromInsert`)? Does every handler end (`HandlersEnd`)? | one engine, two keys (one can be open while the other closes), three prices that give fills of different cost, one of them 0, two capitals, one abandoned handler, two rebases/resets in any order |
| `booking_engines` | What survives two engines on one book? | one contended key, two prices (so that a second fill differs), two abandoned handlers, one rebase by either process |
| `booking_double` | ARCHITECTURE.md "Closing twice is a no-op, not a double-booking" | **violated**: credit, failure, credit again |
| `loop_commands` | The fate of every command and of the switches, under all eight kinds | two desks, two commands (order and overtaking need two), limit 1 with 2 candidates (the limit is met inside a scan), one exception, one death |
| `loop_streak` | Auto-halt and liveness across failures | limit 2, three exceptions (a streak, and one more), one death, two commands |
| `exit_desks` | Ratchets, lock-in, stops honoured with a dead market and a failed commit | a share and a scalp under the default plans; feeds with a price at the stop, between, and past lock-in and arming level; stale at once |
| `exit_worthless` | position_manager.py "Holding through a dead feed means the stop is not real" | **violated**: a feed that answers 0 |
| `clock_years` | Is the calendar the exchange's, do its four readers agree, is the handoff when the regime changes, do session keys only advance? | every day from 2021 to 2026 (fixed feasts on Saturdays, Sundays and most weekdays, the start of Juneteenth, a leap year, early and late Easters; Easter itself over three centuries), the minute of every boundary and the one before it, nine settings of the switches |
| `feed_calls` | Is the venue's ceiling kept, does every call and every refresh end, is a venue asked again after its breaker opened, does an old bias fade? | one worker, so that one hung call blocks everything behind it; limit, window, threshold and cooldown 2, budget 1 (shorter than the window, as 20 s is shorter than 60 s), bias 2 units old at most; 406 027 states |
| `feed_backoff` | governor.py "the next acquire blocks for a full period" | **violated**: the window keeps older hits |
| `scan_pass` | Is every symbol accounted for, do the best win, is the chain's bound exact, can anything be opened past a limit? | two scans of one or two symbols each, two positions at the most, three a day, marks at half and one and a half of the cost, two days, two moves of the management; five views of a symbol; a valid and a negative row of weights; 483 701 states |
| `scan_risk` | risk.py "RISK_PCT is dollars to the stop" | **violated** by a scalp whose stop lies beyond the market's |

The refinement: `AccountSpec` says that, up to the first failure, every step
of `Booking` is a step of `TradeLedger` or leaves the abstract account
unchanged, where a trade is *held* from its debit and *done* from its credit
(a CLOSING row is still held).

**Fairness.** `HandlersEnd` assumes that an engine inside `_try_open` or
`_close` goes on (the thread waits for nothing there). `loop_streak` assumes that the
engine thread runs, that the supervisor restarts a dead engine and that the
manage interval elapses. Exceptions, deaths and commands are never forced.
The bounds on exceptions and deaths mean that liveness is shown for runs in
which they eventually cease; under endless failures the code promises nothing.
`exit_desks` assumes that passes go on (`WF_vars(PassStep)`, which is what
`StopsAreHonoured` of `EngineLoop` provides) and that time passes between
them (strong fairness, since a pass is under way again and again).
`feed_calls` assumes that time does not stop (strong fairness of `Tick`, which
is disabled whenever a thread has something to compute), that a free worker
takes a waiting task, and that a thread whose wait is over goes on. Venues and
models are never made to answer, nor the engine to ask. The walk of
`clock_years` and the scans of `scan_pass` end at their bounds, so these
two runs do not check deadlock.

## 4. What the runs show that a reader may not expect

* A failure between credit and close is paid for: `booking_double`.
* HALT takes effect at the next tick, although README.md:161-162 says
  "immediately": the endpoint queues a command, and a scan under way goes on
  opening. `CommandsComeFirst` and `HaltedOpensNothing` say how late it can be
  and that it then holds.
* A mark of 0 is fresh enough not to be stale and too bad to be judged:
  `exit_worthless`.
* The default trail for shares and crypto gives back 35 % of the high water
  price, not of the gain, so it closes at a level below the stop until the
  high water is past one and a half times the entry, and the target, at 5 % or
  so, closes long before that: short of one jump of that size it cannot fire.
* A scalp is sized by one stop and held by another: `scan_risk`.
* A 429 may buy much less than a window of silence: `feed_backoff`.
* The ceiling of the governor holds at the venue in a window shorter by one
  call budget (`VenueWindow`), not in a full one: a slot is stamped when it is
  reserved, and the request may leave up to a budget later.
* `RateLimitExceeded` of `acquire` is raised outside the `try` of
  `alpaca._get` (alpaca.py:57) and reaches callers as itself. Alpaca has no
  breaker; an open breaker of Yahoo ends the call as `BreakerOpen`.
* A `REFRESH_NEWS` taken while a refresh runs is dropped.
* `MAX_SINGLE_TRADE` looks at the price of one contract, not at what will be
  bought. Slippage and fees come on top of the sizing: cash and the crypto
  limit can be passed by their amount, which `EntryWithinMoney` allows for.
* `SET_WEIGHTS` accepts negative weights; the bound of adapters.py:82-91 can then
  discard a candidate, so `BoundIsExact` asks for weights that are not
  negative. A volume ratio of 0 counts as 1.0 in the liquidity of a spot market.
* A death or an exception in pass 2 leaves the scan RUNNING with its results
  unwritten, though scanner.py:11-14 says every outcome is recorded.
* regime.py:4-5 calls too short a history risk-off; the code answers UNKNOWN,
  which blocks nothing.
* A forced EQUITY regime announces a handoff one hour ahead at every moment,
  so the flatten before the bell never triggers; with the equity desk off, the
  announced handoff is not when the regime changes. `HandoffIsTheNextChange`
  is therefore claimed for both desks on and nothing forced.
* `SCAN_NOW` scans during command processing, before the manage pass that the
  tick otherwise puts first (scheduler.py:330-336).
* A rebase by the dashboard can fall between the read and the write of a
  close; the row then ends CLOSED with the trade's reason instead of the
  rebase's, and the proceeds are added to the new capital. `ClosedIsFinal`
  is therefore claimed, and proved, without such a dashboard only.

## 5. What is proved

Every safety property that a passing run checks is also a theorem, for all
values of the constants that satisfy the named assumptions of the module and
the hypotheses given below. Proofs are by an inductive invariant, one step per
action.

`DataFacts`
: What the proofs need of data of any size. tlapm cannot use the library's
  induction theorems, which take an operator as a parameter; but its `WFMin`, on
  minimal elements of a well-founded relation, takes sets. From it follow
  `LeastNatural` and `SubsetInduction`, induction over the subsets of
  a finite set with the property given *as a set of subsets*. The sums of
  the models (`SumFunction`, `SumFunctionOnSet` of the community modules) are folds;
  their differences are expressed by the cardinality of a set of units
  (`Units`, `Balance`), which gives `SumOfOneMore`, `SumChanges` (one summand
  changes, the sum changes by as much) and `SumGrows`.

`Booking_proofs`
: `TypeCorrect`. `NeverUnpaid` (`BookedAtLeastOnce`): needs `OrderInv`, what a
  handler has behind it at each point whatever others do — a bought key is
  debited, a handler past its request works on a CLOSING or CLOSED row, a
  handler past its sale is credited. `TradesAreBookedOnce` (`BookedOnce`), for
  one engine and no dashboard booting beside it (`Undisturbed`): needs
  `StepInv`, the status of a row names the point its handler has reached, and
  `BootInv`, an engine rebases only before it trades; the invariant is claimed
  while `Unfailed`. `ClosedRowsAreFinal` (`ClosedIsFinal`), same assumption:
  needs `FreshInv`, what `request_close` and `close` read still holds when
  they write. `StepsAreInOrder` is the invariant both `BookedOnce` and the
  refinement rest on. `FirstFillIsKept` (`FirstFillStands`) and
  `OnlyInsertsCreateRows` (`RowsComeFromInsert`) follow from the types.

`TradeLedger_proofs`
: `OneEngineKeepsTheAccount` (`AccountSpec`): the refinement, step by step,
  under `Undisturbed` and until something fails. The debit of `Buy` is `Enter`,
  the credit of `Sell` is `Leave`, `RebaseCapital` is `Rebase`, and every other
  commit leaves the account as it is. Beside `StepsAreInOrder` it needs
  `AmountInv`: the row a handler closes still has the cost the handler read,
  and a rebase sets a capital of the settings.
: `BooksAlwaysAgree` (`BooksAgree`) and `FewExtraBookings`
  (`ExtraBookingsBounded`), for `Undisturbed`, an engine and finitely many
  keys. The first needs `BooksInv`, which also says *between* the commits of a
  handler by how much the ledger is ahead of the rows (after `Buy` by the fill
  and its fee, after `Sell` by the proceeds), so that every step changes ledger
  and sum by the same amount; `OneKeyMoves` and `NothingMoves` are that
  argument, once for all actions. The second needs `PlaceInv`, the status
  of the row in hand even after failures, and counts what abandoned handlers
  left behind: an interruption adds one at most.

`EngineLoop_proofs`
: `TypeCorrect`. `KillSwitchHolds` (`HaltedOpensNothing`): an engine past the
  gates of an opening is not halted, because only the engine throws the
  switch. `LimitIsKept` (`BookWithinLimit`): an opening under way has room;
  the runs ask this of the scan itself (`EntryWithinCounts`).
  `FailingDeskIsHalted` (`StreakHalts`): the streak is at the limit only while
  halted, or in a tick that will fail or succeed. `NothingIsDoneTwice`
  (`AppliedAtMostOnce`): what took effect is no longer QUEUED.
  `NothingWaitsPastATick` (`CommandsComeFirst`): past the commands nothing
  that was posted before the tick is queued.
: For the queue, `QueueSteps` sorts every step of the loop into five by what it
  does to it (sends, claims, runs, answers, leaves alone); the rest argues
  about the five. `LastWordIsKept` (`LastWordStands`): what is QUEUED is the end
  of the list and the command in hand stands just before it, so commands take
  effect in the order they were sent; and the failures counted never outnumber
  the exceptions, so the switch throws itself only after `MaxFailures` of them.
  `OnlyFailureForgets` (`ForgottenOnlyByFailure`): needs `EmptyHands`, outside
  the work on a command there is none in hand, so a claim drops nothing, and
  an exception or a death drops one. `ForcedPassComesFirst`
  (`ForcedPassIsMade`).

`ExitPolicy_proofs`
: `TypeCorrect`. `StopsOnlyRise` (`OnlyRatchets`). `GainsAreLocked`
  (`PeakIsLocked`): between the two commits of a pass the stop of the position
  in hand is already raised. `HeldIsAboveTheFloor` (`HeldAboveTheFloor`): the
  effective stop is never below the recorded one, and with `GainsAreLocked`
  the recorded one is not below a lock-in price once reached.

`Clock_proofs`
: `TypeCorrect` and `KeysOnlyAdvance` (`ShiftsNeverComeBack`) hold whatever
  days the calendar closes: the lemma `KeyOf` takes the router apart into the
  one question the key depends on, whether an instant belongs to an equity
  shift; `WithinADay` says that such a shift neither begins after nine o'clock
  nor ends before; midnight then joins the two halves of a night.
: `CalendarIsTheExchanges` (`CalendarAgrees`), for any range of years within
  `Covered`, 1900 to 2199. The rules of the program compute dates, the
  reference asks of a day whether it is a feast, so the proof first shows that a
  day has one year and one month (`DaysBefore`, the offsets of the months),
  then rule by rule: the n-th and last weekdays; Easter, which the computus of
  the program puts on a Sunday in every year (`EasterIsASunday`), and from 1900
  to 2199, where the correction of the centuries is the same, on the one after
  the paschal full moon (`EasterAgrees`), so these are the years covered; fixed feasts with their observance
  (the Saturday of New Year is not made up); early closes.
: `OneStory` (`ViewsAgree`) and `HandoffIsRight` (`HandoffIsTheNextChange`)
  need that `next_trading_day`, which the code searches for, exists. Tuesdays and
  Wednesdays are closed only for feasts with a fixed date on that very day
  (`MidweekClosure`), and such feasts are seven days apart at least
  (`FeastsApart`), so of the next Tuesday and the next Wednesday one is open
  (`NoLongClosure`). `NaturalHandsOver` is the announcement of the next
  bell, over nights, weekends, feasts and early closes.

`MarketFeed_proofs`
: `FeedTypeCorrect` (`TypeOK`) and `VenueNeverOverrun` (`VenueWindow`), for any
  providers, limits and periods with a call budget shorter than the window. The
  invariant is `TypeOK`, `TaskInv` and `SlotInv`. `TaskInv`: a thread has one
  task at a time, the one it waits for, so an Alpaca request in the pool is the
  engine's current one. `SlotInv`: the requests the venue received are a run
  at the end of the reserved slots, each slot at most one budget older than its
  request; then no more requests than slots fit the window. Every
  action is first shown to leave queue and threads in one of few shapes
  (`EngineGoesOn`, `NewsGoesOn`), and the two halves are put together after.

`Scanner_proofs`
: `CountsAreKept` (`EntryWithinCounts`): `NoGateRefuses` takes the list of
  gates apart; `BookInv`, that the book is finite and forgets no key of an open
  position, makes "a position that was not there" mean one the step
  opened; `OpenStep` adds that one to every count the gates have read.
: `DeskTypeCorrect` (`TypeOK`), `BoundHolds` (`BoundIsExact`): a score is a score
  whatever the tape, for the four pillars of the three desks; a total is
  monotone in a pillar whose weight is not negative, which is all that the
  shortcut of the option chain rests on.
: `BestComeFirst` (`BestFirst`) and `EverySymbolHasItsRow`
  (`EverySymbolAccounted`): `ScanInv`, where the symbols of a scan are between
  todo and rows, and that what was opened stands before what is still ranked,
  which stands before what the full book refused. The last of the two assumes
  `NoRepeats`, that no universe lists a symbol twice: `Settings.validate` does
  not exclude it, and with a repeated symbol "one row for each" is not
  what the table means.
: `MoneyIsKept` (`EntryWithinMoney`): the sums over the book change by the
  position opened, and the sizing (`SizeFits`) fits the least of the budgets
  the gates left; cash, crypto exposure and slot may be passed by the slippage
  and the fees of the entry itself, and the limit of the day is asked for only
  where one is set. Amounts are whole numbers by `MoneyIsWhole`.

**Assumptions.** `BookingAssumption`: keys, prices, fees and capitals are what
they stand for. `FeedAssumption` (MarketFeed): positive limits; a call budget
shorter than the window (20 s and 60 s in the code), a refresh interval shorter
than the time a bias lives. `SettingsAssumption` is `Settings.validate`;
`ScoringAssumption`, `LimitsAssumption` and `ScannerAssumption` say that settings are
numbers, not which; `FeedAssumption` (Scanner) that prices, volumes and the
readings of a tape are, so a tape that makes an indicator divide by nothing is
outside the theorems as it is outside the runs.
`YearsAssumption`: the years are covered.

**Strengthened in the course of the proofs.** The candidates of a scan are a
set from which the best is taken again and again, rather than a list sorted
once by an operator nobody could reason about: the pass changes no total, so
the orders are the same. Sums are `SumFunction`s, and the ranges of scores have
a name (`Hundredths`), because the provers choke on large numerals.

**Only model-checked**: the liveness properties (`HandlersEnd`,
`StopsAreHonoured`, `CommandsAnswered`, `StopIsHonoured`, `CallsEnd`,
`AskedAgain`, `TiltFades`), which the prover does not handle under fairness;
the four violated claims, each a counterexample; and how closely the models
fit the code, which the runs make visible and no proof can show.

## 6. Not modelled

Floating-point rounding (amounts are integers); wins, losses, peak equity and
the equity curve; audit rows, except where their foreign key voids a
transaction; the commands a reset deletes; the text of
results. Parsing of payloads and of a model's answer, URLs, caches and pacing
of the providers; indicators that only the dashboard and the backtests draw;
commentary, notifications, the backtests and research scripts (offline, single-threaded); the
keepalive ping. The supervisor's own loop and its signal handling, and the
lock file of the engine: `EngineLoop` restarts a dead engine, `Booking` shows
what two engines would do. In `scan_pass` the gates TRADING_DISABLED,
INSUFFICIENT_CASH, SIZE_TOO_LARGE and SIZE_ZERO are modelled but not reached: its settings
are near the defaults, with which the others refuse first. SQLite is external: a transaction is taken to be atomic and durable,
and a statement outside a transaction to be one.

## 7. What could come next

1. Theorems that say where the hypotheses are needed: `BooksAgree` and
   `ClosedIsFinal` with the dashboard's rebase, in a form that allows for it; what two engines
   keep of the account beyond `BookedAtLeastOnce`.
2. Proofs about the steps in between: that `Signals` is monotone in what it
   reads, that the ladder of stops is reached in order, that the breaker opens
   at its threshold and not before.
3. `Supervisor`: restart, shutdown and kill, and the child that is started
   during a shutdown (run.py:81).
4. A configuration with several workers and the commentary of the engine, to
   see the pool shared by more than two callers.
