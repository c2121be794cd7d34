------------------------------ MODULE Scanner ------------------------------
(***************************************************************************)
(* One scan after the other: run_scan of src/app/engine/scanner.py over    *)
(* the assessments of Desks and the gates of RiskGates, with the rows it   *)
(* leaves in scans and scan_results, and what happens to the book, the     *)
(* kill switch and the calendar around it.                                 *)
(*                                                                         *)
(* Scans, the management of positions and the commands all run on the      *)
(* engine's thread, so nothing but the clock moves while a scan runs.  The *)
(* engine may stop, or the second pass raise, at any step.                 *)
(*                                                                         *)
(* Bounds: MaxScans scans, MaxDays days, and MaxMoves steps of the         *)
(* management and the commands between scans.                              *)
(***************************************************************************)
EXTENDS RiskGates

CONSTANTS Views,      \* what the feed may give of a symbol
          Contexts,   \* what build_context may return
          Marks,      \* the marks of a position, in percent of its cost
          Weights,    \* the rows scoring_weights may hold
          MaxScans, MaxDays, MaxMoves

\* Prices, volumes and what is read of a tape are whole numbers, in their
\* units: in particular no tape makes an indicator divide by nothing.
ASSUME FeedAssumption ==
    /\ \A v \in Views :
         /\ \A q \in v.quote : {q.price, q.change, q.spread} \subseteq Int
         /\ \A q \in UNION v.chain :
              {q.mid, q.spread, q.volume, q.open_interest} \subseteq Int
         /\ v.bars \in Seq(Bar)
         /\ Enough(v.bars, 1) => Readings(v.bars) \subseteq Int
    /\ \A c \in Contexts : c.news_bias \in Int /\ c.benchmark \subseteq Int

ASSUME ScannerAssumption ==
    /\ \A m \in Markets : universe(m) \in Seq(Range(universe(m)))
    /\ Weights \subseteq [liquidity : Int, technical : Int, sentiment : Int]
    /\ Marks \subseteq Nat
    /\ MaxScans \in Nat /\ MaxDays \in Nat \ {0} /\ MaxMoves \in Nat

VARIABLES
    at,       \* idle, context, assess, open, record or done
    scan,     \* the scan under way: its scans row, results and working state
    book,     \* what risk.py reads of the database
    weights,  \* the stored scoring weights
    dry_run,  \* DRY_RUN, as the process was started
    day,      \* the calendar day
    scans,    \* scans started so far
    moves     \* steps of Mark, Close and Halt so far

vars == <<at, scan, book, weights, dry_run, day, scans, moves>>

NoScan == [status |-> "none", rows |-> {}]

Init ==
    /\ at = "idle"
    /\ scan = NoScan
    /\ book = [open |-> {}, keys |-> {}, cooling |-> {}, today |-> 0,
               realized |-> 0, cash |-> settings.starting_capital, halted |-> FALSE]
    /\ weights \in Weights
    /\ dry_run \in BOOLEAN
    /\ day = 1
    /\ scans = 0
    /\ moves = 0

-----------------------------------------------------------------------------
(* run_scan. *)

\* A scan falls due or is asked for by SCAN_NOW, which does not look at the
\* kill switch.
Begin(market) ==
    /\ at = "idle" /\ scans < MaxScans
    /\ scan' = [status |-> "RUNNING", market |-> market, session |-> day,
                context |-> NoContext, todo |-> universe(market), assessed |-> <<>>,
                ranked |-> {}, ok |-> 0, failed |-> 0,
                opened |-> <<>>, rows |-> {}]
    /\ at' = "context"
    /\ scans' = scans + 1
    /\ UNCHANGED <<book, weights, dry_run, day, moves>>

\* The shared context; when it cannot be built the scan goes on without.
BuildContext ==
    /\ at = "context"
    /\ \E ctx \in Contexts \cup {NoContext} : scan' = [scan EXCEPT !.context = ctx]
    /\ at' = "assess"
    /\ UNCHANGED <<book, weights, dry_run, day, scans, moves>>

Row(a) == [symbol |-> a.symbol, verdict |-> a.verdict, blocked_by |-> a.blocked_by]

\* Pass 1: a symbol that cannot be assessed is recorded at once.
Assess ==
    /\ at = "assess" /\ scan.todo # <<>>
    /\ \E v \in Views :
         LET symbol == Head(scan.todo)
             outcomes == assess(scan.market, symbol, v, scan.context,
                                load_weights(weights))
         IN  \/ /\ outcomes = {}
                /\ scan' = [scan EXCEPT !.todo = Tail(@), !.failed = @ + 1,
                                        !.rows = @ \cup {Row(Unpriceable(symbol))}]
             \/ \E a \in outcomes :
                  scan' = [scan EXCEPT !.todo = Tail(@), !.ok = @ + 1,
                                       !.assessed = Append(@, a)]
    /\ UNCHANGED <<at, book, weights, dry_run, day, scans, moves>>

\* The EXECUTE candidates; as indices into assessed.
Candidates(assessed) == {i \in DOMAIN assessed : assessed[i].verdict = "EXECUTE"}

\* The context has served.
Rank ==
    /\ at = "assess" /\ scan.todo = <<>>
    /\ scan' = [scan EXCEPT !.ranked = Candidates(scan.assessed), !.context = NoContext]
    /\ at' = "open"
    /\ UNCHANGED <<book, weights, dry_run, day, scans, moves>>

\* Slippage and fees of a buy, in cents (broker/paper.py).
slippage(market, notional) ==
    CASE market = "EQUITY_OPTION" -> bp(notional, 100)
      [] market = "EQUITY_SHARE"  -> bp(notional, 5)
      [] market = "CRYPTO_SPOT"   -> bp(notional, 8)

_fees_for(e, gross) ==
    CASE e.market = "EQUITY_OPTION" -> 65 * (gross \div unit_cost(e))
      [] e.market = "EQUITY_SHARE"  -> 0
      [] e.market = "CRYPTO_SPOT"   -> bp(gross, 60)

\* In the order of the universe, first past the post (mutant).
FirstPast(i, j) == i <= j

\* The order of the candidates: best first, ties in the order of the universe.
\* The pass changes no total, so that taking the best one left again and again
\* goes through the list as it was sorted once, before the pass.
Precedes(i, j) ==
    \/ scan.assessed[i].total > scan.assessed[j].total
    \/ scan.assessed[i].total = scan.assessed[j].total /\ i <= j

Best == CHOOSE i \in scan.ranked : \A j \in scan.ranked : Precedes(i, j)
Candidate == scan.assessed[Best]
Left == scan.ranked \ {Best}

Entry(a) ==
    [market |-> scan.market, underlying |-> a.symbol, price |-> a.price,
     key |-> <<scan.market, a.symbol, a.direction, scan.session>>]

\* What the stop of the exit plan would lose of the notional: the adapter's
\* plan if there is one, the market's percentage otherwise.
LossAtStop(a, notional) ==
    IF a.scalp > 0 THEN (notional * a.scalp) \div a.price
    ELSE bp(notional, settings.stop_pct[scan.market])

\* As Settle, but for the loop working on a copy of the assessment (mutant).
SettleCopy(a) == scan' = [scan EXCEPT !.ranked = Left]

Settle(a) ==
    scan' = [scan EXCEPT !.assessed[Best] = a, !.ranked = Left]

\* Pass 2 on the best candidate left: the limit is read again, in case a
\* better one has filled the book, before the gates and the sizing.
BookFull == Cardinality(book.open) >= settings.max_open_positions
Decision == check(book, Entry(Candidate))
Quantity == size_position(Entry(Candidate), Decision.max_notional)
\* The gates are asked until a position is opened, and no more (mutant).
AllowedOnce ==
    ~BookFull /\ (scan.opened # <<>> \/ Decision.allowed) /\ Quantity > 0
Allowed == ~BookFull /\ Decision.allowed /\ Quantity > 0

Refuse ==
    /\ at = "open" /\ scan.ranked # {}
    /\ ~Allowed
    /\ Settle([Candidate EXCEPT
                  !.verdict = "BLOCKED",
                  !.blocked_by = IF BookFull THEN "MAX_OPEN"
                                 ELSE IF ~Decision.allowed THEN Decision.gate
                                 ELSE "SIZE_ZERO"])
    /\ UNCHANGED <<at, book, weights, dry_run, day, scans, moves>>

DryRun ==
    /\ at = "open" /\ scan.ranked # {}
    /\ Allowed /\ dry_run
    /\ Settle(Candidate)
    /\ UNCHANGED <<at, book, weights, dry_run, day, scans, moves>>

\* The fill and the position; the ledger pays slippage and fees on top.
Open ==
    /\ at = "open" /\ scan.ranked # {}
    /\ Allowed /\ ~dry_run
    /\ LET a == Candidate
           e == Entry(a)
           notional == Quantity
           gross == notional + slippage(e.market, notional)
       IN  /\ book' = [book EXCEPT
                !.open = @ \cup {[key |-> e.key, market |-> e.market,
                                  underlying |-> a.symbol, cost |-> gross,
                                  value |-> gross,
                                  at_stop |-> LossAtStop(a, notional)]},
                !.keys = @ \cup {e.key},
                !.today = @ + 1,
                !.cash = @ - gross - _fees_for(e, gross)]
           /\ scan' = [scan EXCEPT !.ranked = Left, !.opened = Append(@, Best)]
    /\ UNCHANGED <<at, weights, dry_run, day, scans, moves>>

\* Every assessment is recorded with its final verdict, then the scan closed.
Record ==
    /\ at = "open" /\ scan.ranked = {}
    /\ scan' = [scan EXCEPT
            !.rows = @ \cup {Row(scan.assessed[i]) : i \in DOMAIN scan.assessed},
            !.status = IF scan.failed = 0 THEN "OK"
                       ELSE IF scan.ok > 0 THEN "PARTIAL" ELSE "ABORTED"]
    /\ at' = "done"
    /\ UNCHANGED <<book, weights, dry_run, day, scans, moves>>

\* run_scan returns and the engine drops its outcome.
Return ==
    /\ at = "done"
    /\ at' = "idle" /\ scan' = NoScan
    /\ UNCHANGED <<book, weights, dry_run, day, scans, moves>>

\* The process dies or the second pass raises: the scans row stays RUNNING.
Stop ==
    /\ at \notin {"idle", "done"}
    /\ at' = "idle" /\ scan' = NoScan
    /\ UNCHANGED <<book, weights, dry_run, day, scans, moves>>

-----------------------------------------------------------------------------
(* Around the scans. *)

\* The engine's thread is at the management or at the commands.
Managing ==
    /\ at = "idle" /\ moves < MaxMoves
    /\ moves' = moves + 1

\* manage_all marks a position.
Mark(p, m) ==
    /\ Managing
    /\ book' = [book EXCEPT !.open = (@ \ {p}) \cup
                    {[p EXCEPT !.value = (p.cost * m) \div 100]}]
    /\ UNCHANGED <<at, scan, weights, dry_run, day, scans>>

\* It closes one at its mark; the cooldown of the underlying begins.
Close(p) ==
    /\ Managing
    /\ book' = [book EXCEPT !.open = @ \ {p},
                            !.cooling = @ \cup {p.underlying},
                            !.realized = @ + p.value - p.cost,
                            !.cash = @ + p.value]
    /\ UNCHANGED <<at, scan, weights, dry_run, day, scans>>

\* What the clock does during the first pass is seen by the second.
ClockSeen == at \in {"idle", "open"}

CooldownEnds(underlying) ==
    /\ ClockSeen
    /\ underlying \in book.cooling
    /\ book' = [book EXCEPT !.cooling = @ \ {underlying}]
    /\ UNCHANGED <<at, scan, weights, dry_run, day, scans, moves>>

\* HALT and RESUME.
Halt ==
    /\ Managing
    /\ book' = [book EXCEPT !.halted = ~@]
    /\ UNCHANGED <<at, scan, weights, dry_run, day, scans>>

\* Midnight in New York: the daily gates start afresh; a scan under way keeps
\* the session it began in.
Midnight ==
    /\ ClockSeen
    /\ day < MaxDays
    /\ day' = day + 1
    /\ book' = [book EXCEPT !.today = 0, !.realized = 0]
    /\ UNCHANGED <<at, scan, weights, dry_run, scans, moves>>

Next ==
    \/ \E market \in Markets : Begin(market)
    \/ BuildContext \/ Assess \/ Rank
    \/ Refuse \/ DryRun \/ Open
    \/ Record \/ Return \/ Stop
    \/ \E p \in book.open : Close(p) \/ \E m \in Marks : Mark(p, m)
    \/ \E u \in book.cooling : CooldownEnds(u)
    \/ Halt \/ Midnight

Spec == Init /\ [][Next]_vars

-----------------------------------------------------------------------------
(* Properties. *)

\* A total, in hundredths of a point.
Hundredths == 0..10000

NonNegative(w) == w.liquidity >= 0 /\ w.technical >= 0 /\ w.sentiment >= 0

Results == {scan.assessed[i] : i \in DOMAIN scan.assessed}

\* Types; with weights that are not negative a total is a score from 0 to 100.
TypeOK ==
    /\ at \in {"idle", "context", "assess", "open", "done"}
    /\ at = "idle" <=> scan = NoScan
    /\ at # "idle" =>
         /\ scan.market \in Markets
         /\ scan.status \in {"RUNNING", "OK", "PARTIAL", "ABORTED"}
         /\ \A a \in Results :
              /\ a.verdict \in {"EXECUTE", "PASS", "BLOCKED", "ERROR"}
              /\ NonNegative(weights) => a.total \in Hundredths
    /\ \A p \in book.open : p.key \in book.keys /\ p.cost > 0 /\ p.at_stop >= 0
    /\ dry_run \in BOOLEAN
    /\ scans \in 0..MaxScans /\ day \in 1..MaxDays /\ moves \in 0..MaxMoves

\* A scan that is closed accounts for its whole universe: one row for each
\* symbol, counted in symbols_ok or symbols_failed; a row says EXECUTE exactly
\* for the symbols of which a position was opened, except in a dry run, which
\* opens none; and any other candidate names the gate that stopped it.
EverySymbolAccounted ==
    at = "done" =>
        LET opened == {scan.assessed[i].symbol : i \in Range(scan.opened)}
        IN  /\ {r.symbol : r \in scan.rows} = Range(universe(scan.market))
            /\ Cardinality(scan.rows) = Len(universe(scan.market))
            /\ scan.ok + scan.failed = Cardinality(scan.rows)
            /\ \A r \in scan.rows :
                 /\ r.verdict = "BLOCKED" <=> r.blocked_by # ""
                 /\ ~dry_run => (r.verdict = "EXECUTE" <=> r.symbol \in opened)
                 /\ dry_run => opened = {}

\* Best of N: the positions of a scan are opened in descending order of score,
\* and a candidate refused because the book is full scores no more than any
\* that was opened before the book was.
BestFirst ==
    at = "done" =>
        LET score(i) == scan.assessed[i].total
        IN  /\ \A i, j \in DOMAIN scan.opened :
                 i < j => score(scan.opened[i]) >= score(scan.opened[j])
            /\ \A i \in Range(scan.opened), a \in Results :
                 a.blocked_by = "MAX_OPEN" => a.total <= score(i)

\* What the steps of a scan do to the book together: however many candidates,
\* earlier scans, closes and midnights lie before, a position is opened only
\* by a desk that is not halted, into a book with room for it, in all and for
\* its underlying, which is not cooling, and on a day with entries left.
EntryWithinCounts ==
    [][\A p \in book'.open :
         (p.key \notin book.keys) =>
            /\ ~book.halted
            /\ p.underlying \notin book.cooling
            /\ Cardinality(book'.open) <= settings.max_open_positions
            /\ open_count_for(book', p.underlying)
                  <= settings.max_positions_per_underlying
            /\ book'.today <= settings.max_new_positions_per_day
      ]_vars

\* And only with money that is there: after no day's loss past the limit, if
\* there is one, out of the cash, within the ceiling on crypto and, for
\* shares, within a slot of the equity.  The slippage and the fees of the
\* entry, which the broker adds after the sizing, are all that can pass the
\* limits.
EntryWithinMoney ==
    [][\A p \in book'.open :
         (p.key \notin book.keys) =>
            LET extra == slippage(p.market, p.cost) + _fees_for(Entry(Candidate), p.cost)
            IN  /\ settings.daily_loss_limit_pct > 0 =>
                      day_pnl(book) > -bp(settings.starting_capital,
                                          settings.daily_loss_limit_pct)
                /\ book'.cash >= -extra
                /\ p.market = "CRYPTO_SPOT" =>
                      crypto_open_notional(book') <= settings.crypto_max_exposure + extra
                /\ p.market = "EQUITY_SHARE" =>
                      settings.max_open_positions * (p.cost - extra)
                        <= account_equity(book)
      ]_vars

\* The chain that is not fetched: whatever it holds, no contract in it would
\* have made the symbol a candidate (as long as no weight is negative).
BoundIsExact ==
    at = "assess" /\ scan.market = "EQUITY_OPTION" /\ NonNegative(weights) =>
        \A v \in {w \in Views : w.quote # {} /\ Enough(w.bars, periods.history)} :
            LET w == load_weights(weights)
                p == OptionPillars(v, scan.context)
            IN  ~_chain_worth_fetching(p.technical, p.sentiment, w) =>
                    \A q \in UNION v.chain :
                        ~meets_threshold(OptionCard(score_option_liquidity(q), p, w),
                                         settings.execute_threshold)

\* risk.py:178: "Shares and crypto: RISK_PCT is dollars to the stop".
RiskIsDollarsToTheStop ==
    [][\A p \in book'.open :
         (p.key \notin book.keys /\ p.market # "EQUITY_OPTION") =>
            p.at_stop <= bp(account_equity(book), settings.risk_pct_per_trade)]_vars
=============================================================================
