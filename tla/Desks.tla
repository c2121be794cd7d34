------------------------------- MODULE Desks -------------------------------
(***************************************************************************)
(* The three desks of src/app/markets/adapters.py: what assess() makes of  *)
(* one symbol.                                                             *)
(*                                                                         *)
(* A view is what the feed gives of a symbol, in the shared context or     *)
(* when assess() asks again: an optional quote, the tape of bars (empty    *)
(* when there is none) and an optional chain of contracts.  An optional    *)
(* value is the empty set or the set of the value.  A context holds what   *)
(* the symbols share: the news bias, the benchmark's change and the closes *)
(* of SPY; when it could not be built the three are neutral and absent.    *)
(***************************************************************************)
EXTENDS Signals

\* What Settings.validate insists on before the engine starts.
validate ==
    /\ settings.starting_capital > 0
    /\ 0 <= settings.crypto_max_exposure
    /\ settings.crypto_max_exposure <= settings.starting_capital
    /\ 0 < settings.max_single_trade_pct /\ settings.max_single_trade_pct <= 10000
    /\ 0 < settings.risk_pct_per_trade /\ settings.risk_pct_per_trade <= 2500
    /\ \A thr \in {settings.execute_threshold, settings.execute_threshold_crypto} :
            0 < thr /\ thr <= 100
    /\ 0 <= settings.target_moneyness /\ settings.target_moneyness <= 25
    /\ settings.max_open_positions >= 1
    /\ \A m \in DOMAIN settings.stop_pct :
            0 < settings.stop_pct[m] /\ settings.stop_pct[m] < 10000
    /\ settings.min_trade_notional > 0
    /\ 0 <= settings.daily_loss_limit_pct /\ settings.daily_loss_limit_pct < 10000
    /\ \A m \in DOMAIN settings.universe : settings.universe[m] # <<>>
    /\ 0 <= settings.news_bias_weight /\ settings.news_bias_weight <= 50
    /\ settings.scalp_atr_mult > 0

ASSUME SettingsAssumption == validate

\* The settings the scores read are whole numbers, in their units, and every
\* desk insists on some history.
ASSUME ScoringAssumption ==
    /\ {settings.execute_threshold, settings.execute_threshold_crypto,
        settings.max_spread_pct, settings.min_open_interest,
        settings.news_bias_weight, settings.scalp_atr_mult} \subseteq Int
    /\ {periods.history, periods.cryptoHistory} \subseteq Nat \ {0}

Markets == {"EQUITY_OPTION", "EQUITY_SHARE", "CRYPTO_SPOT"}

multiplier(market) == IF market = "EQUITY_OPTION" THEN 100 ELSE 1
whole_units(market) == market = "EQUITY_OPTION"
universe(market) == settings.universe[market]

NoContext == [news_bias |-> 0, benchmark |-> {}, spy |-> <<>>]

The(S) == CHOOSE x \in S : TRUE

-----------------------------------------------------------------------------
(* An assessment.  total is in hundredths of a point; price is the price   *)
(* an entry would pay; scalp is the distance to the stop of the exit plan  *)
(* the adapter supplies, 0 when it supplies none.                          *)

Assessed(symbol, score, verdict, price, direction) ==
    [symbol |-> symbol, total |-> score, verdict |-> verdict, blocked_by |-> "",
     price |-> price, direction |-> direction, scalp |-> 0]

Unpriceable(symbol) == Assessed(symbol, 0, "ERROR", 0, "none")

Verdict(card, threshold) == IF meets_threshold(card, threshold) THEN "EXECUTE" ELSE "PASS"

Closes(v) == Field(v.bars, "close")

Sentiment(v, ctx, benchmark, lookback, ratio, bullish) ==
    score_sentiment(The(v.quote).change, benchmark,
        Optional(Enough(v.bars, lookback + 1), momentum_pct(Closes(v), lookback)),
        ratio, bullish, ctx.news_bias)

-----------------------------------------------------------------------------
(* Equity options. *)

\* Award liquidity a typical 70, an estimate (mutant).
_chain_worth_guessing(technical, sentiment, weights) ==
    meets_threshold(compose(70, technical, sentiment, weights),
                    settings.execute_threshold)

\* Award liquidity a perfect 100: below the threshold even then, the chain is
\* not fetched.
_chain_worth_fetching(technical, sentiment, weights) ==
    meets_threshold(compose(100, technical, sentiment, weights),
                    settings.execute_threshold)

\* The eligible contracts whose strike is nearest to the target.
_pick_contract(chain, spot, bullish) ==
    LET m == settings.target_moneyness
        target == (spot * (100 + (IF bullish THEN m ELSE -m))) \div 100
        eligible == {q \in chain :
                        /\ q.right = (IF bullish THEN "C" ELSE "P")
                        /\ depth(q) >= settings.min_open_interest
                        /\ q.mid > 5
                        /\ q.spread <= settings.max_spread_pct}
    IN  {q \in eligible :
            \A r \in eligible : Abs(q.strike - target) <= Abs(r.strike - target)}

\* The name of the gate in the wrong field (mutant).
_apply_regime_gate_swapped(a, ctx) ==
    IF /\ settings.market_regime_filter
       /\ a.verdict = "EXECUTE"
       /\ blocks_direction(classify_spy_regime(ctx.spy), a.direction)
    THEN [a EXCEPT !.verdict = "MARKET_REGIME", !.blocked_by = "BLOCKED"]
    ELSE a

\* MARKET_REGIME refuses what would be executed against the tape of SPY.
_apply_regime_gate(a, ctx) ==
    IF /\ settings.market_regime_filter
       /\ a.verdict = "EXECUTE"
       /\ blocks_direction(classify_spy_regime(ctx.spy), a.direction)
    THEN [a EXCEPT !.verdict = "BLOCKED", !.blocked_by = "MARKET_REGIME"]
    ELSE a

PillarsOf(v, ctx, bullish) ==
    [bullish   |-> bullish,
     technical |-> score_technical(v.bars, bullish),
     sentiment |-> Sentiment(v, ctx, ctx.benchmark, periods.momentum,
                             volume_ratio(v.bars, periods.volume), bullish)]

OptionPillars(v, ctx) == PillarsOf(v, ctx, trend_score(Closes(v)) >= 0)

OptionCard(liquidity, p, weights) == compose(liquidity, p.technical, p.sentiment, weights)

\* A CALL or a PUT on the symbol, priced when a contract was picked.
OptionOn(symbol, card, verdict, price, p) ==
    Assessed(symbol, total(card), verdict, price,
             IF p.bullish THEN "LONG_CALL" ELSE "LONG_PUT")

Priced(symbol, card, q, p) ==
    OptionOn(symbol, card, Verdict(card, settings.execute_threshold), q.mid, p)

\* The possible assessments: none when the chain cannot be had (the call
\* raises), several when contracts tie.
OptionOutcomes(symbol, v, ctx, weights, p) ==
    LET pass == OptionOn(symbol, OptionCard(0, p, weights), "PASS", 0, p)
        picked == _pick_contract(The(v.chain), The(v.quote).price, p.bullish)
    IN  IF ~_chain_worth_fetching(p.technical, p.sentiment, weights) THEN {pass}
        ELSE IF v.chain = {} THEN {}
        ELSE IF picked = {} THEN {pass}
        ELSE {_apply_regime_gate(
                  Priced(symbol, OptionCard(score_option_liquidity(q), p, weights), q, p),
                  ctx) : q \in picked}

AssessOption(symbol, v, ctx, weights) ==
    OptionOutcomes(symbol, v, ctx, weights, OptionPillars(v, ctx))

-----------------------------------------------------------------------------
(* Equity shares: long only, no chain. *)

ShareOf(symbol, card, quote, bullish) ==
    IF bullish
    THEN Assessed(symbol, total(card), Verdict(card, settings.execute_threshold),
                  quote.price, "LONG_SHARE")
    ELSE Assessed(symbol, total(card), "PASS", 0, "none")

ShareCard(v, ctx, weights, bullish) ==
    compose(score_spot_liquidity(v.bars, The(v.quote).spread),
            score_technical(v.bars, bullish),
            Sentiment(v, ctx, ctx.benchmark, periods.momentum, {}, bullish), weights)

AssessShare(symbol, v, ctx, weights) ==
    LET bullish == trend_score(Closes(v)) >= 0
    IN  _apply_regime_gate(
            ShareOf(symbol, ShareCard(v, ctx, weights, bullish), The(v.quote), bullish), ctx)

-----------------------------------------------------------------------------
(* Crypto spot.  A scalp gate that fails leaves the entry to percentage    *)
(* exits.                                                                  *)

ScalpOf(symbol, verdict, v) ==
    IF /\ symbol = "BTC-USD" /\ settings.scalp_enabled
       /\ verdict = "EXECUTE"
       /\ entry_gate(v.bars)
    THEN build_plan(The(v.quote).price, v.bars)
    ELSE 0

SpotOf(symbol, card, verdict, v) ==
    [Assessed(symbol, total(card), verdict, The(v.quote).price, "LONG_SPOT")
        EXCEPT !.scalp = ScalpOf(symbol, verdict, v)]

\* Bitcoin is the benchmark of the others.
CryptoCard(symbol, v, ctx, weights) ==
    compose(score_spot_liquidity(v.bars, 0),
            score_technical(v.bars, TRUE),
            Sentiment(v, ctx, IF symbol = "BTC-USD" THEN {} ELSE ctx.benchmark,
                      periods.cryptoMomentum, {}, TRUE), weights)

AssessCrypto(symbol, v, ctx, weights) ==
    LET card == CryptoCard(symbol, v, ctx, weights)
    IN  SpotOf(symbol, card, Verdict(card, settings.execute_threshold_crypto), v)

-----------------------------------------------------------------------------
\* What assess() may return; the empty set when it raises: no quote to be had,
\* or no chain.
assess(market, symbol, v, ctx, weights) ==
    LET history == IF market = "CRYPTO_SPOT" THEN periods.cryptoHistory
                   ELSE periods.history
    IN  IF v.quote = {} THEN {}
        ELSE IF ~Enough(v.bars, history) THEN {Unpriceable(symbol)}
        ELSE CASE market = "EQUITY_OPTION" -> AssessOption(symbol, v, ctx, weights)
               [] market = "EQUITY_SHARE"  -> {AssessShare(symbol, v, ctx, weights)}
               [] market = "CRYPTO_SPOT"   -> {AssessCrypto(symbol, v, ctx, weights)}
=============================================================================
