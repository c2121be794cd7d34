------------------------------- MODULE Signals -------------------------------
(***************************************************************************)
(* The numbers a scan decides by: src/app/engine/indicators.py, regime.py, *)
(* scalping.py and scoring.py, as operators on a tape of bars.             *)
(*                                                                         *)
(* Arithmetic is fixed point: prices and volumes are integers, a fraction  *)
(* is in basis points (bp) or percent, a score in points from 0 to 100, a  *)
(* total in hundredths of a point, and a division rounds down.  The window *)
(* lengths, which the code passes as arguments, are fields of `periods`.   *)
(***************************************************************************)
EXTENDS Integers, Sequences, FiniteSetsExt, SequencesExt

CONSTANTS settings, \* the configuration, one field per setting
          periods   \* the window lengths of the indicators

Bar == [high : Nat, low : Nat, close : Nat, volume : Nat]

-----------------------------------------------------------------------------
(* Indicators.  Each is used only where the tape is long enough; Enough is *)
(* the test whose failure makes the code return None.                      *)

Enough(s, n) == Len(s) >= n
LastN(s, n) == SubSeq(s, Len(s) - n + 1, Len(s))
SumOf(s) == FoldLeft(LAMBDA x, y : x + y, 0, s)
MeanOf(s) == SumOf(s) \div Len(s)
Abs(x) == IF x < 0 THEN -x ELSE x
Field(bars, f) == [i \in DOMAIN bars |-> bars[i][f]]

sma(v, n) == MeanOf(LastN(v, n))

\* The moving average at each index from n on.
ema_series(v, n) ==
    LET e[i \in n..Len(v)] ==
            IF i = n THEN MeanOf(SubSeq(v, 1, n))
            ELSE (2 * v[i] + (n - 1) * e[i - 1]) \div (n + 1)
    IN  e

ema(v, n) == ema_series(v, n)[Len(v)]

true_range(bars) ==
    [i \in 1..(Len(bars) - 1) |->
        Max({bars[i + 1].high - bars[i + 1].low,
             Abs(bars[i + 1].high - bars[i].close),
             Abs(bars[i + 1].low - bars[i].close)})]

atr(bars, n) == MeanOf(LastN(true_range(bars), n))

\* In basis points.
atr_pct(bars, n) == (10000 * atr(bars, n)) \div Last(bars).close

RsiOf(gain, loss) ==
    CASE loss > 0 -> (100 * gain) \div (gain + loss)
      [] loss <= 0 /\ gain > 0 -> 100
      [] OTHER -> 50

\* How far each of the last n steps went, up or down.
Moves(v, n, sign) ==
    SumOf([i \in 1..n |-> Max({sign * (v[Len(v) - n + i] - v[Len(v) - n + i - 1]), 0})])

rsi(v, n) == RsiOf(Moves(v, n, 1), Moves(v, n, -1))

\* In basis points.
momentum_pct(v, n) == (10000 * (Last(v) - v[Len(v) - n])) \div v[Len(v) - n]

\* The value when the condition holds, nothing otherwise.
Optional(condition, value) == IF condition THEN {value} ELSE {}

RatioOf(last, before, n) == Optional(before > 0, (100 * n * last) \div before)

\* In percent of the average volume of the n bars before the last; nothing on
\* a short tape or one without volume.
volume_ratio(bars, n) ==
    IF Enough(bars, n + 1)
    THEN RatioOf(Last(bars).volume,
                 SumOf(SubSeq(Field(bars, "volume"), Len(bars) - n, Len(bars) - 1)), n)
    ELSE {}

PositionOf(close, lo, hi) == Optional(hi > lo, (100 * (close - lo)) \div (hi - lo))

\* Where the last close sits in the range of the last n bars, in percent.
range_position(bars, n) ==
    IF Enough(bars, n)
    THEN PositionOf(Last(bars).close, Min(Range(Field(LastN(bars, n), "low"))),
                    Max(Range(Field(LastN(bars, n), "high"))))
    ELSE {}

\* From -100 to 100.
clamp(x, lo, hi) == IF x < lo THEN lo ELSE IF x > hi THEN hi ELSE x

TrendOf(fast, slow, last) ==
    IF slow = 0 THEN 0
    ELSE clamp((100 * (12 * (fast - slow) + 6 * (last - slow))) \div slow, -100, 100)

trend_score(closes) ==
    IF Enough(closes, periods.slow)
    THEN TrendOf(ema(closes, periods.fast), ema(closes, periods.slow), Last(closes))
    ELSE 0

Typical(b) == b.high + b.low + b.close

VwapOf(w, vol) ==
    IF vol > 0
    THEN SumOf([i \in DOMAIN w |-> Typical(w[i]) * w[i].volume]) \div (3 * vol)
    ELSE SumOf([i \in DOMAIN w |-> Typical(w[i])]) \div (3 * Len(w))

\* The volume-weighted average price of the last n bars, or the plain one
\* when nothing was traded.
vwap(bars, n) ==
    LET w == LastN(bars, Min({n, Len(bars)}))
    IN  VwapOf(w, SumOf(Field(w, "volume")))

-----------------------------------------------------------------------------
(* Regime, crosses and the scalp of regime.py, crossover.py, scalping.py. *)

RegimeOf(price, ma, base) ==
    CASE ma <= 0 \/ base <= 0 -> "unknown"
      [] ma > 0 /\ base > 0 /\ price > ma /\ price >= base -> "risk_on"
      [] OTHER -> "risk_off"

classify_spy_regime(closes) ==
    IF Enough(closes, Max({periods.regime, periods.slope + 1}))
    THEN RegimeOf(Last(closes), sma(closes, periods.regime),
                  closes[Len(closes) - periods.slope])
    ELSE "unknown"

blocks_direction(regime, direction) ==
    \/ regime = "risk_off" /\ direction \in {"LONG_CALL", "LONG_SHARE"}
    \/ regime = "risk_on" /\ direction = "LONG_PUT"

\* VWAP and momentum allow a scalp.
EntryGate(close, level, momentum) == level > 0 /\ close >= level /\ momentum >= 0

entry_gate(bars) ==
    /\ Enough(bars, Max({periods.vwap, periods.scalp + 1, periods.scalpMin}))
    /\ EntryGate(Last(bars).close, vwap(bars, periods.vwap),
                 momentum_pct(Field(bars, "close"), periods.scalp))

\* build_plan: the distance R from the entry down to the stop; 0 when no plan
\* can be built.
build_plan(price, bars) ==
    IF price > 0 /\ Enough(bars, periods.atr + 1)
    THEN (atr(bars, periods.atr) * settings.scalp_atr_mult) \div 100
    ELSE 0

-----------------------------------------------------------------------------
(* The pillars of scoring.py. *)

grade(v, best, worst) ==
    CASE best = worst -> 50
      [] best > worst -> clamp((100 * (v - worst)) \div (best - worst), 0, 100)
      [] OTHER -> clamp((100 * (worst - v)) \div (worst - best), 0, 100)

\* A contract: its spread in bp, the volume and the open interest.
depth(q) == IF q.open_interest > 0 THEN q.open_interest ELSE q.volume

score_option_liquidity(q) ==
    (60 * grade(q.spread, 100, settings.max_spread_pct)
        + 25 * grade(q.volume, 2000, 0)
        + 15 * grade(depth(q), 5000, settings.min_open_interest)) \div 100

\* The middle of a sequence of volumes.
MedianOf(s) ==
    LET t == SortSeq(s, <)
        n == Len(t)
    IN  IF n % 2 = 1 THEN t[(n + 1) \div 2] ELSE (t[n \div 2] + t[n \div 2 + 1]) \div 2

TurnoverRatio(vols) == (100 * Last(vols)) \div MedianOf(Front(vols))

TurnoverGrade(vols) ==
    IF Len(vols) >= periods.turnover
    THEN grade(Min({TurnoverRatio(vols), 300}), 150, 40)
    ELSE 50

\* The turnover of the last bar against the median of those before it, or 50
\* points on a short tape.
Traded(bars) ==
    SelectSeq(Field(LastN(bars, Min({periods.volume, Len(bars)})), "volume"),
              LAMBDA v : v > 0)

TurnoverOf(bars) == TurnoverGrade(Traded(bars))

\* The grade of an optional value; 50 points when there is none.
GradeOf(S, g(_)) == IF S = {} THEN 50 ELSE CHOOSE x \in {g(y) : y \in S} : TRUE

VolumeGrade(vr) == IF vr <= 250 THEN grade(vr, 160, 30) ELSE 60

\* A ratio of 0, like none, counts as 100 percent.
RatioOrOne(S) == IF S \subseteq {0} THEN 100 ELSE CHOOSE x \in S : TRUE

ProxySpread(b) == clamp((5000 * (b.high - b.low)) \div b.close, 1, 2000)

\* spread is in tenths of a bp, 0 when no quote gives one: a twentieth of the
\* last bar's range stands in.
score_spot_liquidity(bars, spread) ==
    (50 * grade(IF spread > 0 THEN spread ELSE ProxySpread(Last(bars)), 20, 1000)
       + 30 * VolumeGrade(RatioOrOne(volume_ratio(bars, periods.volume)))
       + 20 * TurnoverOf(bars)) \div 100

\* A reading as a bull sees it, or mirrored.
Seen(x, top, bullish) == IF bullish THEN x ELSE top - x

\* Strength is rewarded around 60, exhaustion punished at both ends; some
\* volatility is required, too much is unpriceable.
RsiGrade(r) == clamp(100 - (22 * Abs(r - 60)) \div 10, 0, 100)
AtrGrade(ap) == clamp(100 - (22 * Abs(ap - 220)) \div 100, 0, 100)

score_technical(bars, bullish) ==
    LET closes == Field(bars, "close")
    IN  (40 * grade(Seen(trend_score(closes), 0, bullish), 60, -40)
           + 25 * GradeOf(Optional(Enough(closes, periods.rsi + 1), rsi(closes, periods.rsi)),
                          LAMBDA r : RsiGrade(Seen(r, 100, bullish)))
           + 20 * GradeOf(range_position(bars, periods.volume),
                          LAMBDA rp : grade(Seen(rp, 100, bullish), 80, 15))
           + 15 * GradeOf(Optional(Enough(bars, periods.atr + 1), atr_pct(bars, periods.atr)),
                          AtrGrade)) \div 100

\* The tape's base score; benchmark, momentum and volume are optional.
SentimentBase(sign, change, benchmark, momentum, volume) ==
    (40 * GradeOf(benchmark, LAMBDA x : grade(sign * (change - x), 150, -150))
       + 35 * GradeOf(momentum, LAMBDA x : grade(sign * x, 800, -600))
       + 25 * GradeOf(volume, LAMBDA x : grade(Min({x, 300}), 180, 40))) \div 100

\* The news moves the score by a share of its headroom; bias and the weight
\* of the news are in percent.
Tilted(base, bias) ==
    clamp(base + ((IF bias > 0 THEN 100 - base ELSE base)
                     * settings.news_bias_weight * bias) \div 10000, 0, 100)

score_sentiment(change, benchmark, momentum, volume, bullish, news_bias) ==
    Tilted(SentimentBase(IF bullish THEN 1 ELSE -1, change, benchmark, momentum, volume),
           clamp(news_bias, -100, 100))

\* What the pillars read of a tape, as far as it is long enough.
Readings(bars) ==
    LET closes == Field(bars, "close")
        vols == Traded(bars)
    IN  {trend_score(closes), ProxySpread(Last(bars))}
          \cup range_position(bars, periods.volume)
          \cup volume_ratio(bars, periods.volume)
          \cup Optional(Enough(closes, periods.rsi + 1), rsi(closes, periods.rsi))
          \cup Optional(Enough(bars, periods.atr + 1), atr(bars, periods.atr))
          \cup Optional(Enough(bars, periods.atr + 1), atr_pct(bars, periods.atr))
          \cup Optional(Len(vols) >= periods.turnover, TurnoverRatio(vols))
          \cup (UNION {Optional(Enough(bars, n + 1), momentum_pct(closes, n)) :
                       n \in {periods.momentum, periods.cryptoMomentum}})

-----------------------------------------------------------------------------
(* Composition. *)

DEFAULT_WEIGHTS == [liquidity |-> 30, technical |-> 40, sentiment |-> 30]

SumsTo100(w) == w.liquidity + w.technical + w.sentiment = 100

\* What load_weights makes of the stored weights.
load_weights(stored) == IF SumsTo100(stored) THEN stored ELSE DEFAULT_WEIGHTS

total(card) ==
    card.liquidity * card.weights.liquidity
        + card.technical * card.weights.technical
        + card.sentiment * card.weights.sentiment

compose(liquidity, technical, sentiment, weights) ==
    [liquidity |-> liquidity, technical |-> technical, sentiment |-> sentiment,
     weights |-> weights]

meets_threshold(card, threshold) == total(card) >= 100 * threshold
=============================================================================
