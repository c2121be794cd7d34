----------------------------- MODULE MCScanner -----------------------------
EXTENDS Scanner

\* $1000 of capital.  The other settings are near their defaults; the limits
\* on positions are small, so that a few entries reach them.
MCSettings ==
    [trading_enabled |-> TRUE,
     starting_capital |-> 100000, crypto_max_exposure |-> 40000,
     max_single_trade_pct |-> 2500, risk_pct_per_trade |-> 100,
     execute_threshold |-> 60, execute_threshold_crypto |-> 60,
     target_moneyness |-> 0, market_regime_filter |-> TRUE,
     max_open_positions |-> 2, max_positions_per_underlying |-> 1,
     max_new_positions_per_day |-> 3, daily_loss_limit_pct |-> 500,
     stop_pct |-> [EQUITY_OPTION |-> 3500, EQUITY_SHARE |-> 250, CRYPTO_SPOT |-> 300],
     min_trade_notional |-> 2500,
     universe |-> [EQUITY_OPTION |-> <<"NVDA">>,
                   EQUITY_SHARE  |-> <<"AAPL", "NVDA">>,
                   CRYPTO_SPOT   |-> <<"BTC-USD", "ETH-USD">>],
     max_spread_pct |-> 1200, min_open_interest |-> 250,
     news_bias_weight |-> 20, scalp_enabled |-> TRUE, scalp_atr_mult |-> 150]

\* Windows short enough for tapes of four bars.
MCPeriods ==
    [slow |-> 3, fast |-> 2, regime |-> 3, slope |-> 1, vwap |-> 3, scalp |-> 1,
     scalpMin |-> 3, atr |-> 2, rsi |-> 2, volume |-> 2, turnover |-> 2,
     momentum |-> 1, cryptoMomentum |-> 2, history |-> 4, cryptoHistory |-> 4]

Tape(closes) ==
    [i \in DOMAIN closes |->
        [high |-> closes[i] + 100, low |-> closes[i] - 100, close |-> closes[i],
         volume |-> 100 + 10 * i]]

Up   == Tape(<<10000, 10100, 10300, 10600>>)
Mild == Tape(<<10000, 10050, 10050, 10100>>)
Down == Tape(<<10600, 10300, 10100, 10000>>)

Contract(right, mid, spread, volume) ==
    [right |-> right, strike |-> 10500, mid |-> mid, spread |-> spread,
     volume |-> volume, open_interest |-> 0]

QuoteOf(price, change) == {[price |-> price, change |-> change, spread |-> 4]}

\* A rising symbol, a quiet one whose chain cannot be had and a falling one;
\* one with a short tape and one without a quote.
MCViews ==
    {[quote |-> QuoteOf(10600, 290), bars |-> Up,
      chain |-> {{Contract("C", 200, 200, 1500), Contract("P", 200, 100, 2000)}}],
     [quote |-> QuoteOf(10100, 50), bars |-> Mild,
      chain |-> {}],
     [quote |-> QuoteOf(10000, -100), bars |-> Down,
      chain |-> {{Contract("C", 200, 200, 1500), Contract("P", 300, 100, 2000)}}],
     [quote |-> QuoteOf(10600, 290), bars |-> SubSeq(Up, 1, 2), chain |-> {}],
     [quote |-> {}, bars |-> <<>>, chain |-> {}]}

\* A bad day for SPY; Scanner adds the context that could not be built.
MCContexts ==
    {[news_bias |-> -40, benchmark |-> {100}, spy |-> Field(Down, "close")]}

\* The default row, and one that SET_WEIGHTS accepts although a weight is
\* negative.
MCWeights ==
    {[liquidity |-> 30, technical |-> 40, sentiment |-> 30],
     [liquidity |-> -100, technical |-> 100, sentiment |-> 100]}
=============================================================================
