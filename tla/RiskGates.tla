----------------------------- MODULE RiskGates -----------------------------
(***************************************************************************)
(* The pre-trade gates and the sizing of src/app/engine/risk.py.           *)
(*                                                                         *)
(* A book b is what the gates read of the database:                        *)
(*   open      the open positions, [market, underlying, cost, value]       *)
(*   keys      the idempotency keys of every position, open or closed      *)
(*   cooling   the underlyings closed less than the cooldown ago           *)
(*   today     the positions entered since midnight                        *)
(*   realized  the profit closed since midnight                            *)
(*   cash      the ledger's cash                                           *)
(*   halted    the kill switch                                             *)
(* Money is in cents, shares of it in basis points.                        *)
(***************************************************************************)
EXTENDS Desks

\* The limits are whole numbers.
ASSUME LimitsAssumption ==
    /\ {settings.max_open_positions, settings.max_positions_per_underlying,
        settings.max_new_positions_per_day, settings.starting_capital,
        settings.daily_loss_limit_pct, settings.crypto_max_exposure,
        settings.max_single_trade_pct, settings.risk_pct_per_trade,
        settings.min_trade_notional} \subseteq Int
    /\ settings.stop_pct \in [Markets -> Int]

\* Mark-to-market value of the open positions in the markets.
open_market_value(b, markets) ==
    SumFunction([p \in {q \in b.open : q.market \in markets} |-> p.value])

crypto_open_notional(b) == open_market_value(b, {"CRYPTO_SPOT"})
account_equity(b) == b.cash + open_market_value(b, Markets)

open_count_for(b, underlying) ==
    Cardinality({p \in b.open : p.underlying = underlying})

\* Realized today plus the open, unrealized part.
day_pnl(b) == b.realized + SumFunction([p \in b.open |-> p.value - p.cost])

bp(x, share) == (x * share) \div 10000

-----------------------------------------------------------------------------
(* One entry: its market, its key and the price of a unit. *)

unit_cost(e) == e.price * multiplier(e.market)

min_ticket(e) ==
    IF whole_units(e.market) THEN unit_cost(e) ELSE settings.min_trade_notional

\* The exposure at entry prices instead of marks (mutant).
headroom_at_entry(b) ==
    Max({0, settings.crypto_max_exposure
              - SumFunction([p \in {q \in b.open : q.market = "CRYPTO_SPOT"} |-> p.cost])})

headroom(b) == Max({0, settings.crypto_max_exposure - crypto_open_notional(b)})

max_single(b) == bp(account_equity(b), settings.max_single_trade_pct)

\* The risk budget, for a spot market scaled by its stop, within the cash, for
\* shares within one slot, for crypto within the headroom; an option's is
\* raised to one contract where the single-trade limit allows it.
budget(b, e) ==
    LET equity == account_equity(b)
        dollar_risk == bp(equity, settings.risk_pct_per_trade)
        risk_budget == IF e.market = "EQUITY_OPTION" THEN dollar_risk
                       ELSE (dollar_risk * 10000) \div settings.stop_pct[e.market]
        limits == {risk_budget, b.cash}
                    \cup (IF e.market = "EQUITY_SHARE"
                          THEN {equity \div settings.max_open_positions} ELSE {})
                    \cup (IF e.market = "CRYPTO_SPOT" THEN {headroom(b)} ELSE {})
    IN  IF /\ e.market = "EQUITY_OPTION"
           /\ equity > 0
           /\ unit_cost(e) > Min(limits)
           /\ unit_cost(e) <= b.cash
           /\ unit_cost(e) <= max_single(b)
        THEN unit_cost(e)
        ELSE Min(limits)

\* The gates in the order they are tried, each with the condition it refuses on.
Gates(b, e) ==
    << <<"TRADING_DISABLED", ~settings.trading_enabled>>,
       <<"HALTED", b.halted>>,
       <<"DUPLICATE", e.key \in b.keys>>,
       <<"PER_UNDERLYING_CAP",
            open_count_for(b, e.underlying) >= settings.max_positions_per_underlying>>,
       <<"MAX_OPEN", Cardinality(b.open) >= settings.max_open_positions>>,
       <<"COOLDOWN", e.underlying \in b.cooling>>,
       <<"DAILY_TRADE_CAP", b.today >= settings.max_new_positions_per_day>>,
       <<"DAILY_LOSS_LIMIT",
            /\ settings.daily_loss_limit_pct > 0
            /\ day_pnl(b) <= -bp(settings.starting_capital,
                                 settings.daily_loss_limit_pct)>>,
       <<"CRYPTO_EXPOSURE_CAP",
            e.market = "CRYPTO_SPOT" /\ min_ticket(e) > headroom(b)>>,
       <<"INSUFFICIENT_CASH",
            e.market = "CRYPTO_SPOT" /\ min_ticket(e) > b.cash>>,
       <<"MAX_SINGLE_TRADE",
            /\ e.market = "EQUITY_OPTION"
            /\ account_equity(b) > 0
            /\ unit_cost(e) > max_single(b)>>,
       <<"SIZE_TOO_LARGE", min_ticket(e) > budget(b, e)>>,
       <<"INSUFFICIENT_CASH", min_ticket(e) > b.cash>> >>

\* Their numbers in the list.
Refusing(gates) == {i \in DOMAIN gates : gates[i][2]}

RiskDecision(gates, max_notional) ==
    [allowed |-> Refusing(gates) = {},
     gate |-> IF Refusing(gates) = {} THEN "" ELSE gates[Min(Refusing(gates))][1],
     max_notional |-> max_notional]

\* The first gate that refuses, or the money the entry may use.
check(b, e) == RiskDecision(Gates(b, e), budget(b, e))

\* What the budget buys, in money: whole contracts, or any fraction that is
\* not dust.
size_position(e, max_notional) ==
    LET bought == IF whole_units(e.market)
                  THEN (max_notional \div unit_cost(e)) * unit_cost(e)
                  ELSE max_notional
    IN  IF unit_cost(e) <= 0 THEN 0
        ELSE IF ~whole_units(e.market) /\ bought < settings.min_trade_notional THEN 0
        ELSE bought
=============================================================================
