------------------------------ MODULE MCClock ------------------------------
EXTENDS Clock

\* The minute of every boundary, the one before it, and the ends of the day.
MCInstants == {0, 539, 540, 569, 570, 779, 780, 959, 960, 1439}

Switches(f) ==
    [force : {f}, equity_enabled : BOOLEAN, crypto_enabled : BOOLEAN]

\* Every switch position by the clock; forced regimes with both desks on, and
\* each desk forced while it is off.
MCSettings ==
    Switches("")
      \cup {[force |-> f, equity_enabled |-> TRUE, crypto_enabled |-> TRUE] :
                f \in {"EQUITY", "CRYPTO", "IDLE"}}
      \cup {[force |-> "EQUITY", equity_enabled |-> FALSE, crypto_enabled |-> TRUE],
            [force |-> "CRYPTO", equity_enabled |-> TRUE, crypto_enabled |-> FALSE]}
=============================================================================
