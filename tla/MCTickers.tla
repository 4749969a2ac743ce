----------------------------- MODULE MCTickers -----------------------------
(* Values for the constants of Tickers, one group per run.                 *)
EXTENDS Tickers

\* Two markets of one currency, so that a status covers more than one row.
MCIds == {"BTC-ETH", "USDT-ETH"}
MCIdsJunk == {"BTC-ETH", "USDT-ETH", "error-undefined"}

MCCurrencyOf     == [id \in MCIds |-> "ETH"]
MCCurrencyOfJunk == [id \in MCIdsJunk |-> IF id \in MCIds THEN "ETH" ELSE "none"]

MCNoJunk == [e \in Exchanges |-> {}]
MCJunk   == [e \in Exchanges |-> IF e = "Poloniex" THEN {"error-undefined"} ELSE {}]
=============================================================================
