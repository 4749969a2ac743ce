---------------------------- MODULE MCOrderBook ----------------------------
(* Values for the constants of OrderBook.                                  *)
EXTENDS OrderBook

Popup(c, e, m) == [client |-> c, ex |-> e, market |-> m]

\* Two markets of one exchange, in two browsers; two of Qryptos, one of them
\* missing from its list of ids; and a page that names an exchange the server
\* has no queue for.
MCPopups ==
  {Popup("c1", "Bitfinex", "BTC-ETH"), Popup("c2", "Bitfinex", "BTC-LTC"),
   Popup("c1", "Qryptos", "BTC-ETH"), Popup("c2", "Qryptos", "BTC-NEW"),
   Popup("c2", "Liqui", "BTC-ETH")}
=============================================================================
