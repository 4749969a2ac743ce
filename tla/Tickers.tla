------------------------------ MODULE Tickers ------------------------------
(***************************************************************************)
(* The ticker table of the server: index.js fills it at start-up with one  *)
(* awaited load per exchange, cuts it down to the markets that at least    *)
(* two exchanges trade, and from then on refreshes it from timers, with    *)
(* nothing that keeps two refreshes of one exchange from overlapping.      *)
(*                                                                         *)
(* The array of records is a set of ids, `tickers', and a function,        *)
(* `cell', from an id and an exchange to what that record holds for that   *)
(* exchange.  The order of the array is not modelled here.  A quote (last, *)
(* bid, ask) is the number of the request whose answer wrote it and        *)
(* whether the ask passes the code's `!= undefined'.                       *)
(***************************************************************************)
EXTENDS Naturals, FiniteSets

CONSTANTS
  Exchanges,        \* the exchanges of this instance, by their names in index.js
  Ids,              \* the ids "BASE-CURRENCY" that markets map to
  Junk,             \* Junk[e]: ids made of the keys of an error object of e
  CurrencyOf,       \* the traded currency of an id, `quote' in the records
  Clients,          \* browsers that open the /lastupdate web socket
  Prompt,           \* TRUE: every refresh is answered before the next tick
  FatalRejections,  \* TRUE: an unhandled rejection ends the process (Node >= 15)
  MaxSent           \* bound: requests sent to one exchange

\* index.js:165-195, the order of the loads
LoadOrder ==
  <<"Bittrex", "Binance", "Poloniex", "HitBTC", "Bitfinex", "Exmo", "Qryptos">>

ASSUME ExchangesAssumption ==
  Exchanges \subseteq {LoadOrder[i] : i \in 1..7} /\ Exchanges # {}

ASSUME JunkAssumption ==
  /\ Junk \in [Exchanges -> SUBSET Ids]
  /\ \A e, f \in Exchanges : e # f => Junk[e] \cap Junk[f] = {}

ASSUME SwitchesAssumption == Prompt \in BOOLEAN /\ FatalRejections \in BOOLEAN

ASSUME MaxSentAssumption == MaxSent \in Nat /\ MaxSent > 0

VARIABLES
  phase,     \* "init" (the awaited loads), "settle" (the 5 s timer), "running"
  todo,      \* exchanges init() has not come to yet
  inflight,  \* HTTP requests whose callback has not run
  sent,      \* sent[e]: requests sent to e so far, numbers them
  tickers,   \* ids of the records in the array
  cell,      \* cell[id][e]: the record's object for e
  lstId,     \* markets in qryptos.js's own list of product ids
  socket,    \* readyState of each client, "none" when not in `clients'
  alive      \* FALSE once an exception has left a callback

vars == <<phase, todo, inflight, sent, tickers, cell, lstId, socket, alive>>

-----------------------------------------------------------------------------
(* What differs from one exchange module to the next.                      *)

Slow           == Exchanges \cap {"Bitfinex"}                 \* 6 s timer
Fast           == Exchanges \ Slow                            \* 4 s timer
WithCurrencies == Exchanges \cap {"Poloniex", "Bittrex", "HitBTC"}

\* A body that is not JSON is caught by the module itself.
ParseGuarded == {"HitBTC", "Exmo"}

\* The whole callback, the web-socket push included, is in a try block.
CallbackGuarded == {"Exmo"}

\* The keys of an error object in place of the markets are taken for markets;
\* Bittrex alone recognises one and returns ...
RefusalAsMarkets == {"Poloniex", "Exmo"}

\* ... and in the others it has no forEach or filter, outside any try block.
RefusalThrows == {"Binance", "HitBTC", "Bitfinex", "Qryptos"}

\* The ask is stored as received, so it may be null; the others parseFloat it.
AsksOf(e) == IF e \in {"Bittrex", "Qryptos"} THEN {"price", "null"} ELSE {"price"}

StatusesOf(e) ==
  CASE e = "Bittrex"  -> {"ok", "locked", "delayed"}
    [] e = "Poloniex" -> {"ok", "locked"}
    [] e = "HitBTC"   -> {"ok", "locked", "depositDisabled", "withdrawalsDisabled"}
    [] OTHER          -> {"ok"}

-----------------------------------------------------------------------------
Kinds == {"init", "refresh", "currencies"}

Request == [ex : Exchanges, kind : Kinds, no : 1..MaxSent]

Asks     == {"undefined", "null", "price"}
Statuses == {"undefined", "ok", "locked", "delayed", "depositDisabled",
             "withdrawalsDisabled"}

\* by: number of the request whose answer wrote the quote, 0 if none did.
\* labelled: base and quote are set.
Cell == [by : 0..MaxSent, ask : Asks, labelled : BOOLEAN, status : Statuses]

NoCell == [by |-> 0, ask |-> "undefined", labelled |-> FALSE, status |-> "undefined"]

NoRow == [e \in Exchanges |-> NoCell]

JunkIds == UNION {Junk[e] : e \in Exchanges}
Markets == Ids \ JunkIds

\* The answers of getTickers that reach the loop over the elements: any
\* listing, and for some exchanges the keys of an error object, whose
\* prices parse to NaN.
Listings(e) ==
  (UNION {[listed -> AsksOf(e)] : listed \in SUBSET Markets})
    \cup (IF e \in RefusalAsMarkets THEN {[id \in Junk[e] |-> "price"]} ELSE {})

\* The answers of getCurrencies: a status for some of the currencies.
Healths(e) ==
  UNION {[known -> StatusesOf(e)] : known \in SUBSET {CurrencyOf[id] : id \in Ids}}

\* e comes first among the exchanges still to be loaded.
NextLoad(exs, e) ==
  \E i \in 1..7 : /\ LoadOrder[i] = e
                  /\ e \in exs
                  /\ \A j \in 1..(i - 1) : LoadOrder[j] \notin exs

TypeOK ==
  /\ phase \in {"init", "settle", "running"}
  /\ todo \subseteq Exchanges
  /\ inflight \subseteq Request
  /\ sent \in [Exchanges -> 0..MaxSent]
  /\ tickers \subseteq Ids
  /\ cell \in [Ids -> [Exchanges -> Cell]]
  /\ lstId \subseteq Ids
  /\ socket \in [Clients -> {"none", "open", "closing"}]
  /\ alive \in BOOLEAN

-----------------------------------------------------------------------------
(* init() is called as the module is loaded; it runs up to its first await. *)

\* Mutated form of Init: the loads are started together, not awaited in turn.
InitNotAwaited ==
  /\ phase = "init"
  /\ todo = {}
  /\ inflight = {[ex |-> e, kind |-> "init", no |-> 1] : e \in Exchanges}
  /\ sent = [f \in Exchanges |-> 1]
  /\ tickers = {}
  /\ cell = [id \in Ids |-> NoRow]
  /\ lstId = {}
  /\ socket = [c \in Clients |-> "none"]
  /\ alive = TRUE

Init ==
  /\ phase = "init"
  /\ \E e \in Exchanges :
       /\ NextLoad(Exchanges, e)
       /\ todo = Exchanges \ {e}
       /\ inflight = {[ex |-> e, kind |-> "init", no |-> 1]}
       /\ sent = [f \in Exchanges |-> IF f = e THEN 1 ELSE 0]
  /\ tickers = {}
  /\ cell = [id \in Ids |-> NoRow]
  /\ lstId = {}
  /\ socket = [c \in Clients |-> "none"]
  /\ alive = TRUE

\* The promise of r has settled.  For a load init() goes on to the next
\* exchange, whether it resolved or was rejected and caught, or to the timer.
Settled(r) ==
  \/ /\ r.kind # "init"
     /\ inflight' = inflight \ {r}
     /\ UNCHANGED <<phase, todo, sent>>
  \/ /\ r.kind = "init"
     /\ todo = {}
     /\ phase' = "settle"
     /\ inflight' = inflight \ {r}
     /\ UNCHANGED <<todo, sent>>
  \/ /\ r.kind = "init"
     /\ \E e \in todo :
          /\ NextLoad(todo, e)
          /\ todo' = todo \ {e}
          /\ inflight' = (inflight \ {r}) \cup {[ex |-> e, kind |-> "init", no |-> 1]}
          /\ sent' = [sent EXCEPT ![e] = 1]
     /\ UNCHANGED phase

\* Mutated form of RequestFails: init() without its try blocks.
RequestFailsUncaught(r) ==
  /\ alive
  /\ r \in inflight
  /\ inflight' = inflight \ {r}
  /\ UNCHANGED <<phase, todo, sent, tickers, cell, lstId, socket, alive>>

\* Connection error or a status outside 2xx: the callback returns at once
\* and the promise is rejected.  Only init() catches that.
RequestFails(r) ==
  /\ alive
  /\ r \in inflight
  /\ Settled(r)
  /\ alive' = (r.kind = "init" \/ ~FatalRejections)
  /\ UNCHANGED <<tickers, cell, lstId, socket>>

\* The callback returns early and the promise resolves: a 2xx status that is
\* not 200, an error object that is recognised, a parse error that is caught.
CallbackReturns(r) ==
  /\ alive
  /\ r \in inflight
  /\ Settled(r)
  /\ UNCHANGED <<tickers, cell, lstId, socket, alive>>

\* The callback throws: a body that is not JSON, or an error object that has
\* no forEach or filter.  request-promise rethrows, nothing catches it, the process ends.
CallbackThrows(r) ==
  /\ alive
  /\ r \in inflight
  /\ r.ex \notin ParseGuarded \/ r.ex \in RefusalThrows
  /\ alive' = FALSE
  /\ UNCHANGED <<phase, todo, inflight, sent, tickers, cell, lstId, socket>>

\* Mutated form of Written: the ask is compared before it is parsed.
WrittenRaw(old, r, ask) ==
  [old EXCEPT !.by = r.no, !.ask = IF ask = "null" THEN "NaN" ELSE ask]

\* Mutated form of Written: a refresh labels what it writes, too.
WrittenAlwaysLabels(old, r, ask) ==
  [by |-> r.no, ask |-> ask, labelled |-> TRUE, status |-> "ok"]

\* One element of a listing written to the cell of its id.
Written(old, r, ask) ==
  IF r.kind = "init"
  THEN [by |-> r.no, ask |-> ask, labelled |-> TRUE, status |-> "ok"]
  ELSE [old EXCEPT !.by = r.no, !.ask = ask]

\* Mutated form of ApplyListing: lstId gets only the ids new to the table.
ApplyListingLstIdOnInsert(r, listing) ==
  /\ tickers' = IF r.kind = "init" THEN tickers \cup DOMAIN listing ELSE tickers
  /\ cell' = [id \in Ids |->
                IF id \in tickers' /\ id \in DOMAIN listing
                THEN [cell[id] EXCEPT ![r.ex] = Written(@, r, listing[id])]
                ELSE cell[id]]
  /\ lstId' = IF r.ex = "Qryptos" /\ r.kind = "init"
              THEN lstId \cup (DOMAIN listing \ tickers)
              ELSE lstId

\* A load inserts the ids it does not find; a refresh skips them.
ApplyListing(r, listing) ==
  /\ tickers' = IF r.kind = "init" THEN tickers \cup DOMAIN listing ELSE tickers
  /\ cell' = [id \in Ids |->
                IF id \in tickers' /\ id \in DOMAIN listing
                THEN [cell[id] EXCEPT ![r.ex] = Written(@, r, listing[id])]
                ELSE cell[id]]
  /\ lstId' = IF r.ex = "Qryptos" /\ r.kind = "init"
              THEN lstId \cup DOMAIN listing
              ELSE lstId

\* ws.send throws on a socket that is closing but still in `clients'.
PushThrows == \E c \in Clients : socket[c] = "closing"

\* The callback of getTickers with a usable body: the writes, then the push.
TickersArrive(r, listing) ==
  /\ alive
  /\ r \in inflight
  /\ r.kind \in {"init", "refresh"}
  /\ ApplyListing(r, listing)
  /\ Settled(r)
  /\ alive' = (PushThrows => r.ex \in CallbackGuarded)
  /\ UNCHANGED socket

\* Mutated form of CurrenciesArrive: find in place of filter.
CurrenciesArriveFirstOnly(r, health) ==
  /\ alive
  /\ r \in inflight
  /\ r.kind = "currencies"
  /\ \E found \in tickers :
       /\ cell[found][r.ex].labelled
       /\ CurrencyOf[found] \in DOMAIN health
       /\ cell' = [cell EXCEPT ![found][r.ex].status = health[CurrencyOf[found]]]
  /\ Settled(r)
  /\ UNCHANGED <<tickers, lstId, socket, alive>>

\* The callback of getCurrencies: every record whose quote the body names.
CurrenciesArrive(r, health) ==
  /\ alive
  /\ r \in inflight
  /\ r.kind = "currencies"
  /\ cell' = [id \in Ids |->
                IF /\ id \in tickers
                   /\ cell[id][r.ex].labelled
                   /\ CurrencyOf[id] \in DOMAIN health
                THEN [cell[id] EXCEPT ![r.ex].status = health[CurrencyOf[id]]]
                ELSE cell[id]]
  /\ Settled(r)
  /\ UNCHANGED <<tickers, lstId, socket, alive>>

\* RemoveAloneMarkets counts the asks that are not undefined (nor null),
\* and for Qryptos the status.
Counted(id, e) ==
  IF e = "Qryptos" THEN cell[id][e].status # "undefined"
                   ELSE cell[id][e].ask = "price"

\* Mutated form of Alone: the limit of RemoveAloneMarkets is one less.
AloneOffByOne(id) == \A e \in Exchanges : ~Counted(id, e)

Alone(id) ==
  \A e, f \in Exchanges : Counted(id, e) /\ Counted(id, f) => e = f

\* The 5 s timer: the cut, and in the same turn the three timers start.
RemoveAloneMarkets ==
  /\ alive
  /\ phase = "settle"
  /\ tickers' = {id \in tickers : ~Alone(id)}
  /\ cell' = [id \in Ids |-> IF id \in tickers' THEN cell[id] ELSE NoRow]
  /\ phase' = "running"
  /\ UNCHANGED <<todo, inflight, sent, lstId, socket, alive>>

\* A timer sends one request of the kind to each exchange of exs.
Send(exs, kind) ==
  /\ alive
  /\ phase = "running"
  /\ exs # {}
  /\ \A e \in exs : sent[e] < MaxSent
  /\ Prompt => \A r \in inflight : ~(r.ex \in exs /\ r.kind = kind)
  /\ sent' = [e \in Exchanges |-> IF e \in exs THEN sent[e] + 1 ELSE sent[e]]
  /\ inflight' = inflight \cup {[ex |-> e, kind |-> kind, no |-> sent[e] + 1] : e \in exs}
  /\ UNCHANGED <<phase, todo, tickers, cell, lstId, socket, alive>>

UpdateTickers     == Send(Fast, "refresh")
UpdateTickersSlow == Send(Slow, "refresh")
UpdateStatus      == Send(WithCurrencies, "currencies")

\* The web socket of a browser: in `clients' from the handshake until the
\* close is complete.
SocketStep(c, from, to) ==
  /\ alive
  /\ socket[c] = from
  /\ socket' = [socket EXCEPT ![c] = to]
  /\ UNCHANGED <<phase, todo, inflight, sent, tickers, cell, lstId, alive>>

Connect(c)    == SocketStep(c, "none", "open")
StartClose(c) == SocketStep(c, "open", "closing")
Closed(c)     == SocketStep(c, "closing", "none")

Answer(r) ==
  \/ RequestFails(r)
  \/ CallbackReturns(r)
  \/ CallbackThrows(r)
  \/ \E listing \in Listings(r.ex) : TickersArrive(r, listing)
  \/ \E health \in Healths(r.ex) : CurrenciesArrive(r, health)

Next ==
  \/ \E r \in Request : Answer(r)
  \/ RemoveAloneMarkets
  \/ UpdateTickers
  \/ UpdateTickersSlow
  \/ UpdateStatus
  \/ \E c \in Clients : Connect(c) \/ StartClose(c) \/ Closed(c)

Spec == Init /\ [][Next]_vars

\* Every load is settled in the end (an assumption about the exchanges and
\* TCP: the code sets no timeout), and the 5 s timer fires.
FairSpec ==
  /\ Spec
  /\ \A e \in Exchanges : WF_vars(Answer([ex |-> e, kind |-> "init", no |-> 1]))
  /\ WF_vars(RemoveAloneMarkets)

-----------------------------------------------------------------------------
(* Properties.                                                             *)

\* Start-up is sequential (index.js:162-198): while the answer of a load is
\* outstanding nothing else is, and no timer has fired.
LoadsAlone ==
  \A r \in inflight : r.kind = "init" => phase = "init" /\ inflight = {r}

\* Once the timers run, every market that is served has been quoted by at
\* least two exchanges (index.js:239-267); with one there is nothing to compare.
KeptMarketsAreComparable ==
  phase = "running" =>
    \A id \in tickers :
      \E e, f \in Exchanges : e # f /\ cell[id][e].by > 0 /\ cell[id][f].by > 0

\* The rows that poloniex.js and exmo.js make of an error object at start-up
\* are gone once the timers run, and no later error object brings one back.
NoJunkRows == phase = "running" => tickers \cap JunkIds = {}

\* getCurrencies gives all the markets of a currency the same status, in one
\* turn; a record labelled at another time, or missed by the filter, would
\* show two markets of one wallet in different states.
SameCurrencySameStatus ==
  \A id1, id2 \in tickers, e \in Exchanges :
    /\ cell[id1][e].labelled
    /\ cell[id2][e].labelled
    /\ CurrencyOf[id1] = CurrencyOf[id2]
    => cell[id1][e].status = cell[id2][e].status

\* A row that init() labelled for Qryptos has its product id in lstId, so
\* getOrderBookQryptos finds it (qryptos.js:120-121).
LabelledQryptosRowsHaveAnId ==
  "Qryptos" \in Exchanges =>
    \A id \in tickers : cell[id]["Qryptos"].labelled => id \in lstId

\* Once the timers run the rows are the same for good, and so is what only a
\* load can give them: base, quote, and a status at all.  A market or an
\* exchange missed at start-up stays without them.
LabelsAreFinal ==
  [][phase = "running" =>
       /\ tickers' = tickers
       /\ lstId' = lstId
       /\ \A id \in Ids, e \in Exchanges :
            /\ cell'[id][e].labelled = cell[id][e].labelled
            /\ (cell'[id][e].status = "undefined") = (cell[id][e].status = "undefined")]_vars

\* If the exchanges answer within a period of the timers, an older answer
\* never overwrites a newer one.  (Without that it may: nothing in
\* index.js:222-237 waits for the last refresh.)
PromptQuotesNeverGoBack ==
  [][Prompt => \A id \in tickers', e \in Exchanges : cell'[id][e].by >= cell[id][e].by]_vars

\* A load that fails does not keep the timers from starting (index.js:164-198):
\* either they start or an exception has ended the process.
StartsUp == <>(phase = "running" \/ ~alive)
=============================================================================
