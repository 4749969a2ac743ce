--------------------------- MODULE TickersProofs ---------------------------
(***************************************************************************)
(* Theorems about Tickers, for every set of exchanges, ids and clients and *)
(* every bound: its type invariant and what its runs check of the start-up *)
(* and of the cut, from one inductive invariant.                           *)
(***************************************************************************)
EXTENDS Tickers, TLAPS

-----------------------------------------------------------------------------
(* Lemmas about the operators the actions are built from.                  *)

\* What every usable answer of getTickers is: prices for ids that are either
\* all real markets, or all keys of an error object of that exchange.
LEMMA ListingFacts ==
  ASSUME NEW e \in Exchanges, NEW listing \in Listings(e)
  PROVE  /\ DOMAIN listing \subseteq Ids
         /\ \A id \in DOMAIN listing : listing[id] \in {"price", "null"}
         /\ \A id \in DOMAIN listing, f \in Exchanges : id \in Junk[f] => f = e
<1>1. CASE listing \in UNION {[listed -> AsksOf(e)] : listed \in SUBSET Markets}
  <2>1. PICK listed \in SUBSET Markets : listing \in [listed -> AsksOf(e)]
    BY <1>1
  <2>2. DOMAIN listing = listed /\ \A id \in listed : listing[id] \in AsksOf(e)
    BY <2>1
  <2>3. \A id \in Markets : id \in Ids /\ \A f \in Exchanges : id \notin Junk[f]
    BY DEF Markets, JunkIds
  <2>4. QED BY <2>2, <2>3 DEF AsksOf
<1>2. CASE listing = [id \in Junk[e] |-> "price"]
  <2>1. Junk[e] \subseteq Ids BY JunkAssumption
  <2>2. DOMAIN listing = Junk[e] /\ \A id \in Junk[e] : listing[id] = "price"
    BY <1>2
  <2>3. QED BY <2>1, <2>2, JunkAssumption
<1>3. QED BY <1>1, <1>2 DEF Listings

\* A status that getCurrencies writes is one of the statuses, never undefined.
LEMMA HealthFacts ==
  ASSUME NEW e \in Exchanges, NEW health \in Healths(e), NEW c \in DOMAIN health
  PROVE  health[c] \in Statuses \ {"undefined"}
<1>1. PICK known \in SUBSET {CurrencyOf[id] : id \in Ids} : health \in [known -> StatusesOf(e)]
  BY DEF Healths
<1>2. health[c] \in StatusesOf(e) BY <1>1
<1>3. StatusesOf(e) \subseteq Statuses \ {"undefined"} BY DEF StatusesOf, Statuses
<1>4. QED BY <1>2, <1>3

\* A cell written by a request is a cell, quoted by that request.
LEMMA WrittenFacts ==
  \A old \in Cell, r \in Request, ask \in {"price", "null"} :
    /\ Written(old, r, ask) \in Cell
    /\ Written(old, r, ask).by = r.no
    /\ r.kind = "init" => Written(old, r, ask).labelled
    /\ r.kind = "init" => Written(old, r, ask).status = "ok"
    /\ r.kind # "init" => (Written(old, r, ask).labelled <=> old.labelled)
    /\ r.kind # "init" => Written(old, r, ask).status = old.status
<1> SUFFICES ASSUME NEW old \in Cell, NEW r \in Request, NEW ask \in {"price", "null"}
             PROVE  /\ Written(old, r, ask) \in Cell
                    /\ Written(old, r, ask).by = r.no
                    /\ r.kind = "init" => Written(old, r, ask).labelled
                    /\ r.kind = "init" => Written(old, r, ask).status = "ok"
                    /\ r.kind # "init" => (Written(old, r, ask).labelled <=> old.labelled)
                    /\ r.kind # "init" => Written(old, r, ask).status = old.status
  OBVIOUS
<1>1. r.no \in 1..MaxSent /\ r.no \in 0..MaxSent
  BY MaxSentAssumption DEF Request
<1>2. QED BY <1>1 DEF Written, Cell, Asks, Statuses

\* A cell without a row is a cell.
LEMMA NoRowFacts == NoRow \in [Exchanges -> Cell]
  BY MaxSentAssumption DEF NoRow, NoCell, Cell, Asks, Statuses

\* The effect of a usable answer of getTickers on one cell.
LEMMA ApplyFacts ==
  ASSUME TypeOK, NEW r \in Request, NEW listing \in Listings(r.ex),
         ApplyListing(r, listing)
  PROVE  /\ tickers' \subseteq Ids /\ lstId' \subseteq Ids
         /\ cell' \in [Ids -> [Exchanges -> Cell]]
         /\ \A id \in Ids, e \in Exchanges :
              \/ cell'[id][e] = cell[id][e]
              \/ /\ id \in tickers' /\ id \in DOMAIN listing /\ e = r.ex
                 /\ cell'[id][e] = Written(cell[id][e], r, listing[id])
<1>1. r.ex \in Exchanges BY DEF Request
<1>2. DOMAIN listing \subseteq Ids BY <1>1, ListingFacts
<1>3. tickers' \subseteq Ids /\ lstId' \subseteq Ids
  BY <1>2 DEF ApplyListing, TypeOK
<1>4. ASSUME NEW id \in Ids
      PROVE  /\ cell'[id] \in [Exchanges -> Cell]
             /\ \A e \in Exchanges :
                  \/ cell'[id][e] = cell[id][e]
                  \/ /\ id \in tickers' /\ id \in DOMAIN listing /\ e = r.ex
                     /\ cell'[id][e] = Written(cell[id][e], r, listing[id])
  <2>1. cell[id] \in [Exchanges -> Cell] BY DEF TypeOK
  <2>2. CASE id \in tickers' /\ id \in DOMAIN listing
    <3>1. cell'[id] = [cell[id] EXCEPT ![r.ex] = Written(cell[id][r.ex], r, listing[id])]
      BY <2>2 DEF ApplyListing
    <3>2. Written(cell[id][r.ex], r, listing[id]) \in Cell
      <4>1. listing[id] \in {"price", "null"} BY <1>1, <2>2, ListingFacts
      <4>2. cell[id][r.ex] \in Cell BY <1>1, <2>1
      <4>3. QED BY <4>1, <4>2, WrittenFacts
    <3>3. QED BY <1>1, <2>1, <2>2, <3>1, <3>2
  <2>3. CASE ~(id \in tickers' /\ id \in DOMAIN listing)
    BY <2>1, <2>3 DEF ApplyListing
  <2>4. QED BY <2>2, <2>3
<1>5. cell' = [id \in Ids |-> cell'[id]]
  BY DEF ApplyListing
<1>6. QED BY <1>3, <1>4, <1>5

\* What the end of a request leaves of the start-up state.
LEMMA SettledFacts ==
  ASSUME TypeOK, NEW r \in inflight, Settled(r)
  PROVE  /\ phase' \in {"init", "settle", "running"}
         /\ todo' \subseteq Exchanges
         /\ inflight' \subseteq Request
         /\ sent' \in [Exchanges -> 0..MaxSent]
<1>1. 1 \in 1..MaxSent /\ 1 \in 0..MaxSent BY MaxSentAssumption
<1>2. CASE r.kind # "init" BY <1>2 DEF Settled, TypeOK
<1>3. CASE r.kind = "init" /\ todo = {} BY <1>3 DEF Settled, TypeOK
<1>4. CASE r.kind = "init" /\ todo # {}
  <2>1. PICK e \in todo :
          /\ todo' = todo \ {e}
          /\ inflight' = (inflight \ {r}) \cup {[ex |-> e, kind |-> "init", no |-> 1]}
          /\ sent' = [sent EXCEPT ![e] = 1]
          /\ phase' = phase
    BY <1>4 DEF Settled
  <2>2. e \in Exchanges BY DEF TypeOK
  <2>3. [ex |-> e, kind |-> "init", no |-> 1] \in Request
    BY <1>1, <2>2 DEF Request, Kinds
  <2>4. QED BY <1>1, <2>1, <2>2, <2>3 DEF TypeOK
<1>5. QED BY <1>2, <1>3, <1>4

\* The effect of an answer of getCurrencies on one cell: the status at most.
LEMMA CurrenciesFacts ==
  ASSUME TypeOK, NEW r \in Request, NEW health \in Healths(r.ex),
         CurrenciesArrive(r, health)
  PROVE  /\ cell' \in [Ids -> [Exchanges -> Cell]]
         /\ \A id \in Ids, e \in Exchanges :
              \/ cell'[id][e] = cell[id][e]
              \/ /\ id \in tickers /\ e = r.ex /\ cell[id][e].labelled
                 /\ CurrencyOf[id] \in DOMAIN health
                 /\ cell'[id][e] = [cell[id][e] EXCEPT !.status = health[CurrencyOf[id]]]
<1>1. r.ex \in Exchanges BY DEF Request
<1>2. ASSUME NEW id \in Ids
      PROVE  /\ cell'[id] \in [Exchanges -> Cell]
             /\ \A e \in Exchanges :
                  \/ cell'[id][e] = cell[id][e]
                  \/ /\ id \in tickers /\ e = r.ex /\ cell[id][e].labelled
                     /\ CurrencyOf[id] \in DOMAIN health
                     /\ cell'[id][e] = [cell[id][e] EXCEPT !.status = health[CurrencyOf[id]]]
  <2>1. cell[id] \in [Exchanges -> Cell] BY DEF TypeOK
  <2>2. CASE id \in tickers /\ cell[id][r.ex].labelled /\ CurrencyOf[id] \in DOMAIN health
    <3>1. cell'[id] = [cell[id] EXCEPT ![r.ex].status = health[CurrencyOf[id]]]
      BY <2>2 DEF CurrenciesArrive
    <3>2. health[CurrencyOf[id]] \in Statuses BY <1>1, <2>2, HealthFacts
    <3>3. [cell[id][r.ex] EXCEPT !.status = health[CurrencyOf[id]]] \in Cell
      BY <1>1, <2>1, <3>2 DEF Cell
    <3>4. QED BY <1>1, <2>1, <2>2, <3>1, <3>3
  <2>3. CASE ~(id \in tickers /\ cell[id][r.ex].labelled /\ CurrencyOf[id] \in DOMAIN health)
    BY <2>1, <2>3 DEF CurrenciesArrive
  <2>4. QED BY <2>2, <2>3
<1>3. cell' = [id \in Ids |-> cell'[id]] BY DEF CurrenciesArrive
<1>4. QED BY <1>2, <1>3

-----------------------------------------------------------------------------
(* The type invariant.                                                     *)

\* The first load of init() is well-typed.
LEMMA InitType == Init => TypeOK
<1> SUFFICES ASSUME Init PROVE TypeOK OBVIOUS
<1>1. PICK e \in Exchanges :
        /\ todo = Exchanges \ {e}
        /\ inflight = {[ex |-> e, kind |-> "init", no |-> 1]}
        /\ sent = [f \in Exchanges |-> IF f = e THEN 1 ELSE 0]
  BY DEF Init
<1>2. 1 \in 1..MaxSent /\ 1 \in 0..MaxSent /\ 0 \in 0..MaxSent BY MaxSentAssumption
<1>3. inflight \subseteq Request BY <1>1, <1>2 DEF Request, Kinds
<1>4. sent \in [Exchanges -> 0..MaxSent] BY <1>1, <1>2
<1>5. cell \in [Ids -> [Exchanges -> Cell]] BY NoRowFacts DEF Init
<1>6. QED BY <1>1, <1>3, <1>4, <1>5 DEF Init, TypeOK

\* A timer numbers its requests within the bound.
LEMMA SendType ==
  ASSUME TypeOK, NEW exs \in SUBSET Exchanges, NEW kind \in Kinds, Send(exs, kind)
  PROVE  TypeOK'
<1>1. \A e \in exs : sent[e] + 1 \in 1..MaxSent /\ sent[e] + 1 \in 0..MaxSent
  BY MaxSentAssumption DEF Send, TypeOK
<1>2. sent' \in [Exchanges -> 0..MaxSent] BY <1>1 DEF Send, TypeOK
<1>3. inflight' \subseteq Request BY <1>1 DEF Send, TypeOK, Request
<1>4. QED BY <1>2, <1>3 DEF Send, TypeOK

\* Every step keeps the types.
LEMMA NextType == TypeOK /\ [Next]_vars => TypeOK'
<1> SUFFICES ASSUME TypeOK, [Next]_vars PROVE TypeOK' OBVIOUS
<1>1. ASSUME NEW r \in Request, RequestFails(r) PROVE TypeOK'
  <2>1. r \in inflight /\ Settled(r) BY <1>1 DEF RequestFails
  <2>2. alive' \in BOOLEAN BY <1>1 DEF RequestFails
  <2>3. QED BY <1>1, <2>1, <2>2, SettledFacts DEF RequestFails, TypeOK
<1>2. ASSUME NEW r \in Request, CallbackReturns(r) PROVE TypeOK'
  <2>1. r \in inflight /\ Settled(r) BY <1>2 DEF CallbackReturns
  <2>2. QED BY <1>2, <2>1, SettledFacts DEF CallbackReturns, TypeOK
<1>3. ASSUME NEW r \in Request, CallbackThrows(r) PROVE TypeOK'
  BY <1>3 DEF CallbackThrows, TypeOK
<1>4. ASSUME NEW r \in Request, NEW listing \in Listings(r.ex), TickersArrive(r, listing)
      PROVE TypeOK'
  <2>1. r \in inflight /\ Settled(r) /\ ApplyListing(r, listing) BY <1>4 DEF TickersArrive
  <2>2. alive' \in BOOLEAN BY <1>4 DEF TickersArrive
  <2>3. socket' = socket BY <1>4 DEF TickersArrive
  <2>4. QED BY <2>1, <2>2, <2>3, SettledFacts, ApplyFacts DEF TypeOK
<1>5. ASSUME NEW r \in Request, NEW health \in Healths(r.ex), CurrenciesArrive(r, health)
      PROVE TypeOK'
  <2>1. r \in inflight /\ Settled(r) BY <1>5 DEF CurrenciesArrive
  <2>2. cell' \in [Ids -> [Exchanges -> Cell]] BY <1>5, CurrenciesFacts
  <2>3. UNCHANGED <<tickers, lstId, socket, alive>> BY <1>5 DEF CurrenciesArrive
  <2>4. QED BY <2>1, <2>2, <2>3, SettledFacts DEF TypeOK
<1>6. CASE RemoveAloneMarkets
  <2>1. cell' \in [Ids -> [Exchanges -> Cell]]
    BY <1>6, NoRowFacts DEF RemoveAloneMarkets, TypeOK
  <2>2. QED BY <1>6, <2>1 DEF RemoveAloneMarkets, TypeOK
<1>7. CASE UpdateTickers
  <2>1. Fast \in SUBSET Exchanges /\ "refresh" \in Kinds BY DEF Fast, Kinds
  <2>2. QED BY <1>7, <2>1, SendType DEF UpdateTickers
<1>8. CASE UpdateTickersSlow
  <2>1. Slow \in SUBSET Exchanges /\ "refresh" \in Kinds BY DEF Slow, Kinds
  <2>2. QED BY <1>8, <2>1, SendType DEF UpdateTickersSlow
<1>9. CASE UpdateStatus
  <2>1. WithCurrencies \in SUBSET Exchanges /\ "currencies" \in Kinds
    BY DEF WithCurrencies, Kinds
  <2>2. QED BY <1>9, <2>1, SendType DEF UpdateStatus
<1>10. ASSUME NEW c \in Clients, Connect(c) \/ StartClose(c) \/ Closed(c) PROVE TypeOK'
  <2>1. socket' \in [Clients -> {"none", "open", "closing"}]
    BY <1>10 DEF Connect, StartClose, Closed, SocketStep, TypeOK
  <2>2. QED BY <1>10, <2>1 DEF Connect, StartClose, Closed, SocketStep, TypeOK
<1>11. CASE UNCHANGED vars BY <1>11 DEF vars, TypeOK
<1>12. QED
  BY <1>1, <1>2, <1>3, <1>4, <1>5, <1>6, <1>7, <1>8, <1>9, <1>10, <1>11 DEF Next, Answer

\* The variables keep their types (index.js, exchanges/*.js).
THEOREM TypeCorrect == Spec => []TypeOK
  BY InitType, NextType, PTL DEF Spec

-----------------------------------------------------------------------------
(* The inductive invariant.                                                *)

\* Requests by phase: one load while init() runs, none while it waits for
\* its timer, and no load any more once the timers run.
StartUp ==
  /\ phase = "init" => \E r \in Request : inflight = {r} /\ r.kind = "init"
  /\ phase = "settle" => inflight = {}
  /\ phase = "running" => \A r \in inflight : r.kind # "init"
  /\ phase # "init" => todo = {}

\* How the fields of a cell hang together.
Cells ==
  \A id \in Ids, e \in Exchanges :
    /\ cell[id][e].by = 0 => cell[id][e].ask = "undefined" /\ cell[id][e].status = "undefined"
    /\ cell[id][e].labelled <=> cell[id][e].status # "undefined"
    /\ phase # "running" /\ cell[id][e].labelled => cell[id][e].status = "ok"

\* Only the exchange whose error object it comes from quotes a junk id.
JunkCells ==
  \A e, f \in Exchanges : \A id \in Junk[e] : cell[id][f].by > 0 => f = e

\* LabelledQryptosRowsHaveAnId, for every cell.
QryptosIds ==
  "Qryptos" \in Exchanges =>
    \A id \in Ids : cell[id]["Qryptos"].labelled => id \in lstId

\* What a step may do to one cell.
LEMMA CellStep ==
  ASSUME TypeOK, [Next]_vars, NEW id \in Ids, NEW e \in Exchanges
  PROVE  \/ cell'[id][e] = cell[id][e]
         \/ \E r \in inflight : \E listing \in Listings(r.ex) :
              /\ TickersArrive(r, listing)
              /\ id \in tickers' /\ id \in DOMAIN listing /\ e = r.ex
              /\ cell'[id][e] = Written(cell[id][e], r, listing[id])
         \/ \E r \in inflight : \E health \in Healths(r.ex) :
              /\ CurrenciesArrive(r, health)
              /\ id \in tickers /\ e = r.ex /\ cell[id][e].labelled
              /\ CurrencyOf[id] \in DOMAIN health
              /\ cell'[id][e] = [cell[id][e] EXCEPT !.status = health[CurrencyOf[id]]]
         \/ RemoveAloneMarkets /\ id \notin tickers' /\ cell'[id][e] = NoCell
<1>1. CASE cell' = cell BY <1>1
<1>2. ASSUME NEW r \in Request, NEW listing \in Listings(r.ex), TickersArrive(r, listing)
      PROVE  \/ cell'[id][e] = cell[id][e]
             \/ /\ r \in inflight /\ id \in tickers' /\ id \in DOMAIN listing /\ e = r.ex
                /\ cell'[id][e] = Written(cell[id][e], r, listing[id])
  BY <1>2, ApplyFacts DEF TickersArrive
<1>3. ASSUME NEW r \in Request, NEW health \in Healths(r.ex), CurrenciesArrive(r, health)
      PROVE  \/ cell'[id][e] = cell[id][e]
             \/ /\ r \in inflight /\ id \in tickers /\ e = r.ex /\ cell[id][e].labelled
                /\ CurrencyOf[id] \in DOMAIN health
                /\ cell'[id][e] = [cell[id][e] EXCEPT !.status = health[CurrencyOf[id]]]
  <2>1. r \in inflight BY <1>3 DEF CurrenciesArrive
  <2>2. QED BY <1>3, <2>1, CurrenciesFacts
<1>4. CASE RemoveAloneMarkets
  <2>1. cell'[id] = IF id \in tickers' THEN cell[id] ELSE NoRow
    BY <1>4 DEF RemoveAloneMarkets
  <2>2. QED BY <1>4, <2>1 DEF NoRow
<1>5. QED
  <2>1. ASSUME NEW r \in Request, Answer(r)
        PROVE \/ cell' = cell
              \/ \E listing \in Listings(r.ex) : TickersArrive(r, listing)
              \/ \E health \in Healths(r.ex) : CurrenciesArrive(r, health)
    BY <2>1 DEF Answer, RequestFails, CallbackReturns, CallbackThrows
  <2>2. CASE \E r \in Request : Answer(r)
    <3>1. PICK r \in Request : Answer(r) BY <2>2
    <3>2. CASE \E listing \in Listings(r.ex) : TickersArrive(r, listing)
      BY <1>2, <3>2
    <3>3. CASE \E health \in Healths(r.ex) : CurrenciesArrive(r, health)
      BY <1>3, <3>3
    <3>4. QED BY <1>1, <2>1, <3>1, <3>2, <3>3
  <2>3. CASE RemoveAloneMarkets BY <1>4, <2>3
  <2>4. CASE \/ UpdateTickers \/ UpdateTickersSlow \/ UpdateStatus
             \/ (\E c \in Clients : Connect(c) \/ StartClose(c) \/ Closed(c))
             \/ UNCHANGED vars
    <3>1. cell' = cell
      BY <2>4 DEF UpdateTickers, UpdateTickersSlow, UpdateStatus, Send,
                  Connect, StartClose, Closed, SocketStep, vars
    <3>2. QED BY <1>1, <3>1
  <2>5. QED BY <2>2, <2>3, <2>4 DEF Next

\* What a step may do to everything but the cells.
LEMMA RequestStep ==
  ASSUME TypeOK, [Next]_vars
  PROVE  \/ UNCHANGED <<phase, todo, inflight, sent>>
         \/ \E r \in inflight : Settled(r)
         \/ RemoveAloneMarkets
         \/ \E exs \in SUBSET Exchanges, kind \in {"refresh", "currencies"} : Send(exs, kind)
<1>1. ASSUME NEW r \in Request, Answer(r)
      PROVE  UNCHANGED <<phase, todo, inflight, sent>> \/ (r \in inflight /\ Settled(r))
  BY <1>1 DEF Answer, RequestFails, CallbackReturns, CallbackThrows, TickersArrive,
              CurrenciesArrive
<1>2. CASE UpdateTickers \/ UpdateTickersSlow \/ UpdateStatus
  <2>1. Fast \in SUBSET Exchanges /\ Slow \in SUBSET Exchanges
          /\ WithCurrencies \in SUBSET Exchanges
    BY DEF Fast, Slow, WithCurrencies
  <2>2. QED BY <1>2, <2>1 DEF UpdateTickers, UpdateTickersSlow, UpdateStatus
<1>3. CASE (\E c \in Clients : Connect(c) \/ StartClose(c) \/ Closed(c)) \/ UNCHANGED vars
  BY <1>3 DEF Connect, StartClose, Closed, SocketStep, vars
<1>4. QED BY <1>1, <1>2, <1>3 DEF Next

\* Only a load adds rows, and only the cut removes them.
LEMMA TableStep ==
  ASSUME TypeOK, [Next]_vars
  PROVE  \/ tickers' = tickers /\ lstId' = lstId
         \/ \E r \in inflight : \E listing \in Listings(r.ex) :
              TickersArrive(r, listing) /\ r.kind = "init"
         \/ RemoveAloneMarkets
<1>1. ASSUME NEW r \in Request, Answer(r)
      PROVE  \/ tickers' = tickers /\ lstId' = lstId
             \/ r \in inflight /\ \E listing \in Listings(r.ex) :
                  TickersArrive(r, listing) /\ r.kind = "init"
  <2>1. ASSUME NEW listing \in Listings(r.ex), TickersArrive(r, listing)
        PROVE  \/ tickers' = tickers /\ lstId' = lstId
               \/ r \in inflight /\ r.kind = "init"
    BY <2>1 DEF TickersArrive, ApplyListing
  <2>2. QED
    BY <1>1, <2>1 DEF Answer, RequestFails, CallbackReturns, CallbackThrows, CurrenciesArrive
<1>2. CASE UpdateTickers \/ UpdateTickersSlow \/ UpdateStatus
  BY <1>2 DEF UpdateTickers, UpdateTickersSlow, UpdateStatus, Send
<1>3. CASE (\E c \in Clients : Connect(c) \/ StartClose(c) \/ Closed(c)) \/ UNCHANGED vars
  BY <1>3 DEF Connect, StartClose, Closed, SocketStep, vars
<1>4. QED BY <1>1, <1>2, <1>3 DEF Next

-----------------------------------------------------------------------------
(* Each part is preserved, given the parts before it.                      *)

\* init() begins with one load under way.
LEMMA StartUpInit == Init => StartUp
<1> SUFFICES ASSUME Init PROVE StartUp OBVIOUS
<1>1. PICK e \in Exchanges : inflight = {[ex |-> e, kind |-> "init", no |-> 1]}
  BY DEF Init
<1>2. [ex |-> e, kind |-> "init", no |-> 1] \in Request
  BY MaxSentAssumption DEF Request, Kinds
<1>3. QED BY <1>1, <1>2 DEF Init, StartUp

\* init() goes from load to load, to the 5 s timer, to the intervals.
LEMMA StartUpNext ==
  ASSUME TypeOK, StartUp, [Next]_vars
  PROVE  StartUp'
<1>1. CASE UNCHANGED <<phase, todo, inflight, sent>> BY <1>1 DEF StartUp
<1>2. ASSUME NEW r \in inflight, Settled(r) PROVE StartUp'
  <2>1. CASE r.kind # "init"
    <3>1. phase = "running" BY <2>1 DEF StartUp, TypeOK
    <3>2. QED BY <1>2, <2>1, <3>1 DEF Settled, StartUp
  <2>2. CASE r.kind = "init"
    <3>1. phase = "init" /\ inflight = {r} BY <2>2 DEF StartUp, TypeOK
    <3>2. CASE todo = {} BY <1>2, <2>2, <3>1, <3>2 DEF Settled, StartUp
    <3>3. CASE todo # {}
      <4>1. PICK e \in todo :
              /\ inflight' = (inflight \ {r}) \cup {[ex |-> e, kind |-> "init", no |-> 1]}
              /\ phase' = phase
        BY <1>2, <2>2, <3>3 DEF Settled
      <4>2. [ex |-> e, kind |-> "init", no |-> 1] \in Request
        BY MaxSentAssumption DEF Request, Kinds, TypeOK
      <4>3. QED BY <3>1, <4>1, <4>2 DEF StartUp
    <3>4. QED BY <3>2, <3>3
  <2>3. QED BY <2>1, <2>2
<1>3. CASE RemoveAloneMarkets BY <1>3 DEF RemoveAloneMarkets, StartUp
<1>4. ASSUME NEW exs \in SUBSET Exchanges, NEW kind \in {"refresh", "currencies"}, Send(exs, kind)
      PROVE  StartUp'
  BY <1>4 DEF Send, StartUp
<1>5. QED BY <1>1, <1>2, <1>3, <1>4, RequestStep

\* No cell has been written at first.
LEMMA CellsInit == Init => Cells /\ JunkCells
<1> SUFFICES ASSUME Init PROVE Cells /\ JunkCells OBVIOUS
<1>1. \A id \in Ids, e \in Exchanges : cell[id][e] = NoCell BY DEF Init, NoRow
<1>2. Cells BY <1>1 DEF Cells, NoCell
<1>3. JunkCells BY <1>1, JunkAssumption DEF JunkCells, NoCell
<1>4. QED BY <1>2, <1>3

\* The phases come in one order.
LEMMA PhaseForward ==
  ASSUME TypeOK, StartUp, [Next]_vars
  PROVE  /\ phase = "running" => phase' = "running"
         /\ phase' = "running" => phase = "running" \/ RemoveAloneMarkets
  BY RequestStep DEF Settled, RemoveAloneMarkets, Send, StartUp

\* A write sets the fields of a cell together.
LEMMA CellsNext ==
  ASSUME TypeOK, StartUp, Cells, [Next]_vars
  PROVE  Cells'
<1> SUFFICES ASSUME NEW id \in Ids, NEW e \in Exchanges
             PROVE /\ cell'[id][e].by = 0 =>
                        cell'[id][e].ask = "undefined" /\ cell'[id][e].status = "undefined"
                   /\ cell'[id][e].labelled <=> cell'[id][e].status # "undefined"
                   /\ phase' # "running" /\ cell'[id][e].labelled => cell'[id][e].status = "ok"
  BY DEF Cells
<1>0. cell[id][e] \in Cell BY DEF TypeOK
<1>1. CASE cell'[id][e] = cell[id][e]
  BY <1>1, PhaseForward DEF Cells
<1>2. ASSUME NEW r \in inflight, NEW listing \in Listings(r.ex),
             TickersArrive(r, listing), id \in DOMAIN listing, e = r.ex,
             cell'[id][e] = Written(cell[id][e], r, listing[id])
      PROVE  /\ cell'[id][e].by # 0
             /\ cell'[id][e].labelled <=> cell'[id][e].status # "undefined"
             /\ phase' # "running" /\ cell'[id][e].labelled => cell'[id][e].status = "ok"
  <2>1. r \in Request BY DEF TypeOK
  <2>2. listing[id] \in {"price", "null"} BY <1>2, <2>1, ListingFacts DEF Request
  <2>3. r.no \in 1..MaxSent BY <2>1 DEF Request
  <2>4. /\ cell'[id][e].by = r.no
        /\ r.kind = "init" => cell'[id][e].labelled
        /\ r.kind = "init" => cell'[id][e].status = "ok"
        /\ r.kind # "init" => (cell'[id][e].labelled <=> cell[id][e].labelled)
        /\ r.kind # "init" => cell'[id][e].status = cell[id][e].status
    <3>1. cell'[id][e] = Written(cell[id][e], r, listing[id]) BY <1>2
    <3>2. Written(cell[id][e], r, listing[id]).by = r.no
      BY <1>0, <2>1, <2>2, WrittenFacts
    <3>3. /\ r.kind = "init" => Written(cell[id][e], r, listing[id]).labelled
          /\ r.kind = "init" => Written(cell[id][e], r, listing[id]).status = "ok"
      BY SMTT(60), <1>0, <2>1, <2>2, WrittenFacts
    <3>4. r.kind # "init" =>
            /\ Written(cell[id][e], r, listing[id]).labelled <=> cell[id][e].labelled
            /\ Written(cell[id][e], r, listing[id]).status = cell[id][e].status
      BY <1>0 DEF Written, Cell
    <3>5. QED BY <3>1, <3>2, <3>3, <3>4
  <2>5. cell'[id][e].by # 0 BY <2>3, <2>4
  <2>6. CASE r.kind = "init" BY <2>4, <2>5, <2>6
  <2>7. CASE r.kind # "init" BY <2>4, <2>5, <2>7, PhaseForward DEF Cells
  <2>8. QED BY <2>6, <2>7
<1>3. ASSUME NEW r \in inflight, NEW health \in Healths(r.ex),
             CurrenciesArrive(r, health), e = r.ex, cell[id][e].labelled,
             CurrencyOf[id] \in DOMAIN health,
             cell'[id][e] = [cell[id][e] EXCEPT !.status = health[CurrencyOf[id]]]
      PROVE  /\ cell'[id][e].by = cell[id][e].by /\ cell[id][e].by # 0
             /\ cell'[id][e].labelled <=> cell'[id][e].status # "undefined"
             /\ phase' = "running"
  <2>1. health[CurrencyOf[id]] \in Statuses \ {"undefined"} BY <1>3, HealthFacts
  <2>2. phase = "running" BY <1>3 DEF CurrenciesArrive, StartUp, TypeOK
  <2>3. cell[id][e].by # 0 BY <1>3 DEF Cells
  <2>4. QED BY <1>0, <1>3, <2>1, <2>2, <2>3, PhaseForward DEF Cell
<1>4. CASE cell'[id][e] = NoCell BY <1>4 DEF NoCell
<1>5. QED BY <1>1, <1>2, <1>3, <1>4, CellStep

\* No listing of another exchange has a key of the error object.
LEMMA JunkCellsNext ==
  ASSUME TypeOK, JunkCells, [Next]_vars
  PROVE  JunkCells'
<1> SUFFICES ASSUME NEW e \in Exchanges, NEW f \in Exchanges, NEW id \in Junk[e],
                    cell'[id][f].by > 0
             PROVE  f = e
  BY DEF JunkCells
<1>0. id \in Ids /\ cell[id][f] \in Cell BY JunkAssumption DEF TypeOK
<1>1. CASE cell'[id][f] = cell[id][f] BY <1>1 DEF JunkCells
<1>2. ASSUME NEW r \in inflight, NEW listing \in Listings(r.ex),
             id \in DOMAIN listing, f = r.ex
      PROVE  f = e
  <2>1. r.ex \in Exchanges BY DEF TypeOK, Request
  <2>2. QED BY <1>2, <2>1, ListingFacts
<1>3. ASSUME NEW x, cell'[id][f] = [cell[id][f] EXCEPT !.status = x] PROVE f = e
  BY <1>0, <1>3 DEF JunkCells, Cell
<1>4. CASE cell'[id][f] = NoCell BY <1>4 DEF NoCell
<1>5. QED BY <1>0, <1>1, <1>2, <1>3, <1>4, CellStep

-----------------------------------------------------------------------------
(* The safety properties, given the parts of the invariant.                *)

\* Once quoted, a cell stays quoted unless its row is cut.
LEMMA QuotedStays ==
  ASSUME TypeOK, [Next]_vars, NEW id \in Ids, NEW e \in Exchanges,
         cell[id][e].by > 0, ~RemoveAloneMarkets
  PROVE  cell'[id][e].by > 0
<1>0. cell[id][e] \in Cell BY DEF TypeOK
<1>1. CASE cell'[id][e] = cell[id][e] BY <1>1
<1>2. ASSUME NEW r \in inflight, NEW listing \in Listings(r.ex), id \in DOMAIN listing, e = r.ex,
             cell'[id][e] = Written(cell[id][e], r, listing[id])
      PROVE  cell'[id][e].by > 0
  <2>1. r \in Request BY DEF TypeOK
  <2>2. listing[id] \in {"price", "null"} BY <1>2, <2>1, ListingFacts DEF Request
  <2>3. cell'[id][e].by = r.no BY <1>0, <1>2, <2>1, <2>2, WrittenFacts
  <2>4. r.no > 0 BY <2>1 DEF Request
  <2>5. QED BY <2>3, <2>4
<1>3. ASSUME NEW x, cell'[id][e] = [cell[id][e] EXCEPT !.status = x]
      PROVE  cell'[id][e].by > 0
  BY <1>0, <1>3 DEF Cell
<1>4. CASE \E r \in inflight : \E listing \in Listings(r.ex) :
              /\ id \in DOMAIN listing /\ e = r.ex
              /\ cell'[id][e] = Written(cell[id][e], r, listing[id])
  BY <1>2, <1>4
<1>5. CASE \E r \in inflight : \E health \in Healths(r.ex) :
              cell'[id][e] = [cell[id][e] EXCEPT !.status = health[CurrencyOf[id]]]
  BY <1>3, <1>5
<1>6. QED BY <1>1, <1>4, <1>5, CellStep

\* The cut leaves comparable rows, and refreshes keep them so.
LEMMA KeptNext ==
  ASSUME TypeOK, StartUp, Cells, KeptMarketsAreComparable, [Next]_vars
  PROVE  KeptMarketsAreComparable'
<1> SUFFICES ASSUME phase' = "running", NEW id \in tickers'
             PROVE  \E e, f \in Exchanges : e # f /\ cell'[id][e].by > 0 /\ cell'[id][f].by > 0
  BY DEF KeptMarketsAreComparable
<1>0. id \in Ids BY NextType DEF TypeOK
<1>1. CASE RemoveAloneMarkets
  <2>1. id \in tickers /\ ~Alone(id) /\ cell'[id] = cell[id]
    BY <1>0, <1>1 DEF RemoveAloneMarkets
  <2>2. PICK e \in Exchanges, f \in Exchanges : Counted(id, e) /\ Counted(id, f) /\ e # f
    BY <2>1 DEF Alone
  <2>3. \A g \in Exchanges : Counted(id, g) => cell[id][g].by > 0
    <3>1. ASSUME NEW g \in Exchanges, Counted(id, g) PROVE cell[id][g].by # 0
      BY <1>0, <3>1 DEF Counted, Cells
    <3>2. \A g \in Exchanges : cell[id][g].by \in Nat
      BY <1>0, MaxSentAssumption DEF TypeOK, Cell
    <3>3. QED BY <3>1, <3>2
  <2>4. QED BY <2>1, <2>2, <2>3
<1>2. CASE ~RemoveAloneMarkets
  <2>1. phase = "running" BY <1>2, PhaseForward
  <2>2. id \in tickers BY <1>2, <2>1, TableStep DEF StartUp
  <2>3. PICK e \in Exchanges, f \in Exchanges :
          e # f /\ cell[id][e].by > 0 /\ cell[id][f].by > 0
    BY <2>1, <2>2 DEF KeptMarketsAreComparable
  <2>4. cell'[id][e].by > 0 /\ cell'[id][f].by > 0
    BY <1>0, <1>2, <2>3, QuotedStays
  <2>5. QED BY <2>3, <2>4
<1>3. QED BY <1>1, <1>2

\* A junk id is quoted by one exchange, so a comparable row is none.
LEMMA NoJunk ==
  ASSUME TypeOK, JunkCells, KeptMarketsAreComparable
  PROVE  NoJunkRows
<1> SUFFICES ASSUME phase = "running", NEW id \in tickers, NEW e \in Exchanges, id \in Junk[e]
             PROVE  FALSE
  BY DEF NoJunkRows, JunkIds
<1>1. PICK f \in Exchanges, g \in Exchanges :
        f # g /\ cell[id][f].by > 0 /\ cell[id][g].by > 0
  BY DEF KeptMarketsAreComparable
<1>2. f = e /\ g = e BY <1>1 DEF JunkCells
<1>3. QED BY <1>1, <1>2

\* After the cut nothing but a status changes in what the loads have set.
LEMMA FinalStep ==
  ASSUME TypeOK, StartUp, Cells, [Next]_vars, phase = "running"
  PROVE  /\ tickers' = tickers
         /\ lstId' = lstId
         /\ \A id \in Ids, e \in Exchanges :
              /\ cell'[id][e].labelled = cell[id][e].labelled
              /\ (cell'[id][e].status = "undefined") = (cell[id][e].status = "undefined")
<1>0. ~RemoveAloneMarkets BY DEF RemoveAloneMarkets
<1>1. tickers' = tickers /\ lstId' = lstId BY <1>0, TableStep DEF StartUp
<1>2. ASSUME NEW id \in Ids, NEW e \in Exchanges
      PROVE  /\ cell'[id][e].labelled = cell[id][e].labelled
             /\ (cell'[id][e].status = "undefined") = (cell[id][e].status = "undefined")
  <2>0. cell[id][e] \in Cell BY DEF TypeOK
  <2>1. CASE cell'[id][e] = cell[id][e] BY <2>1
  <2>2. ASSUME NEW r \in inflight, NEW listing \in Listings(r.ex),
               cell'[id][e] = Written(cell[id][e], r, listing[id])
        PROVE  /\ cell'[id][e].labelled = cell[id][e].labelled
               /\ cell'[id][e].status = cell[id][e].status
    <3>1. r.kind # "init" BY DEF StartUp
    <3>2. cell'[id][e] = [cell[id][e] EXCEPT !.by = r.no, !.ask = listing[id]]
      BY <2>2, <3>1 DEF Written
    <3>3. QED BY <2>0, <3>2 DEF Cell
  <2>3. ASSUME NEW r \in inflight, NEW health \in Healths(r.ex),
               cell[id][e].labelled, e = r.ex, CurrencyOf[id] \in DOMAIN health,
               cell'[id][e] = [cell[id][e] EXCEPT !.status = health[CurrencyOf[id]]]
        PROVE  /\ cell'[id][e].labelled = cell[id][e].labelled
               /\ cell'[id][e].status # "undefined" /\ cell[id][e].status # "undefined"
    <3>1. health[CurrencyOf[id]] # "undefined" BY <2>3, HealthFacts
    <3>2. cell'[id][e].status = health[CurrencyOf[id]]
            /\ cell'[id][e].labelled = cell[id][e].labelled
      BY <2>0, <2>3 DEF Cell
    <3>3. cell[id][e].status # "undefined" BY <2>3 DEF Cells
    <3>4. QED BY <3>1, <3>2, <3>3
  <2>4. CASE \E r \in inflight : \E listing \in Listings(r.ex) :
                cell'[id][e] = Written(cell[id][e], r, listing[id])
    BY <2>2, <2>4
  <2>5. CASE \E r \in inflight : \E health \in Healths(r.ex) :
                /\ cell[id][e].labelled /\ e = r.ex /\ CurrencyOf[id] \in DOMAIN health
                /\ cell'[id][e] = [cell[id][e] EXCEPT !.status = health[CurrencyOf[id]]]
    BY <2>3, <2>5
  <2>6. QED BY <1>0, <2>1, <2>4, <2>5, CellStep
<1>3. QED BY <1>1, <1>2

\* One turn gives all rows of a currency the same status.
LEMMA SameStatusNext ==
  ASSUME TypeOK, StartUp, Cells, SameCurrencySameStatus, [Next]_vars
  PROVE  SameCurrencySameStatus'
<1> SUFFICES ASSUME NEW id1 \in tickers', NEW id2 \in tickers', NEW e \in Exchanges,
                    cell'[id1][e].labelled, cell'[id2][e].labelled,
                    CurrencyOf[id1] = CurrencyOf[id2]
             PROVE  cell'[id1][e].status = cell'[id2][e].status
  BY DEF SameCurrencySameStatus
<1>0. id1 \in Ids /\ id2 \in Ids BY NextType DEF TypeOK
<1>1. CASE phase' # "running" BY <1>0, <1>1, CellsNext DEF Cells
<1>2. CASE RemoveAloneMarkets
  BY <1>0, <1>2 DEF RemoveAloneMarkets, SameCurrencySameStatus
<1>3. CASE phase' = "running" /\ ~RemoveAloneMarkets
  <2>1. phase = "running" BY <1>3, PhaseForward
  <2>2. /\ id1 \in tickers /\ cell[id1][e].labelled
        /\ id2 \in tickers /\ cell[id2][e].labelled
    BY <1>0, <2>1, FinalStep
  <2>3. cell[id1][e].status = cell[id2][e].status
    BY <2>2 DEF SameCurrencySameStatus
  <2>4. CASE \E r \in Request : \E health \in Healths(r.ex) : CurrenciesArrive(r, health)
    <3>1. PICK r \in Request : \E health \in Healths(r.ex) : CurrenciesArrive(r, health)
      BY <2>4
    <3>2. PICK health \in Healths(r.ex) : CurrenciesArrive(r, health) BY <3>1
    <3>3. ASSUME NEW id \in tickers, id \in Ids, cell[id][e].labelled
          PROVE  cell'[id][e].status = IF e = r.ex /\ CurrencyOf[id] \in DOMAIN health
                                       THEN health[CurrencyOf[id]] ELSE cell[id][e].status
      <4>1. cell[id] \in [Exchanges -> Cell] BY <3>3 DEF TypeOK
      <4>2. CASE e = r.ex /\ CurrencyOf[id] \in DOMAIN health
        <5>1. cell'[id] = [cell[id] EXCEPT ![r.ex].status = health[CurrencyOf[id]]]
          BY <3>2, <3>3, <4>2 DEF CurrenciesArrive
        <5>2. QED BY <4>1, <4>2, <5>1 DEF Cell
      <4>3. CASE ~(e = r.ex /\ CurrencyOf[id] \in DOMAIN health)
        <5>1. \/ cell'[id][e] = cell[id][e]
              \/ e = r.ex /\ CurrencyOf[id] \in DOMAIN health
          <6>1. \/ cell'[id] = cell[id]
                \/ /\ CurrencyOf[id] \in DOMAIN health
                   /\ cell'[id] = [cell[id] EXCEPT ![r.ex].status = health[CurrencyOf[id]]]
            BY <3>2, <3>3 DEF CurrenciesArrive
          <6>2. QED BY <4>1, <6>1
        <5>2. QED BY <4>3, <5>1
      <4>4. QED BY <4>2, <4>3
    <3>4. QED BY <1>0, <2>2, <2>3, <3>3
  <2>5. CASE ~ \E r \in Request : \E health \in Healths(r.ex) : CurrenciesArrive(r, health)
    <3>1. ASSUME NEW id \in Ids PROVE cell'[id][e].status = cell[id][e].status
      <4>0. cell[id][e] \in Cell BY DEF TypeOK
      <4>1. ASSUME NEW r \in inflight, NEW listing \in Listings(r.ex),
                   cell'[id][e] = Written(cell[id][e], r, listing[id])
            PROVE  cell'[id][e].status = cell[id][e].status
        <5>1. r.kind # "init" BY <2>1 DEF StartUp
        <5>2. QED BY <4>0, <4>1, <5>1 DEF Written, Cell
      <4>2. ASSUME NEW r \in inflight, NEW health \in Healths(r.ex), CurrenciesArrive(r, health)
            PROVE  FALSE
        BY <2>5, <4>2 DEF TypeOK
      <4>3. QED BY ZenonT(60), <1>3, <4>1, <4>2, CellStep
    <3>2. QED BY <1>0, <2>3, <3>1
  <2>6. QED BY <2>4, <2>5
<1>4. QED BY <1>1, <1>2, <1>3

\* What the Qryptos load labels it puts into lstId in the same turn.
LEMMA QryptosNext ==
  ASSUME TypeOK, QryptosIds, [Next]_vars
  PROVE  QryptosIds'
<1> SUFFICES ASSUME "Qryptos" \in Exchanges, NEW id \in Ids, cell'[id]["Qryptos"].labelled
             PROVE  id \in lstId'
  BY DEF QryptosIds
<1> DEFINE q == "Qryptos"
<1>0. cell[id][q] \in Cell BY DEF TypeOK
<1>1. ASSUME NEW r \in inflight, NEW listing \in Listings(r.ex), TickersArrive(r, listing),
             id \in DOMAIN listing, q = r.ex,
             cell'[id][q] = Written(cell[id][q], r, listing[id])
      PROVE  id \in lstId'
  <2>1. CASE r.kind = "init" BY <1>1, <2>1 DEF TickersArrive, ApplyListing
  <2>2. CASE r.kind # "init"
    <3>1. cell'[id][q].labelled <=> cell[id][q].labelled
      BY <1>0, <1>1, <2>2 DEF Written, Cell
    <3>2. lstId' = lstId BY <1>1, <2>2 DEF TickersArrive, ApplyListing
    <3>3. QED BY <3>1, <3>2 DEF QryptosIds
  <2>3. QED BY <2>1, <2>2
<1>2. lstId \subseteq lstId'
  BY TableStep DEF TickersArrive, ApplyListing, RemoveAloneMarkets
<1>3. CASE cell[id][q].labelled BY <1>2, <1>3 DEF QryptosIds
<1>4. CASE ~cell[id][q].labelled
  <2>1. ASSUME NEW x, cell'[id][q] = [cell[id][q] EXCEPT !.status = x] PROVE FALSE
    BY <1>0, <1>4, <2>1 DEF Cell
  <2>2. CASE \E r \in inflight : \E listing \in Listings(r.ex) :
               /\ TickersArrive(r, listing)
               /\ id \in DOMAIN listing /\ q = r.ex
               /\ cell'[id][q] = Written(cell[id][q], r, listing[id])
    BY <1>1, <2>2
  <2>3. ~(cell'[id][q] = cell[id][q] \/ cell'[id][q] = NoCell) BY <1>4 DEF NoCell
  <2>4. CASE \E r \in inflight : \E health \in Healths(r.ex) :
                cell'[id][q] = [cell[id][q] EXCEPT !.status = health[CurrencyOf[id]]]
    BY <2>1, <2>4
  <2>5. QED BY <2>2, <2>3, <2>4, CellStep
<1>5. QED BY <1>3, <1>4

-----------------------------------------------------------------------------
(* The theorems.                                                           *)

IInv ==
  /\ TypeOK
  /\ StartUp
  /\ Cells
  /\ JunkCells
  /\ QryptosIds
  /\ KeptMarketsAreComparable
  /\ SameCurrencySameStatus

\* Every reachable state satisfies the inductive invariant.
LEMMA Inductive == Spec => []IInv
<1>1. Init => IInv
  <2> SUFFICES ASSUME Init PROVE IInv OBVIOUS
  <2>1. TypeOK /\ StartUp /\ Cells /\ JunkCells
    BY InitType, StartUpInit, CellsInit
  <2>2. KeptMarketsAreComparable /\ SameCurrencySameStatus
    BY DEF Init, KeptMarketsAreComparable, SameCurrencySameStatus
  <2>3. QryptosIds BY DEF Init, NoRow, NoCell, QryptosIds
  <2>4. QED BY <2>1, <2>2, <2>3 DEF IInv
<1>2. IInv /\ [Next]_vars => IInv'
  BY NextType, StartUpNext, CellsNext, JunkCellsNext, QryptosNext,
     KeptNext, SameStatusNext DEF IInv
<1>3. QED BY <1>1, <1>2, PTL DEF Spec

\* Start-up is sequential: a load is never under way with anything else
\* (index.js:162-198).
THEOREM LoadsAreAlone == Spec => []LoadsAlone
<1>1. IInv => LoadsAlone BY DEF IInv, StartUp, TypeOK, LoadsAlone
<1>2. QED BY <1>1, Inductive, PTL

\* Every market served after the cut is quoted by two exchanges
\* (index.js:239-267).
THEOREM Comparable == Spec => []KeptMarketsAreComparable
<1>1. IInv => KeptMarketsAreComparable BY DEF IInv
<1>2. QED BY <1>1, Inductive, PTL

\* No row made of an error object is served after the cut (poloniex.js:19-69,
\* exmo.js:21-66, index.js:239-267).
THEOREM JunkIsCut == Spec => []NoJunkRows
<1>1. IInv => NoJunkRows BY NoJunk DEF IInv
<1>2. QED BY <1>1, Inductive, PTL

\* The markets of one currency have one status (getCurrencies of bittrex.js,
\* poloniex.js and hitbtc.js).
THEOREM OneStatusPerCurrency == Spec => []SameCurrencySameStatus
<1>1. IInv => SameCurrencySameStatus BY DEF IInv
<1>2. QED BY <1>1, Inductive, PTL

\* A labelled Qryptos row has a product id (qryptos.js:35-42, 120-121).
THEOREM QryptosRowsHaveIds == Spec => []LabelledQryptosRowsHaveAnId
<1>1. IInv => LabelledQryptosRowsHaveAnId
  BY DEF IInv, TypeOK, QryptosIds, LabelledQryptosRowsHaveAnId
<1>2. QED BY <1>1, Inductive, PTL

\* Rows and labels are final once the timers run (the `inizializza' branches
\* of every getTickers).
THEOREM FinalLabels == Spec => LabelsAreFinal
<1>1. IInv /\ [Next]_vars =>
        [phase = "running" =>
           /\ tickers' = tickers
           /\ lstId' = lstId
           /\ \A id \in Ids, e \in Exchanges :
                /\ cell'[id][e].labelled = cell[id][e].labelled
                /\ (cell'[id][e].status = "undefined") = (cell[id][e].status = "undefined")]_vars
  BY FinalStep DEF IInv
<1>2. QED BY <1>1, Inductive, PTL DEF Spec, LabelsAreFinal

=============================================================================
