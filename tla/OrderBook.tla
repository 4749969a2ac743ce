----------------------------- MODULE OrderBook -----------------------------
(***************************************************************************)
(* The order-book service: a click in a browser opens a popup and sends    *)
(* /getorderbook; index.js puts the request in the queue of its exchange;  *)
(* one timer per exchange takes one request per tick, fetches the book and *)
(* writes the response when the fetch is over.  Fetches of different ticks *)
(* overlap, responses travel on connections of their own, and a request    *)
(* whose fetch fails is never answered.                                    *)
(*                                                                         *)
(* A request is known by its place in `asked', the order of arrival at the *)
(* server.  A market here is a pair together with a side (bid or ask).     *)
(***************************************************************************)
EXTENDS Naturals, Sequences

CONSTANTS
  Exchanges,        \* exchanges with a queue, by their names in index.js
  Popups,           \* what can be clicked: records [client, ex, market]
  Products,         \* markets that Qryptos lists when init() loads it
  FatalRejections,  \* TRUE: an unhandled rejection ends the process (Node >= 15)
  MaxAsks           \* bound: requests that reach the server

AllExchanges ==
  {"Bittrex", "Poloniex", "Binance", "Hitbtc", "Bitfinex", "Exmo", "Qryptos"}

ASSUME ExchangesAssumption == Exchanges \subseteq AllExchanges

ASSUME PopupsAssumption ==
  \A p \in Popups : p = [client |-> p.client, ex |-> p.ex, market |-> p.market]

ASSUME BoundsAssumption == MaxAsks \in Nat /\ FatalRejections \in BOOLEAN

VARIABLES
  asked,     \* the popups whose requests have arrived, in order of arrival
  queue,     \* queue[e]: numbers of the requests waiting for e's timer
  fetching,  \* books being fetched: the request and what it was taken for
  replies,   \* responses written, not yet seen by the browser
  done,      \* responses the browser's callback has run on
  dropped,   \* requests that will never be answered
  popup,     \* popup[p]: open or not, and the book it shows
  lstId,     \* markets in qryptos.js's list of product ids
  alive      \* FALSE once an exception has left a callback

vars == <<asked, queue, fetching, replies, done, dropped, popup, lstId, alive>>

-----------------------------------------------------------------------------
Markets == {p.market : p \in Popups} \cup Products

Book   == [ex : Exchanges, market : Markets]
NoBook == [ex |-> "none", market |-> "none"]

Fetch == [no : 1..MaxAsks, book : Book]

\* arr: the list of levels, or absent from the JSON.
Reply == [no : 1..MaxAsks, book : Book, arr : {"levels", "undefined"}]

\* The callback leaves `data' undefined on a 2xx status that is not 200; these
\* send it on, the others call data.map on it after the await.
SendsUndefined == {"Bittrex", "Bitfinex", "Qryptos"}

Elements(s) == {s[i] : i \in 1..Len(s)}

Numbers(responses) == {r.no : r \in responses}

TypeOK ==
  /\ asked \in Seq(Popups) /\ Len(asked) <= MaxAsks
  /\ queue \in [Exchanges -> Seq(1..Len(asked))]
  /\ fetching \subseteq Fetch
  /\ replies \subseteq Reply
  /\ done \subseteq Reply
  /\ dropped \subseteq 1..MaxAsks
  /\ popup \in [Popups -> [open : BOOLEAN, shows : Book \cup {NoBook}]]
  /\ lstId \subseteq Markets
  /\ alive \in BOOLEAN

-----------------------------------------------------------------------------
Init ==
  /\ asked = <<>>
  /\ queue = [e \in Exchanges |-> <<>>]
  /\ fetching = {}
  /\ replies = {}
  /\ done = {}
  /\ dropped = {}
  /\ popup = [p \in Popups |-> [open |-> FALSE, shows |-> NoBook]]
  /\ lstId = {}
  /\ alive = TRUE

\* qryptos.js fills lstId when init() gets to it; the queues run before that.
ProductsLoaded ==
  /\ alive
  /\ lstId # Products
  /\ lstId' = Products
  /\ UNCHANGED <<asked, queue, fetching, replies, done, dropped, popup, alive>>

\* getOrderBook: the queue a request goes to, if it names an exchange exactly.
Route(e) == {f \in Exchanges : f = e}

\* A click on a price: a popup that is open is closed, otherwise it opens
\* with a spinner and the request is sent.
Click(p) ==
  /\ alive
  /\ \/ /\ popup[p].open
        /\ popup' = [popup EXCEPT ![p] = [open |-> FALSE, shows |-> NoBook]]
        /\ UNCHANGED <<asked, queue, dropped>>
     \/ /\ ~popup[p].open
        /\ Len(asked) < MaxAsks
        /\ popup' = [popup EXCEPT ![p].open = TRUE]
        /\ asked' = Append(asked, p)
        /\ queue' = [e \in Exchanges |-> IF e \in Route(p.ex)
                                         THEN Append(queue[e], Len(asked'))
                                         ELSE queue[e]]
        /\ dropped' = IF Route(p.ex) = {} THEN dropped \cup {Len(asked')} ELSE dropped
  /\ UNCHANGED <<fetching, replies, done, lstId, alive>>

\* Mutated form of Tick: a tick waits for the fetch of the one before.
TickOneAtATime(e) ==
  /\ alive
  /\ queue[e] # <<>>
  /\ \A f \in fetching : f.book.ex # e
  /\ queue' = [queue EXCEPT ![e] = Tail(@)]
  /\ fetching' = fetching \cup
       {[no |-> Head(queue[e]), book |-> [ex |-> e, market |-> asked[Head(queue[e])].market]]}
  /\ UNCHANGED <<asked, replies, done, dropped, popup, lstId, alive>>

\* Mutated form of Tick: the last element is read, the first is removed.
TickReadsLast(e) ==
  /\ alive
  /\ queue[e] # <<>>
  /\ queue' = [queue EXCEPT ![e] = Tail(@)]
  /\ fetching' = fetching \cup
       {[no |-> queue[e][Len(queue[e])],
         book |-> [ex |-> e, market |-> asked[queue[e][Len(queue[e])]].market]]}
  /\ UNCHANGED <<asked, replies, done, dropped, popup, lstId, alive>>

\* Mutated form of Tick: pop in place of shift.
TickPops(e) ==
  /\ alive
  /\ queue[e] # <<>>
  /\ queue' = [queue EXCEPT ![e] = SubSeq(@, 1, Len(@) - 1)]
  /\ fetching' = fetching \cup
       {[no |-> queue[e][Len(queue[e])],
         book |-> [ex |-> e, market |-> asked[queue[e][Len(queue[e])]].market]]}
  /\ UNCHANGED <<asked, replies, done, dropped, popup, lstId, alive>>

\* The timer of exchange e.  For Qryptos pair[0] is undefined when the
\* market is not in lstId: the async function rejects, nothing is sent.
Tick(e) ==
  /\ alive
  /\ queue[e] # <<>>
  /\ queue' = [queue EXCEPT ![e] = Tail(@)]
  /\ LET no     == Head(queue[e])
         market == asked[no].market
     IN IF e = "Qryptos" /\ market \notin lstId
        THEN /\ dropped' = dropped \cup {no}
             /\ alive' = ~FatalRejections
             /\ UNCHANGED fetching
        ELSE /\ fetching' = fetching \cup
                  {[no |-> no, book |-> [ex |-> e, market |-> market]]}
             /\ UNCHANGED <<dropped, alive>>
  /\ UNCHANGED <<asked, replies, done, popup, lstId>>

\* Mutated form of Respond: `data' is shared by the ticks, so the response
\* describes the request taken last.
RespondShared(f, arr) ==
  LET last == CHOOSE g \in fetching : \A h \in fetching : g.no >= h.no
  IN [no |-> f.no, book |-> last.book, arr |-> arr]

\* The response to f's request.
Respond(f, arr) == [no |-> f.no, book |-> f.book, arr |-> arr]

\* The fetch is over with status 200 and a book, which may be empty; or, for
\* some exchanges, with another 2xx status.
BookArrives(f, arr) ==
  /\ alive
  /\ f \in fetching
  /\ arr = "levels" \/ f.book.ex \in SendsUndefined
  /\ fetching' = fetching \ {f}
  /\ replies' = replies \cup {Respond(f, arr)}
  /\ UNCHANGED <<asked, queue, done, dropped, popup, lstId, alive>>

\* Connection error, a status outside 2xx, or for the other exchanges a 2xx
\* that is not 200: the tick's async function rejects before res.send.
FetchFails(f) ==
  /\ alive
  /\ f \in fetching
  /\ fetching' = fetching \ {f}
  /\ dropped' = dropped \cup {f.no}
  /\ alive' = ~FatalRejections
  /\ UNCHANGED <<asked, queue, replies, done, popup, lstId>>

\* The body is not JSON or holds no book: the callback throws, unguarded in
\* every exchange, and the process ends.
FetchThrows(f) ==
  /\ alive
  /\ f \in fetching
  /\ alive' = FALSE
  /\ UNCHANGED <<asked, queue, fetching, replies, done, dropped, popup, lstId>>

\* Mutated form of Show: the popup is filled without asking for arr.
ShowUnchecked(r) ==
  /\ r \in replies
  /\ replies' = replies \ {r}
  /\ done' = done \cup {r}
  /\ popup' = [popup EXCEPT ![asked[r.no]].shows =
       [r.book EXCEPT !.market = IF r.arr = "levels" THEN @ ELSE r.arr]]
  /\ UNCHANGED <<asked, queue, fetching, dropped, lstId, alive>>

\* Mutated form of Show: only the first response for a popup is written to it.
ShowFirstOnly(r) ==
  /\ r \in replies
  /\ replies' = replies \ {r}
  /\ done' = done \cup {r}
  /\ popup' = IF /\ popup[asked[r.no]].open
                 /\ r.arr = "levels"
                 /\ \A s \in done : asked[s.no] # asked[r.no]
              THEN [popup EXCEPT ![asked[r.no]].shows = r.book]
              ELSE popup
  /\ UNCHANGED <<asked, queue, fetching, dropped, lstId, alive>>

\* The browser's callback: it fills the popup of that name if there is one
\* (even one reopened since), and throws if arr is missing.
Show(r) ==
  LET p == asked[r.no]
  IN /\ r \in replies
     /\ replies' = replies \ {r}
     /\ done' = done \cup {r}
     /\ popup' = IF popup[p].open /\ r.arr = "levels"
                 THEN [popup EXCEPT ![p].shows = r.book]
                 ELSE popup
     /\ UNCHANGED <<asked, queue, fetching, dropped, lstId, alive>>

Next ==
  \/ ProductsLoaded
  \/ \E p \in Popups : Click(p)
  \/ \E e \in Exchanges : Tick(e)
  \/ \E f \in fetching :
       \/ \E arr \in {"levels", "undefined"} : BookArrives(f, arr)
       \/ FetchFails(f)
       \/ FetchThrows(f)
  \/ \E r \in replies : Show(r)

Spec == Init /\ [][Next]_vars

\* The timers fire.  Nothing is assumed of the exchanges: the code sets no
\* timeout on a fetch.
TimersFire == \A e \in Exchanges : WF_vars(Tick(e))

FairSpec == Spec /\ TimersFire

-----------------------------------------------------------------------------
(* Properties.                                                             *)

Queued == UNION {Elements(queue[e]) : e \in Exchanges}

\* Every request that arrived, and no other, is in exactly one place: waiting
\* in a queue, being fetched, answered, seen, or dropped.  So none is answered
\* twice and none goes missing (index.js:49-73 and the start of each timer).
EachRequestInOnePlace ==
  LET places == <<Queued, Numbers(fetching), Numbers(replies), Numbers(done), dropped>>
  IN /\ \A no \in 1..MaxAsks : no <= Len(asked) <=> \E i \in 1..5 : no \in places[i]
     /\ \A i, j \in 1..5 : i # j => places[i] \cap places[j] = {}
     /\ \A f, g \in fetching : f.no = g.no => f = g
     /\ \A r, s \in replies \cup done : r.no = s.no => r = s

\* An exchange's requests leave its queue in the order they arrived in, and
\* a queue holds only requests for its exchange.
QueuesInOrder ==
  \A e \in Exchanges :
    /\ \A i \in 1..Len(queue[e]) : asked[queue[e][i]].ex = e
    /\ \A i, j \in 1..Len(queue[e]) : i < j => queue[e][i] < queue[e][j]
    /\ \A no \in 1..Len(asked) :
         asked[no].ex = e /\ no \notin Elements(queue[e]) =>
           \A i \in 1..Len(queue[e]) : no < queue[e][i]

\* A popup shows the book of its own exchange and market, whatever other
\* fetches were under way and in whatever order they ended.
ShownBookIsItsOwn ==
  \A p \in Popups :
    popup[p].shows # NoBook => popup[p].shows = [ex |-> p.ex, market |-> p.market]

\* An open popup keeps its spinner only while the last request it sent is on
\* its way, was dropped, or was answered without a list.
SpinnerHasAReason ==
  \A p \in Popups :
    popup[p].open /\ popup[p].shows = NoBook =>
      \E no \in 1..Len(asked) :
        /\ asked[no] = p
        /\ \A later \in (no + 1)..Len(asked) : asked[later] # p
        /\ \A r \in done : r.no = no => r.arr = "undefined"

\* A request waits only for the requests before it in the same queue: it is
\* taken even if no exchange ever answers a fetch, unless the process ends.
QueuedIsTaken == \A no \in 1..MaxAsks : no \in Queued ~> (no \notin Queued \/ ~alive)

-----------------------------------------------------------------------------
(* What the service promises, as an abstract specification.                *)

\* A response is promised for good once it is written.
Outcome ==
  [no \in 1..MaxAsks |->
     CASE no \in dropped -> [is |-> "dropped", book |-> NoBook]
       [] \E r \in replies \cup done : r.no = no ->
            [is |-> "answered",
             book |-> (CHOOSE r \in replies \cup done : r.no = no).book]
       [] no \in 1..Len(asked) /\ no \notin dropped
            /\ (\A r \in replies \cup done : r.no # no) ->
            [is |-> "pending", book |-> NoBook]
       [] OTHER -> [is |-> "unasked", book |-> NoBook]]

Service == INSTANCE BookService WITH outcome <- Outcome

\* index.js and the timers implement the service.
ImplementsService == Service!Spec
=============================================================================
