---------------------------- MODULE TableClient ----------------------------
(***************************************************************************)
(* The ticker page: every 3 s it keeps the last answer of /tickers as      *)
(* prevTable, asks again, and colours each quote of row i by comparing it  *)
(* with row i of prevTable.  The server's table changes its rows while it  *)
(* loads, is cut once, and starts anew when the process is restarted: then *)
(* row i is another market than before, or was not there before, and a     *)
(* cell that looks at it throws.                                           *)
(*                                                                         *)
(* The server is the environment here: Tickers shows that its rows change  *)
(* in no other way.  A refresh of quotes is a new version of the table.    *)
(***************************************************************************)
EXTENDS Naturals, FiniteSets, FiniteSetsExt, Sequences, SequencesExt

CONSTANTS
  Ids,          \* markets the server may list
  MaxVersion,   \* bound: changes of the server's table
  MaxRestarts   \* bound: restarts of the server

ASSUME BoundsAssumption ==
  MaxVersion \in Nat /\ MaxRestarts \in Nat

VARIABLES
  prompt,  \* the network is such that an answer comes before the next poll
  table,   \* the server's table: a snapshot, as it would be answered now
  wire,    \* the page's requests: Asked, or the answer under way
  json,    \* the last answer received, table.ajax.json()
  prev,    \* prevTable
  data,    \* rows held by the page, and what their quotes were compared with
  dom      \* the same, as drawn

vars == <<prompt, table, wire, json, prev, data, dom>>

-----------------------------------------------------------------------------
Listings == SeqOf(Ids, Cardinality(Ids))

\* bids: the markets of which some cell is compared, those with a bid of an
\* exchange other than Qryptos; at: version; life: restarts before it; whole: the
\* cut is done.
Snapshot ==
  [rows : Listings, bids : SUBSET Ids, at : 0..MaxVersion,
   life : 0..MaxRestarts, whole : BOOLEAN]

Empty == [rows |-> <<>>, bids |-> {}, at |-> 0, life |-> 0, whole |-> FALSE]
None  == [rows |-> <<>>, none |-> TRUE]
Asked == [asked |-> TRUE]

Drawing == [now : Snapshot, base : Snapshot \cup {None}]

TypeOK ==
  /\ prompt \in BOOLEAN
  /\ table \in Snapshot
  /\ wire \subseteq Snapshot \cup {Asked}
  /\ json \in Snapshot \cup {None}
  /\ prev \in Snapshot \cup {None}
  /\ data \in Drawing
  /\ dom \in Drawing

-----------------------------------------------------------------------------
(* The server.                                                             *)

Changes(rows, bids, whole) ==
  /\ table.at < MaxVersion
  /\ table' = [table EXCEPT !.rows = rows, !.bids = bids, !.whole = whole, !.at = @ + 1]
  /\ UNCHANGED <<prompt, wire, json, prev, data, dom>>

\* A load writes a market to its row, which it appends if it does not find it.
\* The market may have no bid, or one of Qryptos.
Load(id, bids) ==
  /\ ~table.whole
  /\ Changes(IF Contains(table.rows, id) THEN table.rows ELSE Append(table.rows, id),
             table.bids \cup bids, FALSE)

\* RemoveAloneMarkets splices rows out; the others keep their order.
Cut(kept) ==
  /\ ~table.whole
  /\ ToSet(kept) \subseteq ToSet(table.rows)
  /\ \A j \in DOMAIN kept : \A i \in 1..(j - 1) :
       \E l \in DOMAIN table.rows : \E k \in 1..(l - 1) :
         kept[i] = table.rows[k] /\ kept[j] = table.rows[l]
  /\ Changes(kept, table.bids \cap ToSet(kept), TRUE)

\* A refresh writes quotes into the rows that are there; bids come and go.
Refresh(bids) ==
  /\ table.whole
  /\ bids \subseteq ToSet(table.rows)
  /\ Changes(table.rows, bids, TRUE)

\* The process ends and is started again.  Open requests are lost with it.
Restart ==
  /\ table.life < MaxRestarts
  /\ table.at < MaxVersion
  /\ table' = [Empty EXCEPT !.at = table.at + 1, !.life = table.life + 1]
  /\ wire' = {}
  /\ UNCHANGED <<prompt, json, prev, data, dom>>

-----------------------------------------------------------------------------
(* The page and its requests.                                              *)

\* The page is opened: DataTables sends the first request.
Init ==
  /\ prompt \in BOOLEAN
  /\ table = Empty
  /\ wire = {Asked}
  /\ json = None
  /\ prev = None
  /\ data = [now |-> Empty, base |-> None]
  /\ dom = data

\* Mutated form of Poll: the request before is not aborted.
PollKeepsOld ==
  /\ json # None
  /\ prompt => wire = {}
  /\ prev' = json
  /\ wire' = wire \cup {Asked}
  /\ UNCHANGED <<prompt, table, json, data, dom>>

\* Mutated form of Poll: prevTable is what is drawn, not the last answer.
PollKeepsDrawn ==
  /\ json # None
  /\ prompt => wire = {}
  /\ prev' = dom.now
  /\ wire' = {Asked}
  /\ UNCHANGED <<prompt, table, json, data, dom>>

\* The 3 s interval.  Before the first answer json.data throws and nothing
\* is sent; afterwards ajax.reload aborts a request that is still open.
Poll ==
  /\ json # None
  /\ prompt => wire = {}
  /\ prev' = json
  /\ wire' = {Asked}
  /\ UNCHANGED <<prompt, table, json, data, dom>>

\* /tickers: the table as it is when the request is handled.
Serve ==
  /\ Asked \in wire
  /\ wire' = (wire \ {Asked}) \cup {table}
  /\ UNCHANGED <<prompt, table, json, prev, data, dom>>

\* Rows of an answer in which compare reads prevTable[row].x of a row prevTable
\* does not have, and throws.  Cells without a bid return before they compare,
\* and the column of Qryptos is none compare looks up.
Throwing(answer) ==
  IF prev = None THEN {}
  ELSE {i \in DOMAIN answer.rows : i \notin DOMAIN prev.rows /\ answer.rows[i] \in answer.bids}

\* The rows an answer puts into the page: at the first that throws, the row is
\* left half-built and those after it are not added.
Filled(answer) ==
  IF Throwing(answer) = {} THEN answer.rows
  ELSE SubSeq(answer.rows, 1, Min(Throwing(answer)) - 1)

\* Mutated form of Arrive: json is kept back until the rows are drawn.
ArriveJsonLast(answer) ==
  /\ answer \in wire \ {Asked}
  /\ wire' = wire \ {answer}
  /\ data' = [now |-> [answer EXCEPT !.rows = Filled(answer)], base |-> prev]
  /\ IF Filled(answer) = answer.rows
       THEN json' = answer /\ dom' = data'
       ELSE UNCHANGED <<json, dom>>
  /\ UNCHANGED <<prompt, table, prev>>

\* The answer: it becomes json, the rows are replaced and, if no cell threw,
\* drawn.
Arrive(answer) ==
  /\ answer \in wire \ {Asked}
  /\ wire' = wire \ {answer}
  /\ json' = answer
  /\ data' = [now |-> [answer EXCEPT !.rows = Filled(answer)], base |-> prev]
  /\ dom' = IF Filled(answer) = answer.rows THEN data' ELSE dom
  /\ UNCHANGED <<prompt, table, prev>>

\* A request fails.  DataTables says so and leaves everything as it is.
Fails ==
  /\ \E request \in wire : wire' = wire \ {request}
  /\ UNCHANGED <<prompt, table, json, prev, data, dom>>

\* refreshDatatable, hidePair, delistHiddenPair, the lock button: the rows held
\* are drawn.  The half-built row a throw left behind throws again, as the
\* filter renders it, until prevTable has been replaced.
Redraw ==
  /\ json # None => data.now.rows = json.rows \/ prev # data.base
  /\ dom' = data
  /\ UNCHANGED <<prompt, table, wire, json, prev, data>>

Next ==
  \/ \E id \in Ids : \E bids \in SUBSET {id} : Load(id, bids)
  \/ \E kept \in Listings : Cut(kept)
  \/ \E bids \in SUBSET Ids : Refresh(bids)
  \/ Restart
  \/ Poll
  \/ Serve
  \/ \E answer \in wire : Arrive(answer)
  \/ Fails
  \/ Redraw

Spec == Init /\ [][Next]_vars

\* The interval fires, the server answers, and of the answers to ever new
\* requests not all fail.
Fairness ==
  /\ WF_vars(Poll)
  /\ SF_vars(Serve)
  /\ SF_vars(\E answer \in wire : Arrive(answer))

FairSpec == Spec /\ Fairness

-----------------------------------------------------------------------------
(* Properties.                                                             *)

\* Rows are matched by index (table-dev.js:748-804), so a row that has moved in a
\* load, the cut or a restart is compared with another market, and a row that is
\* new may throw.  That is over with the next answer, whatever polls, failures
\* and exceptions came between: a row that was there in the answer before is
\* drawn, and if it is the same market, it has been compared with itself.
PlacedRowsAreCompared ==
  [][data' # data /\ json # None =>
       \A i \in DOMAIN json.rows \cap DOMAIN json'.rows :
         /\ i \in DOMAIN data'.now.rows
         /\ json'.rows[i] = json.rows[i] => data'.base.rows[i] = data'.now.rows[i]]_vars

\* The page never goes back to an older table, though polls overlap: an open
\* request is aborted before the next one is sent.
NeverGoesBack ==
  [][dom'.now.at >= dom.now.at /\ (json # None => json'.at >= json.at)]_vars

\* If answers come before the next poll, a page that has had its first one ends
\* up with the server's rows, and with the colours of that table, whatever loads,
\* cuts, restarts and failed requests came before.
CatchesUp ==
  <>[](prompt /\ json # None =>
         dom.now.rows = table.rows /\ dom.base.rows = table.rows)
=============================================================================
