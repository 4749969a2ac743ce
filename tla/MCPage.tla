------------------------------- MODULE MCPage -------------------------------
(***************************************************************************)
(* The three parts of the ticker page, with values for their constants:    *)
(* the table and its polls, the cells of a row, and the walk over a book   *)
(* in the popup.  They share no state, so a behaviour is one of one part.  *)
(* What is named after no part is of the table.                            *)
(***************************************************************************)
EXTENDS Integers, TableClient, Spread, OrderBookWalk

VARIABLE part   \* the part that runs

-----------------------------------------------------------------------------
MCIds == {"BTC-ETH", "BTC-LTC", "BTC-XRP"}

MCExchanges == {"bittrex", "poloniex", "exmo"}
MCGuarded == {"bittrex", "poloniex"}
MCNoPrice == -1

\* An unlisted market; books with both sides, one of which bids more than the
\* other asks; a side that is empty (null or 0); and a book that is crossed, of
\* a wallet that is locked.
MCQuotes ==
  {[ask |-> MCNoPrice, bid |-> MCNoPrice, status |-> "other"]} \cup
  {[ask |-> p[1], bid |-> p[2], status |-> "ok"] :
     p \in {<<2, 1>>, <<5, 4>>, <<2, MCNoPrice>>, <<0, 1>>}} \cup
  {[ask |-> 1, bid |-> 2, status |-> "other"]}

\* Asks, with rising rates, and bids, with falling ones; equal rates; rates
\* below and above Scale; a level far from the one before; books shorter than
\* what is sent, as long, one level longer (the last is lost), and longer still.
MCBooks ==
  LET ladders == {<<2, 3, 5, 7, 9>>, <<3, 4, 4, 9, 9>>, <<12, 13, 99, 120, 121>>,
                  <<7, 5, 3, 2, 1>>, <<17, 9, 9, 4, 3>>}
      levels(rs, qs) == [i \in 1..5 |-> [Rate |-> rs[i], Quantity |-> qs[i]]]
  IN {SubSeq(levels(rs, qs), 1, n) : rs \in ladders, qs \in [1..5 -> {1, 3}], n \in 0..5}

MCInputs == {0, 1, 2, 3, 4, 5, 6, 7, 10}

-----------------------------------------------------------------------------
pageVars == <<part, vars, cellsVars, walkVars>>

\* The parts that do not run have one state each.
PageInit ==
  /\ part \in {"table", "cells", "walk"}
  /\ Init /\ (part # "table" => ~prompt)
  /\ CellsInit
  /\ WalkInit /\ (part # "walk" => book = <<>>)

TableOnly == part = "table" /\ UNCHANGED <<part, cellsVars, walkVars>>
CellsOnly == part = "cells" /\ UNCHANGED <<part, vars, walkVars>>
WalkOnly  == part = "walk" /\ UNCHANGED <<part, vars, cellsVars>>

PageNext ==
  \/ TableOnly /\ Next
  \/ CellsOnly /\ CellsNext
  \/ WalkOnly /\ WalkNext

\* The table's fairness, where it runs.
PageSpec ==
  /\ PageInit /\ [][PageNext]_pageVars
  /\ WF_pageVars(TableOnly /\ Poll)
  /\ SF_pageVars(TableOnly /\ Serve)
  /\ SF_pageVars(TableOnly /\ \E answer \in wire : Arrive(answer))
=============================================================================
