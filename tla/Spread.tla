------------------------------- MODULE Spread -------------------------------
(***************************************************************************)
(* One row of the ticker page: the percentage between the lowest ask and   *)
(* the highest bid, and the coloured dots on the cells that have them.     *)
(* The percentage comes from getMin and getMax, a dot from low or high     *)
(* with a guard in the cell of its own, all with the checkboxes and the    *)
(* lock button as they are when the row is rendered.  DataTables keeps     *)
(* rendered cells until the rows are replaced, so a click changes what     *)
(* counts but, until the next answer, nothing of what is drawn.            *)
(***************************************************************************)
EXTENDS Integers, FiniteSets, FiniteSetsExt

CONSTANTS
  Exchanges,   \* the columns
  Guarded,     \* those whose cell looks at the lock button itself (not Exmo)
  Quotes,      \* what a cell may hold; status "other" is locked, delayed or undefined
  NoPrice      \* an undefined or null price

ASSUME QuotesAssumption ==
  /\ IsFiniteSet(Exchanges)
  /\ Guarded \subseteq Exchanges
  /\ \A q \in Quotes : /\ {q.ask, q.bid} \subseteq Nat \cup {NoPrice}
                       /\ q.status \in {"ok", "other"}

VARIABLES
  row,       \* the quotes of the row, per exchange
  checked,   \* exchanges whose checkbox is set
  exclude,   \* the lock button is pressed
  drawn      \* what the page shows: the row, and what was rendered from it

cellsVars == <<row, checked, exclude, drawn>>

-----------------------------------------------------------------------------
(* The operators of the page, over a row r, checkboxes c and lock button x. *)

Counts(r, c, x, e) == e \in c /\ (x => r[e].status = "ok")

Asks(r, c, x) == {r[e].ask : e \in {f \in Exchanges : Counts(r, c, x, f)}} \ {NoPrice}
Bids(r, c, x) == {r[e].bid : e \in {f \in Exchanges : Counts(r, c, x, f)}} \ {NoPrice}

\* Mutated form of getMin: locked exchanges count.
getMinUnlocked(r, c, x) ==
  IF Asks(r, c, FALSE) = {} THEN 0 ELSE Min(Asks(r, c, FALSE))

getMin(r, c, x) == IF Asks(r, c, x) = {} THEN 0 ELSE Min(Asks(r, c, x))
getMax(r, c, x) == IF Bids(r, c, x) = {} THEN 0 ELSE Max(Bids(r, c, x))

\* In whole per cents; the page has fractions.
Percentage(min, max) == IF min = 0 \/ max = 0 THEN 0 ELSE (100 * max) \div min - 100

\* Math.min of nothing is Infinity, which no price is equal to.
low(r, c, x, e)  == e \in c /\ Asks(r, c, x) # {} /\ Min(Asks(r, c, x)) = r[e].ask
high(r, c, x, e) == e \in c /\ Bids(r, c, x) # {} /\ Max(Bids(r, c, x)) = r[e].bid

\* The cells that may have a dot: a cell without a bid is "-", and a guarded
\* one has none when the button excludes it.
Dotted(r, x) ==
  {e \in Exchanges : /\ r[e].bid # NoPrice
                     /\ ~(e \in Guarded /\ r[e].status # "ok" /\ x)}

Render(r, c, x) ==
  LET min == getMin(r, c, x)
      max == getMax(r, c, x)
  IN [row |-> r, checked |-> c, exclude |-> x, min |-> min, max |-> max,
      percentage |-> Percentage(min, max),
      lows  |-> {e \in Dotted(r, x) : low(r, c, x, e)},
      highs |-> {e \in Dotted(r, x) : high(r, c, x, e)}]

-----------------------------------------------------------------------------
CellsInit ==
  /\ row \in {[e \in Exchanges |-> q] : q \in {p \in Quotes : p.bid = NoPrice /\ p.ask = NoPrice}}
  /\ checked = Exchanges
  /\ exclude = FALSE
  /\ drawn = Render(row, checked, exclude)

\* An answer of /tickers in which one exchange's quote is new.
Answer(e, q) ==
  /\ row' = [row EXCEPT ![e] = q]
  /\ drawn' = Render(row', checked, exclude)
  /\ UNCHANGED <<checked, exclude>>

\* exchange(): the checkbox and the column together.
Check(e) ==
  /\ checked' = IF e \in checked THEN checked \ {e} ELSE checked \cup {e}
  /\ UNCHANGED <<row, exclude, drawn>>

ToggleLock ==
  /\ exclude' = ~exclude
  /\ UNCHANGED <<row, checked, drawn>>

CellsNext ==
  \/ \E e \in Exchanges, q \in Quotes : Answer(e, q)
  \/ \E e \in Exchanges : Check(e)
  \/ ToggleLock

CellsSpec == CellsInit /\ [][CellsNext]_cellsVars

-----------------------------------------------------------------------------
(* Properties.                                                             *)

Counted == {e \in Exchanges : Counts(drawn.row, drawn.checked, drawn.exclude, e)}

\* The dots and the percentage are computed apart (table-dev.js:867-989) and
\* agree: a dot is on a price the percentage was computed from, there is one
\* for the highest bid, and one for the lowest ask unless the exchange that
\* asks it bids nothing and its cell is "-".
DotsShowTheSpread ==
  /\ \A e \in drawn.lows : drawn.row[e].ask = drawn.min
  /\ \A e \in drawn.highs : drawn.row[e].bid = drawn.max
  /\ drawn.max # 0 => drawn.highs # {}
  /\ drawn.min # 0 /\ drawn.lows = {} =>
       \E e \in Counted : drawn.row[e].ask = drawn.min /\ drawn.row[e].bid = NoPrice

\* A gain is one the user can take: of exchanges that count, one asks less
\* than another, with a green dot, bids, and neither price is the 0 of an empty
\* side.  They are two, unless an exchange bids more than it asks.
Crossed(q) == NoPrice \notin {q.ask, q.bid} /\ q.bid > q.ask

GainNeedsTwoExchanges ==
  drawn.percentage > 0 =>
    \E e \in Counted, f \in drawn.highs :
      /\ drawn.row[e].ask \in Nat \ {0}
      /\ drawn.row[f].bid > drawn.row[e].ask
      /\ (\A g \in Counted : ~Crossed(drawn.row[g])) => e # f
=============================================================================
