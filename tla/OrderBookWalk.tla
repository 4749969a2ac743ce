---------------------------- MODULE OrderBookWalk ----------------------------
(***************************************************************************)
(* What a popup computes from the book it has: the server sends the first  *)
(* levels of the exchange's book, and the two fields of the popup turn an  *)
(* amount into the price of taking it and a price into the amount it buys, *)
(* by walking the levels and colouring the rows walked over.               *)
(*                                                                         *)
(* Amounts and prices are whole numbers of the last digit the fields show, *)
(* and a rate is a number of Scale-ths, so that a price is rounded.        *)
(***************************************************************************)
EXTENDS Integers, Sequences, FiniteSets, FiniteSetsExt

CONSTANTS
  Books,       \* sequences of levels an exchange may answer, best first
  Inputs,      \* numbers a user may type
  MaxLevels,   \* 10 in the source
  Scale        \* rates are in 1 / Scale

Level == [Rate : Nat \ {0}, Quantity : Nat \ {0}]
Blank == -1   \* a field that holds no number

\* Asks come with rates that do not fall, bids with rates that do not rise.
BestFirst(b) ==
  \/ \A i, j \in 1..Len(b) : i <= j => b[i].Rate <= b[j].Rate
  \/ \A i, j \in 1..Len(b) : i <= j => b[i].Rate >= b[j].Rate

ASSUME WalkAssumption ==
  /\ \A b \in Books : b \in Seq(Level) /\ BestFirst(b)
  /\ Inputs \subseteq Nat
  /\ MaxLevels \in Nat /\ Scale \in Nat \ {0}

VARIABLES
  book,      \* what the exchange answered
  arr,       \* what the popup has of it
  amount,    \* the left field
  price,     \* the right field
  rows,      \* how many rows are coloured, from the top
  typed      \* the field the user typed in last, "none" at first

walkVars == <<book, arr, amount, price, rows, typed>>

-----------------------------------------------------------------------------
\* dim and splice: the last level is lost unless there are more than MaxLevels.
Sent(b) == SubSeq(b, 1, IF Len(b) - 1 < MaxLevels THEN Len(b) - 1 ELSE MaxLevels)

\* currentAmount, and currentTotalPrice in 1 / Scale, after i levels.
Totals(b) ==
  LET t[i \in 0..Len(b)] ==
        IF i = 0 THEN [amount |-> 0, price |-> 0]
        ELSE [amount |-> t[i-1].amount + b[i].Quantity,
              price  |-> t[i-1].price + b[i].Quantity * b[i].Rate]
  IN t

\* Number.toFixed of n / d.
Shown(n, d) == (2 * n + d) \div (2 * d)

\* The levels at which the walk may stop; it stops at the first.
EnoughAmount(b, val) == {i \in 1..Len(b) : Totals(b)[i].amount >= val}
EnoughPrice(b, val)  == {i \in 1..Len(b) : Totals(b)[i].price >= val * Scale}

\* Mutated form of PriceOf: the level that is split is paid at the best rate.
PriceOfBestRate(b, i, val) ==
  LET before == Totals(b)[i-1]
  IN Shown(before.price + (val - before.amount) * b[1].Rate, Scale)

\* The price of val, if the walk stops at level i.
PriceOf(b, i, val) ==
  LET before == Totals(b)[i-1]
  IN Shown(before.price + (val - before.amount) * b[i].Rate, Scale)

\* The amount val buys, if the walk stops at level i.
AmountOf(b, i, val) ==
  LET before == Totals(b)[i-1]
  IN Shown(before.amount * b[i].Rate + val * Scale - before.price, b[i].Rate)

-----------------------------------------------------------------------------
\* The response has been shown.
WalkInit ==
  /\ book \in Books
  /\ arr = Sent(book)
  /\ amount = 0 /\ price = 0
  /\ rows = 0
  /\ typed = "none"

\* Mutated form of TypeAmount: rows stay coloured after the alert.
TypeAmountKeepsRows(val) ==
  LET enough == EnoughAmount(arr, val)
      i == Min(enough)
  IN /\ amount' = val
     /\ typed' = "amount"
     /\ IF enough = {} THEN rows' = Len(arr) /\ price' = price
        ELSE rows' = i /\ price' = PriceOf(arr, i, val)
     /\ UNCHANGED <<book, arr>>

\* keyup in the left field.  Without enough levels an alert is shown, the
\* colours are removed and the other field is left as it is.
TypeAmount(val) ==
  LET enough == EnoughAmount(arr, val)
      i == Min(enough)
  IN /\ amount' = val
     /\ typed' = "amount"
     /\ IF enough = {} THEN rows' = 0 /\ price' = price
        ELSE rows' = i /\ price' = PriceOf(arr, i, val)
     /\ UNCHANGED <<book, arr>>

\* keyup in the right field.
TypePrice(val) ==
  LET enough == EnoughPrice(arr, val)
      i == Min(enough)
  IN /\ price' = val
     /\ typed' = "price"
     /\ IF enough = {} THEN rows' = 0 /\ amount' = amount
        ELSE rows' = i /\ amount' = AmountOf(arr, i, val)
     /\ UNCHANGED <<book, arr>>

\* Something that is not a number empties the other field.
TypeText ==
  /\ \/ typed' = "amount" /\ amount' = Blank /\ price' = Blank
     \/ typed' = "price" /\ amount' = Blank /\ price' = Blank
  /\ rows' = 0
  /\ UNCHANGED <<book, arr>>

WalkNext ==
  \/ \E val \in Inputs : TypeAmount(val) \/ TypePrice(val)
  \/ TypeText

WalkSpec == WalkInit /\ [][WalkNext]_walkVars

-----------------------------------------------------------------------------
(* Properties.                                                             *)

Abs(n) == IF n < 0 THEN -n ELSE n
Best(S) == IF arr[1].Rate <= arr[Len(arr)].Rate THEN Min(S) ELSE Max(S)

\* f[1] + ... + f[n]
SumUpTo(f, n) ==
  LET s[i \in 0..n] == IF i = 0 THEN 0 ELSE s[i-1] + f[i]
  IN s[n]

\* The ways to take val from the levels: how much of each.
Takings(b, val) ==
  {f \in [1..Len(b) -> 0..val] :
     (\A i \in 1..Len(b) : f[i] <= b[i].Quantity) /\ SumUpTo(f, Len(b)) = val}
CostOf(b, f) == SumUpTo([i \in 1..Len(b) |-> f[i] * b[i].Rate], Len(b))

\* While rows are coloured, the price shown for an amount is that of the best
\* way to take it from the levels the popup has (utils-dev.js:63-107): least
\* for asks, most for bids; and the rows coloured are those it takes from.
ColouredPriceIsBest ==
  typed = "amount" /\ rows > 0 =>
    LET takings == Takings(arr, amount)
    IN /\ takings # {}
       /\ price = Shown(Best({CostOf(arr, f) : f \in takings}), Scale)
       /\ \E f \in takings :
            /\ CostOf(arr, f) = Best({CostOf(arr, g) : g \in takings})
            /\ \A i \in 1..Len(arr) : f[i] > 0 => i <= rows
            /\ rows > 1 => f[rows] > 0

\* While rows are coloured the two fields stand for one purchase, as far as
\* they can show it: the price of the amount is the price in the other field
\* but for half a digit rounded off each, at the rate of the last row that is
\* coloured.  A field the alert left as it was never stands beside colours.
FieldsAgree ==
  rows > 0 /\ Blank \notin {amount, price} =>
    LET enough == EnoughAmount(arr, amount)
    IN /\ enough # {}
       /\ 2 * Abs(price - PriceOf(arr, Min(enough), amount)) * Scale
            <= Scale + arr[rows].Rate
=============================================================================
