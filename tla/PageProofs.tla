----------------------------- MODULE PageProofs -----------------------------
(***************************************************************************)
(* Proofs about the three parts of the ticker page.                        *)
(*                                                                         *)
(* TableClient: rows that have not moved are drawn and compared with       *)
(* themselves, and the page never goes back, for any markets, changes,     *)
(* restarts and ways of the network.                                       *)
(*                                                                         *)
(* Spread: the dots are on the prices of the percentage, and a gain is one *)
(* that can be taken, for any exchanges, quotes and clicks.                *)
(*                                                                         *)
(* OrderBookWalk: the walk finds the best way to take an amount, which is  *)
(* shown by moving units of another way between levels (CostsMore), and    *)
(* its two fields agree but for what is rounded (ThereAndBack), for any    *)
(* books, rates and amounts.  Sums are unfolded with Sums and Totals, and  *)
(* induction is by the set of counterexamples (NoCounterexample).          *)
(***************************************************************************)
EXTENDS TableClient, Spread, OrderBookWalk, SequenceTheorems, FiniteSetTheorems,
        WellFoundedInduction, TLAPS

-----------------------------------------------------------------------------
(* Least and greatest.                                                     *)

\* Some natural numbers: one is the least.
LEMMA Least ==
  ASSUME NEW T \in SUBSET Nat, T # {}
  PROVE  \E m \in T : \A k \in T : m <= k
<1>1. \E m \in T : \A k \in T : ~ (<<k, m>> \in OpToRel(<, Nat))
  BY NatLessThanWellFounded, WFMin
<1>2. PICK m \in T : \A k \in T : ~ (<<k, m>> \in OpToRel(<, Nat))
  BY <1>1
<1>3. ASSUME NEW k \in T, k < m PROVE FALSE
  <2>1. <<k, m>> \in OpToRel(<, Nat)
    BY <1>3 DEF OpToRel
  <2> QED BY <1>2, <2>1
<1>4. \A k \in T : m <= k
  BY <1>3
<1> QED BY <1>4

LEMMA MinIs ==
  ASSUME NEW T \in SUBSET Nat, T # {}
  PROVE  Min(T) \in T /\ \A k \in T : Min(T) <= k
BY Least DEF Min

\* Finitely many: one is the greatest.
LEMMA Greatest ==
  ASSUME NEW T \in SUBSET Nat, T # {}, IsFiniteSet(T)
  PROVE  \E m \in T : \A k \in T : m >= k
<1> DEFINE Bad(U) == /\ U \in SUBSET Nat /\ U # {} /\ IsFiniteSet(U)
                     /\ ~ \E m \in U : \A k \in U : m >= k
           B == {U \in SUBSET T : Bad(U)}
           C == {Cardinality(U) : U \in B}
<1> SUFFICES ASSUME C # {} PROVE FALSE
  OBVIOUS
<1>1. C \in SUBSET Nat
  BY FS_CardinalityType
<1> HIDE DEF C
<1>2. PICK n \in C : \A k \in C : n <= k
  BY <1>1, Least
<1>3. PICK U \in B : n = Cardinality(U)
  BY DEF C
<1>4. PICK x \in U : TRUE
  OBVIOUS
<1> DEFINE V == U \ {x}
<1>5. IsFiniteSet(V) /\ Cardinality(V) = Cardinality(U) - 1 /\ Cardinality(U) \in Nat
  BY <1>3, FS_RemoveElement, FS_CardinalityType
<1>6. V \notin B
  <2> SUFFICES ASSUME V \in B PROVE FALSE
    OBVIOUS
  <2>1. Cardinality(V) \in C
    BY DEF C
  <2> QED BY <1>2, <1>3, <1>5, <2>1
<1>7. V = {} \/ \E m \in V : \A k \in V : m >= k
  BY <1>5, <1>6
<1>8. U \in SUBSET Nat /\ ~ \E m \in U : \A k \in U : m >= k
  OBVIOUS
<1>9. CASE V = {}
  BY <1>8, <1>9
<1>10. CASE V # {}
  <2>1. PICK m \in V : \A k \in V : m >= k
    BY <1>7, <1>10
  <2>2. m \in Nat /\ x \in Nat /\ m \in U
    BY <1>8
  <2>3. CASE m >= x
    BY <1>8, <2>1, <2>2, <2>3
  <2>4. CASE x >= m
    <3>1. \A k \in U : k \in Nat /\ (k = x \/ k \in V)
      BY <1>8
    <3>2. \A k \in U : x >= k
      BY <2>1, <2>2, <2>4, <3>1
    <3> QED BY <1>8, <3>2
  <2> QED BY <2>2, <2>3, <2>4
<1> QED BY <1>9, <1>10

LEMMA MaxIs ==
  ASSUME NEW T \in SUBSET Nat, T # {}, IsFiniteSet(T)
  PROVE  Max(T) \in T /\ \A k \in T : Max(T) >= k
BY Greatest DEF Max

-----------------------------------------------------------------------------
(* The table.                                                              *)

\* What is known of an answer without looking at its rows.
Shaped(s) ==
  /\ s = [rows |-> s.rows, bids |-> s.bids, at |-> s.at, life |-> s.life,
          whole |-> s.whole]
  /\ s.rows \in Seq(Ids) /\ s.at \in Nat

\* The table, and the answers that are, or may yet be, json or prevTable.
Known == {table} \cup (wire \ {Asked}) \cup ({json, prev} \ {None})

\* Every answer was the table once.
Past(s) == Shaped(s) /\ s.at <= table.at

\* One of data and dom.
Drawn(d) == d = [now |-> d.now, base |-> d.base] /\ Past(d.now)

\* dom is not newer than data, data not than json, and json not than the answer
\* under way, of which there is one; what it will be compared with is json.
Ordered ==
  /\ dom.now.at <= data.now.at
  /\ json # None => data.now.at <= json.at
  /\ \A w \in wire \ {Asked} : data.now.at <= w.at /\ (json # None => json.at <= w.at)
  /\ \A v, w \in wire : v = w
  /\ wire # {} => prev = json

TableInv ==
  /\ \A s \in Known : Past(s)
  /\ Drawn(data) /\ Drawn(dom)
  /\ Ordered

-----------------------------------------------------------------------------
LEMMA EmptyShaped == Shaped(Empty) /\ Empty.at = 0 /\ Empty # None
BY DEF Shaped, Empty, None

LEMMA InitTableInv == Init => TableInv
<1> SUFFICES ASSUME Init PROVE TableInv
  OBVIOUS
<1>1. Known = {Empty}
  BY DEF Init, Known
<1>2. Past(Empty)
  BY EmptyShaped DEF Past, Init
<1>3. Drawn(data) /\ Drawn(dom)
  BY <1>2 DEF Drawn, Init
<1>4. Ordered
  BY EmptyShaped DEF Ordered, Init
<1> QED BY <1>1, <1>2, <1>3, <1>4 DEF TableInv

\* The server's table becomes a newer one.
LEMMA NewerKeeps ==
  ASSUME TableInv, Shaped(table'), table'.at = table.at + 1,
         wire' \subseteq wire, UNCHANGED <<json, prev, data, dom>>
  PROVE  TableInv'
<1>1. table \in Known /\ table.at \in Nat
  BY DEF TableInv, Known, Past, Shaped
<1>2. Known' \subseteq Known \cup {table'}
  BY DEF Known
<1>3. ASSUME NEW s, Past(s) PROVE Past(s)'
  BY <1>1, <1>3 DEF Past, Shaped
<1>4. Past(table)'
  BY <1>1 DEF Past, Shaped
<1>5. \A s \in Known' : Past(s)'
  BY <1>2, <1>3, <1>4 DEF TableInv
<1>6. Drawn(data)' /\ Drawn(dom)'
  BY <1>3 DEF TableInv, Drawn
<1>7. Ordered'
  BY DEF TableInv, Ordered
<1> QED BY <1>5, <1>6, <1>7 DEF TableInv

LEMMA ChangesKeeps ==
  ASSUME TableInv, NEW to \in Seq(Ids), NEW bids, NEW whole, Changes(to, bids, whole)
  PROVE  TableInv'
<1>1. Shaped(table)
  BY DEF TableInv, Known, Past
<1>2. table' = [rows |-> to, bids |-> bids, at |-> table.at + 1, life |-> table.life,
                whole |-> whole]
  BY <1>1 DEF Changes, Shaped
<1>3. table.at + 1 \in Nat
  BY <1>1 DEF Shaped
<1>4. Shaped(table') /\ table'.at = table.at + 1
  BY <1>2, <1>3 DEF Shaped
<1>5. wire' \subseteq wire /\ UNCHANGED <<json, prev, data, dom>>
  BY DEF Changes
<1> QED BY <1>4, <1>5, NewerKeeps

LEMMA LoadKeeps ==
  ASSUME TableInv, NEW id \in Ids, NEW bids, Load(id, bids)
  PROVE  TableInv'
<1>1. table.rows \in Seq(Ids)
  BY DEF TableInv, Known, Past, Shaped
<1> DEFINE to == IF Contains(table.rows, id) THEN table.rows ELSE Append(table.rows, id)
<1>2. to \in Seq(Ids)
  BY <1>1
<1>3. Changes(to, table.bids \cup bids, FALSE)
  BY DEF Load
<1> HIDE DEF to
<1> QED BY <1>2, <1>3, ChangesKeeps

LEMMA RestartKeeps == ASSUME TableInv, Restart PROVE TableInv'
<1>1. table.at \in Nat
  BY DEF TableInv, Known, Past, Shaped
<1>2. table' = [rows |-> <<>>, bids |-> {}, at |-> table.at + 1, life |-> table.life + 1,
                whole |-> FALSE]
  BY DEF Restart, Empty
<1>3. table.at + 1 \in Nat
  BY <1>1
<1>4. Shaped(table') /\ table'.at = table.at + 1
  BY <1>2, <1>3 DEF Shaped
<1>5. wire' \subseteq wire /\ UNCHANGED <<json, prev, data, dom>>
  BY DEF Restart
<1> QED BY <1>4, <1>5, NewerKeeps

\* What the page does, but for an answer, adds nothing to what is known.
LEMMA QuietKeeps ==
  ASSUME TableInv, UNCHANGED table, Known' \subseteq Known,
         UNCHANGED <<data, dom>> \/ (dom' = data /\ data' = data), Ordered'
  PROVE  TableInv'
<1>1. \A s \in Known' : Past(s)'
  BY DEF TableInv, Past
<1>2. Drawn(data)' /\ Drawn(dom)'
  BY DEF TableInv, Drawn, Past
<1> QED BY <1>1, <1>2 DEF TableInv

LEMMA PollKeeps == ASSUME TableInv, Poll PROVE TableInv'
<1>1. Known' \subseteq Known
  BY DEF Poll, Known
<1>2. Ordered'
  BY DEF Poll, TableInv, Ordered
<1> QED BY <1>1, <1>2, QuietKeeps DEF Poll

LEMMA ServeKeeps == ASSUME TableInv, Serve PROVE TableInv'
<1>1. Known' \subseteq Known
  BY DEF Serve, Known
<1>2. json # None => json.at <= table.at
  BY DEF TableInv, Known, Past
<1>3. Ordered'
  BY <1>2 DEF Serve, TableInv, Ordered, Drawn, Past
<1> QED BY <1>1, <1>3, QuietKeeps DEF Serve

LEMMA FailsKeeps == ASSUME TableInv, Fails PROVE TableInv'
<1>1. PICK request \in wire : wire' = wire \ {request}
  BY DEF Fails
<1>2. Known' \subseteq Known
  BY <1>1 DEF Fails, Known
<1>3. Ordered'
  BY <1>1 DEF Fails, TableInv, Ordered
<1> QED BY <1>2, <1>3, QuietKeeps DEF Fails

LEMMA RedrawKeeps == ASSUME TableInv, Redraw PROVE TableInv'
<1>1. Known' \subseteq Known
  BY DEF Redraw, Known
<1>2. data.now.at \in Nat
  BY DEF TableInv, Drawn, Past, Shaped
<1>3. Ordered'
  BY <1>2 DEF Redraw, TableInv, Ordered
<1> QED BY <1>1, <1>3, QuietKeeps DEF Redraw

\* Of the rows of an answer, those prevTable has, too, are put into the page.
LEMMA FilledHas ==
  ASSUME NEW answer, Shaped(answer), prev # None => Shaped(prev),
         NEW i \in DOMAIN answer.rows, prev # None => i \in DOMAIN prev.rows
  PROVE  i \in DOMAIN Filled(answer) /\ Filled(answer)[i] = answer.rows[i]
<1>1. CASE Throwing(answer) = {}
  BY <1>1 DEF Filled
<1>2. CASE Throwing(answer) # {}
  <2>1. prev # None /\ answer.rows \in Seq(Ids) /\ prev.rows \in Seq(Ids)
    BY <1>2 DEF Throwing, Shaped
  <2>2. \A k \in Throwing(answer) : k \in 1..Len(answer.rows) /\ k \notin 1..Len(prev.rows)
    BY <2>1 DEF Throwing
  <2>3. Throwing(answer) \in SUBSET Nat
    BY <2>1, <2>2
  <2> DEFINE m == Min(Throwing(answer))
  <2>4. m \in Throwing(answer)
    BY <1>2, <2>3, MinIs
  <2> HIDE DEF m
  <2>5. m \in 1..Len(answer.rows) /\ m \notin 1..Len(prev.rows) /\ i \in 1..Len(prev.rows)
    BY <2>1, <2>2, <2>4
  <2>6. i \in 1..(m - 1) /\ m - 1 \in 1..Len(answer.rows)
    BY <2>1, <2>5
  <2>7. Filled(answer) = SubSeq(answer.rows, 1, m - 1)
    BY <1>2 DEF Filled, m
  <2> QED BY <2>1, <2>6, <2>7
<1> QED BY <1>1, <1>2

LEMMA FilledIsSeq ==
  ASSUME NEW answer, Shaped(answer), prev # None => Shaped(prev)
  PROVE  Filled(answer) \in Seq(Ids)
<1>1. answer.rows \in Seq(Ids)
  BY DEF Shaped
<1>2. CASE Throwing(answer) = {}
  BY <1>1, <1>2 DEF Filled
<1>3. CASE Throwing(answer) # {}
  <2>1. Throwing(answer) \in SUBSET (1..Len(answer.rows))
    BY <1>1 DEF Throwing
  <2> DEFINE m == Min(Throwing(answer))
  <2>2. m \in 1..Len(answer.rows)
    BY <1>3, <2>1, MinIs
  <2> HIDE DEF m
  <2>3. Filled(answer) = SubSeq(answer.rows, 1, m - 1)
    BY <1>3 DEF Filled, m
  <2>4. \A k \in 1..(m - 1) : k \in 1..Len(answer.rows)
    BY <1>1, <2>2
  <2> QED BY <1>1, <2>2, <2>3, <2>4
<1> QED BY <1>2, <1>3

LEMMA ArriveKeeps == ASSUME TableInv, NEW answer \in wire, Arrive(answer) PROVE TableInv'
<1> USE DEF Arrive
<1>1. answer \in Known /\ Past(answer) /\ Shaped(answer) /\ (prev # None => Shaped(prev))
  BY DEF TableInv, Known, Past
<1>2. /\ data' = [now |-> data'.now, base |-> prev]
      /\ data'.now = [rows |-> Filled(answer), bids |-> answer.bids, at |-> answer.at,
                      life |-> answer.life, whole |-> answer.whole]
  BY <1>1 DEF Shaped
<1>3. Known' \subseteq Known
  BY <1>1 DEF Known
<1>4. Drawn(data)'
  <2>1. Filled(answer) \in Seq(Ids)
    BY <1>1, FilledIsSeq
  <2>2. Shaped(data'.now) /\ data'.now.at <= table'.at
    BY <1>1, <1>2, <2>1 DEF Shaped, Past
  <2> QED BY <1>2, <2>2 DEF Drawn, Past
<1>5. Drawn(dom)'
  <2>1. CASE dom' = data'
    BY <2>1, <1>4 DEF Drawn, Past
  <2>2. CASE dom' = dom
    BY <2>2 DEF TableInv, Drawn, Past
  <2> QED BY <2>1, <2>2
<1>6. Ordered'
  <2>1. wire' = {}
    BY DEF TableInv, Ordered
  <2>2. data'.now.at = answer.at /\ json' = answer /\ data.now.at <= answer.at
    BY <1>2 DEF TableInv, Ordered
  <2>3. answer.at \in Nat /\ data.now.at \in Nat /\ dom.now.at \in Nat
    BY <1>1 DEF TableInv, Drawn, Past, Shaped
  <2>4. dom'.now.at <= data'.now.at
    BY <2>2, <2>3 DEF TableInv, Ordered
  <2> QED BY <2>1, <2>2, <2>3, <2>4 DEF TableInv, Ordered
<1>7. \A s \in Known' : Past(s)'
  BY <1>3 DEF TableInv, Past
<1> QED BY <1>4, <1>5, <1>6, <1>7 DEF TableInv

LEMMA NextTableInv == TableInv /\ [Next]_vars => TableInv'
<1> SUFFICES ASSUME TableInv, [Next]_vars PROVE TableInv'
  OBVIOUS
<1>1. ASSUME NEW kept \in Listings, Cut(kept) PROVE TableInv'
  <2>1. kept \in Seq(Ids)
    BY DEF Listings, SeqOf
  <2> QED BY <1>1, <2>1, ChangesKeeps DEF Cut
<1>2. ASSUME NEW bids \in SUBSET Ids, Refresh(bids) PROVE TableInv'
  <2>1. table.rows \in Seq(Ids)
    BY DEF TableInv, Known, Past, Shaped
  <2> QED BY <1>2, <2>1, ChangesKeeps DEF Refresh
<1>3. CASE UNCHANGED vars
  BY <1>3 DEF vars, TableInv, Known, Past, Drawn, Ordered
<1> QED BY <1>1, <1>2, <1>3, LoadKeeps, RestartKeeps, PollKeeps, ServeKeeps, ArriveKeeps,
           FailsKeeps, RedrawKeeps DEF Next

LEMMA TableInductive == Spec => []TableInv
BY InitTableInv, NextTableInv, PTL DEF Spec

\* Only an answer changes the rows that are held.
LEMMA OthersKeepRows ==
  ASSUME [Next]_vars, data' # data
  PROVE  \E answer \in wire : Arrive(answer)
BY DEF Next, vars, Load, Cut, Changes, Refresh, Restart, Poll, Serve, Fails, Redraw

\* Whatever the server does to its rows, and whatever polls overlap, are aborted
\* or fail: a row the answer before had, too, is drawn, and compared with its own
\* market if it has not moved (table-dev.js:748-804).
THEOREM PlacedCompared == Spec => PlacedRowsAreCompared
<1> DEFINE A == data' # data /\ json # None =>
       \A i \in DOMAIN json.rows \cap DOMAIN json'.rows :
         /\ i \in DOMAIN data'.now.rows
         /\ json'.rows[i] = json.rows[i] => data'.base.rows[i] = data'.now.rows[i]
<1>1. ASSUME TableInv, [Next]_vars PROVE [A]_vars
  <2> SUFFICES ASSUME data' # data, json # None,
                      NEW i \in DOMAIN json.rows \cap DOMAIN json'.rows
               PROVE  /\ i \in DOMAIN data'.now.rows
                      /\ json'.rows[i] = json.rows[i] => data'.base.rows[i] = data'.now.rows[i]
    OBVIOUS
  <2>1. PICK answer \in wire : Arrive(answer)
    BY <1>1, OthersKeepRows
  <2>2. prev = json /\ json' = answer /\ answer # Asked
    BY <1>1, <2>1 DEF Arrive, TableInv, Ordered
  <2>3. Shaped(answer) /\ Shaped(prev)
    BY <1>1, <2>2 DEF TableInv, Known, Past
  <2>4. data'.now.rows = Filled(answer) /\ data'.base = prev
    BY <2>1, <2>3 DEF Arrive, Shaped
  <2>5. i \in DOMAIN Filled(answer) /\ Filled(answer)[i] = answer.rows[i]
    BY <2>2, <2>3, FilledHas
  <2> QED BY <2>2, <2>4, <2>5
<1> HIDE DEF A
<1>2. Spec => [][A]_vars
  <2>1. TableInv /\ [Next]_vars => [A]_vars
    BY <1>1
  <2> QED BY <2>1, TableInductive, PTL DEF Spec
<1> QED BY <1>2 DEF PlacedRowsAreCompared, A

\* The page never shows, nor keeps, an older table than before (table-dev.js:831).
THEOREM NoWayBack == Spec => NeverGoesBack
<1> DEFINE A == dom'.now.at >= dom.now.at /\ (json # None => json'.at >= json.at)
<1>1. ASSUME TableInv, [Next]_vars PROVE [A]_vars
  <2>1. /\ dom.now.at \in Nat /\ data.now.at \in Nat
        /\ json # None => json.at \in Nat
    BY <1>1 DEF TableInv, Drawn, Known, Past, Shaped
  <2>2. ASSUME NEW answer \in wire, Arrive(answer) PROVE A
    <3>1. answer \in Known /\ answer.at \in Nat
      BY <1>1, <2>2 DEF Arrive, TableInv, Known, Past, Shaped
    <3>2. data'.now.at = answer.at
      BY <1>1, <2>2, <3>1 DEF Arrive, TableInv, Past, Shaped
    <3>3. /\ dom.now.at <= data.now.at /\ data.now.at <= answer.at
          /\ json # None => json.at <= answer.at
      BY <1>1, <2>2 DEF Arrive, TableInv, Ordered
    <3> QED BY <2>1, <2>2, <3>1, <3>2, <3>3 DEF Arrive
  <2>3. ASSUME UNCHANGED <<json, dom>> PROVE A
    BY <2>1, <2>3
  <2>4. ASSUME Redraw PROVE A
    BY <1>1, <2>1, <2>4 DEF Redraw, TableInv, Ordered
  <2>5. ASSUME NEW kept, Cut(kept) PROVE A
    BY <2>3, <2>5 DEF Cut, Changes
  <2> QED BY <1>1, <2>2, <2>3, <2>4, <2>5
          DEF Next, vars, Load, Changes, Refresh, Restart, Poll, Serve, Fails
<1> HIDE DEF A
<1>2. Spec => [][A]_vars
  <2>1. TableInv /\ [Next]_vars => [A]_vars
    BY <1>1
  <2> QED BY <2>1, TableInductive, PTL DEF Spec
<1> QED BY <1>2 DEF NeverGoesBack, A
-----------------------------------------------------------------------------
(* The cells of a row.                                                     *)

Rows == [Exchanges -> Quotes]

\* What is drawn was rendered from a row, checkboxes and a lock button.
CellsInv ==
  /\ row \in Rows /\ checked \subseteq Exchanges /\ exclude \in BOOLEAN
  /\ \E r \in Rows, c \in SUBSET Exchanges, x \in BOOLEAN : drawn = Render(r, c, x)

LEMMA InitCellsInv == CellsInit => CellsInv
BY DEF CellsInit, CellsInv, Rows

LEMMA NextCellsInv == CellsInv /\ [CellsNext]_cellsVars => CellsInv'
<1> SUFFICES ASSUME CellsInv, [CellsNext]_cellsVars PROVE CellsInv'
  OBVIOUS
<1>1. ASSUME NEW e \in Exchanges, NEW q \in Quotes, Answer(e, q) PROVE CellsInv'
  <2>1. row' \in Rows /\ checked' = checked /\ exclude' = exclude
    BY <1>1 DEF Answer, CellsInv, Rows
  <2>2. drawn' = Render(row', checked, exclude)
    BY <1>1 DEF Answer
  <2> QED BY <2>1, <2>2 DEF CellsInv
<1>2. ASSUME NEW e \in Exchanges, Check(e) PROVE CellsInv'
  BY <1>2 DEF Check, CellsInv
<1>3. CASE ToggleLock
  BY <1>3 DEF ToggleLock, CellsInv
<1>4. CASE UNCHANGED cellsVars
  BY <1>4 DEF cellsVars, CellsInv
<1> QED BY <1>1, <1>2, <1>3, <1>4 DEF CellsNext

LEMMA CellsInductive == CellsSpec => []CellsInv
BY InitCellsInv, NextCellsInv, PTL DEF CellsSpec

\* The prices that count are finitely many numbers, each of an exchange.
LEMMA PricesAre ==
  ASSUME NEW r \in Rows, NEW c, NEW x
  PROVE  /\ Asks(r, c, x) \in SUBSET Nat /\ Bids(r, c, x) \in SUBSET Nat
         /\ IsFiniteSet(Bids(r, c, x))
         /\ \A p \in Asks(r, c, x) :
              p # NoPrice /\ \E e \in Exchanges : Counts(r, c, x, e) /\ r[e].ask = p
         /\ \A p \in Bids(r, c, x) :
              p # NoPrice /\ \E e \in Exchanges : Counts(r, c, x, e) /\ r[e].bid = p
<1> DEFINE S == {f \in Exchanges : Counts(r, c, x, f)}
           T == {r[e].bid : e \in S}
<1>1. \A e \in Exchanges : {r[e].ask, r[e].bid} \subseteq Nat \cup {NoPrice}
  BY QuotesAssumption DEF Rows
<1>2. Asks(r, c, x) \in SUBSET Nat /\ Bids(r, c, x) \in SUBSET Nat
  BY <1>1 DEF Asks, Bids
<1>3. IsFiniteSet(S)
  BY QuotesAssumption, FS_Subset
<1>4. IsFiniteSet(T)
  <2> DEFINE f == [e \in S |-> r[e].bid]
  <2>1. f \in Surjection(S, T)
    BY DEF Surjection
  <2> HIDE DEF f, S, T
  <2> QED BY <1>3, <2>1, FS_Surjection
<1>5. Bids(r, c, x) \subseteq T
  BY DEF Bids
<1> HIDE DEF T
<1>6. IsFiniteSet(Bids(r, c, x))
  BY <1>4, <1>5, FS_Subset
<1> QED BY <1>2, <1>6 DEF Asks, Bids

\* The percentage's prices are those of exchanges that count, unless there is
\* none; the dots are on the cells of them that may have one.
LEMMA RenderIs ==
  ASSUME NEW r \in Rows, NEW c, NEW x, NEW d, d = Render(r, c, x)
  PROVE  /\ d.row = r /\ d.checked = c /\ d.exclude = x
         /\ d.min \in Nat /\ d.max \in Nat /\ d.percentage = Percentage(d.min, d.max)
         /\ \A e \in d.lows : r[e].ask = d.min
         /\ \A e \in d.highs : r[e].bid = d.max
         /\ d.min # 0 => \E e \in Exchanges :
              /\ Counts(r, c, x, e) /\ r[e].ask = d.min /\ d.min # NoPrice
              /\ r[e].bid # NoPrice => e \in d.lows
         /\ d.max # 0 => \E e \in Exchanges :
              /\ Counts(r, c, x, e) /\ r[e].bid = d.max /\ d.max # NoPrice
              /\ e \in d.highs
<1> DEFINE A == Asks(r, c, x)
           B == Bids(r, c, x)
<1>1. /\ d.row = r /\ d.checked = c /\ d.exclude = x
      /\ d.min = getMin(r, c, x) /\ d.max = getMax(r, c, x)
      /\ d.percentage = Percentage(d.min, d.max)
      /\ d.lows = {e \in Dotted(r, x) : low(r, c, x, e)}
      /\ d.highs = {e \in Dotted(r, x) : high(r, c, x, e)}
  BY DEF Render
<1>2. A \in SUBSET Nat /\ B \in SUBSET Nat /\ IsFiniteSet(B)
  BY PricesAre
<1>3. A # {} => Min(A) \in A
  BY <1>2, MinIs
<1>4. B # {} => Max(B) \in B
  BY <1>2, MaxIs
<1>5. d.min = (IF A = {} THEN 0 ELSE Min(A)) /\ d.max = (IF B = {} THEN 0 ELSE Max(B))
  BY <1>1 DEF getMin, getMax
<1>6. /\ \A e : low(r, c, x, e) <=> e \in c /\ A # {} /\ Min(A) = r[e].ask
      /\ \A e : high(r, c, x, e) <=> e \in c /\ B # {} /\ Max(B) = r[e].bid
  BY DEF low, high
<1>7. \A e \in Exchanges : Counts(r, c, x, e) /\ r[e].bid # NoPrice => e \in c /\ e \in Dotted(r, x)
  BY DEF Counts, Dotted
<1>8. /\ \A p \in A : p # NoPrice /\ \E e \in Exchanges : Counts(r, c, x, e) /\ r[e].ask = p
      /\ \A p \in B : p # NoPrice /\ \E e \in Exchanges : Counts(r, c, x, e) /\ r[e].bid = p
  BY PricesAre
<1> HIDE DEF A, B
<1>9. d.min \in Nat /\ d.max \in Nat
  <2>1. (IF A = {} THEN 0 ELSE Min(A)) \in Nat
    BY <1>2, <1>3
  <2>2. (IF B = {} THEN 0 ELSE Max(B)) \in Nat
    BY <1>2, <1>4
  <2> QED BY <1>5, <2>1, <2>2
<1>10. (\A e \in d.lows : r[e].ask = d.min) /\ (\A e \in d.highs : r[e].bid = d.max)
  BY <1>1, <1>5, <1>6
<1>11. ASSUME d.min # 0
       PROVE  \E e \in Exchanges :
                /\ Counts(r, c, x, e) /\ r[e].ask = d.min /\ d.min # NoPrice
                /\ r[e].bid # NoPrice => e \in d.lows
  <2>1. A # {} /\ d.min = Min(A) /\ d.min \in A
    BY <1>3, <1>5, <1>11
  <2>2. PICK e \in Exchanges : Counts(r, c, x, e) /\ r[e].ask = d.min /\ d.min # NoPrice
    BY <1>8, <2>1
  <2>3. r[e].bid # NoPrice => e \in d.lows
    BY <1>1, <1>6, <1>7, <2>1, <2>2
  <2> QED BY <2>2, <2>3
<1>12. ASSUME d.max # 0
       PROVE  \E e \in Exchanges :
                /\ Counts(r, c, x, e) /\ r[e].bid = d.max /\ d.max # NoPrice
                /\ e \in d.highs
  <2>1. B # {} /\ d.max = Max(B) /\ d.max \in B
    BY <1>4, <1>5, <1>12
  <2>2. PICK e \in Exchanges : Counts(r, c, x, e) /\ r[e].bid = d.max /\ d.max # NoPrice
    BY <1>8, <2>1
  <2>3. e \in d.highs
    BY <1>1, <1>6, <1>7, <2>1, <2>2
  <2> QED BY <2>2, <2>3
<1> QED BY <1>1, <1>9, <1>10, <1>11, <1>12

\* No gain unless the highest bid is above the lowest ask.
LEMMA GainIs ==
  ASSUME NEW min \in Nat, NEW max \in Nat, Percentage(min, max) > 0
  PROVE  min # 0 /\ max # 0 /\ max > min
<1>1. min # 0 /\ max # 0 /\ (100 * max) \div min - 100 > 0
  BY DEF Percentage
<1> DEFINE q == (100 * max) \div min
<1>2. q \in Int /\ min * q <= 100 * max
  BY <1>1
<1>3. q >= 101
  BY <1>1, <1>2
<1> HIDE DEF q
<1>4. min * q >= min * 101
  BY <1>1, <1>2, <1>3
<1> QED BY <1>1, <1>2, <1>4

LEMMA CellsShow == CellsInv => DotsShowTheSpread
<1> SUFFICES ASSUME CellsInv PROVE DotsShowTheSpread
  OBVIOUS
<1>1. PICK r \in Rows, c \in SUBSET Exchanges, x \in BOOLEAN : drawn = Render(r, c, x)
  BY DEF CellsInv
<1>2. /\ drawn.row = r /\ drawn.checked = c /\ drawn.exclude = x
      /\ \A e \in drawn.lows : r[e].ask = drawn.min
      /\ \A e \in drawn.highs : r[e].bid = drawn.max
      /\ drawn.min # 0 => \E e \in Exchanges :
           /\ Counts(r, c, x, e) /\ r[e].ask = drawn.min
           /\ r[e].bid # NoPrice => e \in drawn.lows
      /\ drawn.max # 0 => drawn.highs # {}
  BY <1>1, RenderIs
<1> QED BY <1>2 DEF DotsShowTheSpread, Counted

LEMMA CellsGain == CellsInv => GainNeedsTwoExchanges
<1> SUFFICES ASSUME CellsInv, drawn.percentage > 0
             PROVE  \E e \in Counted, f \in drawn.highs :
                      /\ drawn.row[e].ask \in Nat \ {0}
                      /\ drawn.row[f].bid > drawn.row[e].ask
                      /\ (\A g \in Counted : ~Crossed(drawn.row[g])) => e # f
  BY DEF GainNeedsTwoExchanges
<1>1. PICK r \in Rows, c \in SUBSET Exchanges, x \in BOOLEAN : drawn = Render(r, c, x)
  BY DEF CellsInv
<1>2. /\ drawn.row = r /\ drawn.checked = c /\ drawn.exclude = x
      /\ drawn.min \in Nat /\ drawn.max \in Nat
      /\ drawn.percentage = Percentage(drawn.min, drawn.max)
      /\ drawn.min # 0 => \E e \in Exchanges :
           Counts(r, c, x, e) /\ r[e].ask = drawn.min /\ drawn.min # NoPrice
      /\ drawn.max # 0 => \E e \in Exchanges :
           /\ Counts(r, c, x, e) /\ r[e].bid = drawn.max /\ drawn.max # NoPrice
           /\ e \in drawn.highs
  BY <1>1, RenderIs
<1>3. drawn.min # 0 /\ drawn.max # 0 /\ drawn.max > drawn.min
  BY <1>2, GainIs
<1>4. PICK e \in Exchanges : Counts(r, c, x, e) /\ r[e].ask = drawn.min /\ drawn.min # NoPrice
  BY <1>2, <1>3
<1>5. PICK f \in Exchanges :
        /\ Counts(r, c, x, f) /\ r[f].bid = drawn.max /\ drawn.max # NoPrice
        /\ f \in drawn.highs
  BY <1>2, <1>3
<1>6. e \in Counted /\ f \in Counted
  BY <1>2, <1>4, <1>5 DEF Counted
<1>7. e = f => Crossed(r[e])
  BY <1>3, <1>4, <1>5 DEF Crossed
<1> QED BY <1>2, <1>3, <1>4, <1>5, <1>6, <1>7

\* The dots, which low and high compute, are on prices that getMin and getMax
\* found, for any exchanges and quotes and whatever is checked or locked
\* (table-dev.js:867-989).
THEOREM DotsShow == CellsSpec => []DotsShowTheSpread
BY CellsInductive, CellsShow, PTL

\* A gain is shown only if one exchange asks less than another bids
\* (table-dev.js:713-722).
THEOREM GainIsReal == CellsSpec => []GainNeedsTwoExchanges
BY CellsInductive, CellsGain, PTL

-----------------------------------------------------------------------------
(* Sums.                                                                   *)

\* Induction on 0..n, by the set of counterexamples.
LEMMA NoCounterexample ==
  ASSUME NEW n \in Nat, NEW T \in SUBSET (0..n), 0 \notin T,
         \A j \in 1..n : j \in T => j - 1 \in T
  PROVE  T = {}
<1> SUFFICES ASSUME T # {} PROVE FALSE
  OBVIOUS
<1>1. T \in SUBSET Nat
  OBVIOUS
<1>2. PICK m \in T : \A k \in T : m <= k
  BY <1>1, Least
<1>3. m \in 1..n /\ ~ (m <= m - 1)
  OBVIOUS
<1> QED BY <1>2, <1>3

\* G[i] is the sum of the first i of f.
Sums(G, f, n) == G = [i \in 0..n |-> IF i = 0 THEN 0 ELSE G[i-1] + f[i]]

LEMMA SumsStep ==
  ASSUME NEW n \in Nat, NEW f, NEW G, Sums(G, f, n)
  PROVE  G[0] = 0 /\ \A i \in 1..n : G[i] = G[i-1] + f[i]
<1>1. \A i \in 0..n : G[i] = IF i = 0 THEN 0 ELSE G[i-1] + f[i]
  BY DEF Sums
<1>2. G[0] = 0
  BY <1>1
<1>3. \A i \in 1..n : i \in 0..n /\ i # 0
  OBVIOUS
<1> QED BY <1>1, <1>2, <1>3

LEMMA SumsExist == ASSUME NEW f, NEW n \in Nat PROVE \E G : Sums(G, f, n)
<1> DEFINE T == {k \in 0..n : ~ \E G : Sums(G, f, k)}
<1>1. 0 \notin T
  <2> DEFINE G == [i \in 0..0 |-> 0]
  <2>1. G = [i \in 0..0 |-> IF i = 0 THEN 0 ELSE G[i-1] + f[i]]
    OBVIOUS
  <2>2. Sums(G, f, 0)
    BY <2>1 DEF Sums
  <2> QED BY <2>2
<1>2. ASSUME NEW m \in 1..n, m - 1 \notin T PROVE m \notin T
  <2>1. m \in Nat /\ m # 0 /\ m - 1 \in Nat /\ m - 1 \in 0..n
    OBVIOUS
  <2>2. PICK G : Sums(G, f, m - 1)
    BY <1>2, <2>1
  <2> DEFINE l == G[m-1] + f[m]
             H == [i \in 0..m |-> IF i = m THEN l ELSE G[i]]
  <2>3. G[0] = 0 /\ \A i \in 1..(m - 1) : G[i] = G[i-1] + f[i]
    BY <2>1, <2>2, SumsStep
  <2>4. \A i \in 0..m : H[i] = IF i = m THEN l ELSE G[i]
    OBVIOUS
  <2> HIDE DEF H
  <2>5. \A i \in 0..m : H[i] = IF i = 0 THEN 0 ELSE H[i-1] + f[i]
    <3> SUFFICES ASSUME NEW i \in 0..m PROVE H[i] = IF i = 0 THEN 0 ELSE H[i-1] + f[i]
      OBVIOUS
    <3>1. CASE i = 0
      BY <2>1, <2>3, <2>4, <3>1
    <3>2. CASE i = m
      <4>1. m - 1 \in 0..m /\ m - 1 # m
        BY <2>1
      <4> QED BY <2>1, <2>4, <3>2, <4>1
    <3>3. CASE i # 0 /\ i # m
      <4>1. i \in 1..(m - 1) /\ i - 1 \in 0..m /\ i - 1 # m
        BY <2>1, <3>3
      <4> QED BY <2>3, <2>4, <3>3, <4>1
    <3> QED BY <3>1, <3>2, <3>3
  <2>6. H = [i \in 0..m |-> H[i]]
    BY DEF H
  <2>7. Sums(H, f, m)
    <3> HIDE DEF l
    <3> QED BY <2>5, <2>6 DEF Sums
  <2> QED BY <2>7
<1> HIDE DEF T
<1>3. T \in SUBSET (0..n)
  BY DEF T
<1>4. T = {}
  BY <1>1, <1>2, <1>3, NoCounterexample
<1>5. n \in 0..n
  OBVIOUS
<1> QED BY <1>4, <1>5 DEF T

LEMMA SumIs ==
  ASSUME NEW f, NEW n \in Nat
  PROVE  \E G : Sums(G, f, n) /\ SumUpTo(f, n) = G[n]
<1> DEFINE G == CHOOSE s : s = [i \in 0..n |-> IF i = 0 THEN 0 ELSE s[i-1] + f[i]]
<1>1. \E s : s = [i \in 0..n |-> IF i = 0 THEN 0 ELSE s[i-1] + f[i]]
  BY SumsExist DEF Sums
<1>2. G = [i \in 0..n |-> IF i = 0 THEN 0 ELSE G[i-1] + f[i]]
  BY <1>1
<1>3. SumUpTo(f, n) = G[n]
  BY DEF SumUpTo
<1> HIDE DEF G
<1> QED BY <1>2, <1>3 DEF Sums

LEMMA SumsType ==
  ASSUME NEW n \in Nat, NEW f, NEW G, Sums(G, f, n), \A i \in 1..n : f[i] \in Int
  PROVE  \A i \in 0..n : G[i] \in Int
<1> DEFINE T == {i \in 0..n : G[i] \notin Int}
<1>1. G[0] = 0 /\ \A i \in 1..n : G[i] = G[i-1] + f[i]
  BY SumsStep
<1>2. 0 \notin T
  BY <1>1
<1>3. ASSUME NEW j \in 1..n, j - 1 \notin T PROVE j \notin T
  <2>1. G[j-1] \in Int
    BY <1>3
  <2> QED BY <1>1, <2>1
<1> HIDE DEF T
<1>4. T \in SUBSET (0..n)
  BY DEF T
<1>5. T = {}
  BY <1>2, <1>3, <1>4, NoCounterexample
<1> QED BY <1>5 DEF T

-----------------------------------------------------------------------------
(* The walk.                                                               *)

\* Levels, best first.
Ladder(b) == b \in Seq(Level) /\ BestFirst(b)

LEMMA LadderIs ==
  ASSUME NEW b, Ladder(b)
  PROVE  /\ Len(b) \in Nat
         /\ \A i \in 1..Len(b) : /\ b[i].Rate \in Nat /\ b[i].Rate > 0
                                 /\ b[i].Quantity \in Nat /\ b[i].Quantity > 0
                                 /\ b[i].Quantity * b[i].Rate \in Nat
<1>1. Len(b) \in Nat /\ \A i \in 1..Len(b) : b[i] \in Level
  BY LenProperties DEF Ladder
<1>2. \A x, y \in Nat : x * y \in Nat
  OBVIOUS
<1>3. ASSUME NEW i \in 1..Len(b)
      PROVE  /\ b[i].Rate \in Nat /\ b[i].Rate > 0
             /\ b[i].Quantity \in Nat /\ b[i].Quantity > 0
  <2>1. b[i] \in Level
    BY <1>1
  <2> QED BY <2>1 DEF Level
<1> QED BY <1>1, <1>2, <1>3

LEMMA TotalsAre ==
  ASSUME NEW b, Len(b) \in Nat
  PROVE  /\ Totals(b)[0].amount = 0 /\ Totals(b)[0].price = 0
         /\ \A i \in 1..Len(b) :
              /\ Totals(b)[i].amount = Totals(b)[i-1].amount + b[i].Quantity
              /\ Totals(b)[i].price = Totals(b)[i-1].price + b[i].Quantity * b[i].Rate
<1> DEFINE n == Len(b)
           q == [i \in 1..n |-> b[i].Quantity]
           p == [i \in 1..n |-> b[i].Quantity * b[i].Rate]
           Is(t) == t = [i \in 0..n |->
                          IF i = 0 THEN [amount |-> 0, price |-> 0]
                          ELSE [amount |-> t[i-1].amount + b[i].Quantity,
                                price  |-> t[i-1].price + b[i].Quantity * b[i].Rate]]
           t == CHOOSE u : Is(u)
<1>1. Totals(b) = t
  BY DEF Totals
<1>2. \E u : Is(u)
  <2>1. PICK A : Sums(A, q, n)
    BY SumsExist
  <2>2. PICK P : Sums(P, p, n)
    BY SumsExist
  <2> DEFINE u == [i \in 0..n |-> [amount |-> A[i], price |-> P[i]]]
  <2>3. /\ A[0] = 0 /\ \A i \in 1..n : A[i] = A[i-1] + q[i]
        /\ P[0] = 0 /\ \A i \in 1..n : P[i] = P[i-1] + p[i]
    BY <2>1, <2>2, SumsStep
  <2>4. ASSUME NEW i \in 0..n
        PROVE  u[i] = IF i = 0 THEN [amount |-> 0, price |-> 0]
                      ELSE [amount |-> u[i-1].amount + b[i].Quantity,
                            price  |-> u[i-1].price + b[i].Quantity * b[i].Rate]
    <3>1. CASE i = 0
      BY <2>3, <3>1
    <3>2. CASE i # 0
      <4>1. i \in 1..n /\ i - 1 \in 0..n
        BY <3>2
      <4>2. u[i-1].amount = A[i-1] /\ u[i-1].price = P[i-1]
            /\ u[i] = [amount |-> A[i], price |-> P[i]]
        BY <4>1
      <4>3. A[i] = A[i-1] + b[i].Quantity /\ P[i] = P[i-1] + b[i].Quantity * b[i].Rate
        BY <2>3, <4>1
      <4> HIDE DEF u
      <4> QED BY <3>2, <4>2, <4>3
    <3> QED BY <3>1, <3>2
  <2>5. u = [i \in 0..n |-> u[i]]
    OBVIOUS
  <2> HIDE DEF u, n
  <2>6. Is(u)
    BY <2>4, <2>5
  <2> QED BY <2>6
<1>3. Is(t)
  BY <1>2
<1> HIDE DEF t
<1>4. \A i \in 0..n : t[i] = IF i = 0 THEN [amount |-> 0, price |-> 0]
                             ELSE [amount |-> t[i-1].amount + b[i].Quantity,
                                   price  |-> t[i-1].price + b[i].Quantity * b[i].Rate]
  BY <1>3
<1>5. t[0] = [amount |-> 0, price |-> 0]
  <2>1. 0 \in 0..n
    OBVIOUS
  <2> QED BY <1>4, <2>1
<1>6. \A i \in 1..n : i \in 0..n /\ i # 0
  OBVIOUS
<1>7. \A i \in 1..n : t[i] = [amount |-> t[i-1].amount + b[i].Quantity,
                              price  |-> t[i-1].price + b[i].Quantity * b[i].Rate]
  BY <1>4, <1>6
<1>8. t[0].amount = 0 /\ t[0].price = 0
  BY <1>5
<1>9. \A i \in 1..n : /\ t[i].amount = t[i-1].amount + b[i].Quantity
                      /\ t[i].price = t[i-1].price + b[i].Quantity * b[i].Rate
  <2> SUFFICES ASSUME NEW i \in 1..n
               PROVE  /\ t[i].amount = t[i-1].amount + b[i].Quantity
                      /\ t[i].price = t[i-1].price + b[i].Quantity * b[i].Rate
    OBVIOUS
  <2> DEFINE x == t[i-1].amount + b[i].Quantity
             y == t[i-1].price + b[i].Quantity * b[i].Rate
  <2>1. t[i] = [amount |-> x, price |-> y]
    BY <1>7
  <2> HIDE DEF x, y
  <2>2. t[i].amount = x /\ t[i].price = y
    BY <2>1
  <2> QED BY <2>2 DEF x, y
<1> HIDE DEF n
<1> QED BY <1>1, <1>8, <1>9 DEF n

\* The totals are numbers, and rise with every level.
LEMMA TotalsRise ==
  ASSUME NEW b, Ladder(b)
  PROVE  /\ \A i \in 0..Len(b) : Totals(b)[i].amount \in Nat /\ Totals(b)[i].price \in Nat
         /\ \A i \in 0..Len(b), j \in 0..Len(b) : i < j => Totals(b)[i].amount < Totals(b)[j].amount
<1> DEFINE n == Len(b)
           A == [i \in 0..n |-> Totals(b)[i].amount]
           P == [i \in 0..n |-> Totals(b)[i].price]
           T == {i \in 0..n : ~ (A[i] \in Nat /\ P[i] \in Nat)}
           R(i) == {j \in 0..n : i < j /\ ~ (A[i] < A[j])}
<1>0. n \in Nat
  BY LadderIs
<1>1. A[0] = 0 /\ P[0] = 0
  BY <1>0, TotalsAre
<1>2. ASSUME NEW i \in 1..n
      PROVE  /\ i \in 0..n /\ i - 1 \in 0..n
             /\ A[i] = A[i-1] + b[i].Quantity /\ P[i] = P[i-1] + b[i].Quantity * b[i].Rate
             /\ b[i].Quantity \in Nat /\ b[i].Quantity > 0 /\ b[i].Quantity * b[i].Rate \in Nat
  <2>1. i \in 0..n /\ i - 1 \in 0..n
    BY <1>0
  <2> QED BY <1>0, <2>1, TotalsAre, LadderIs
<1> HIDE DEF A, P, n
<1>3. T = {}
  <2>1. 0 \notin T
    BY <1>1
  <2>2. ASSUME NEW j \in 1..n, j - 1 \notin T PROVE j \notin T
    <3> DEFINE c == b[j].Quantity * b[j].Rate
    <3>1. A[j-1] \in Nat /\ P[j-1] \in Nat
      BY <1>2, <2>2
    <3>2. A[j] = A[j-1] + b[j].Quantity /\ b[j].Quantity \in Nat /\ P[j] = P[j-1] + c /\ c \in Nat
      BY <1>2
    <3> HIDE DEF c
    <3> QED BY <3>1, <3>2
  <2> HIDE DEF T
  <2>3. T \in SUBSET (0..n)
    BY DEF T
  <2> QED BY <1>0, <2>1, <2>2, <2>3, NoCounterexample
<1>4. \A i \in 0..n : A[i] \in Nat /\ P[i] \in Nat
  BY <1>3
<1>5. ASSUME NEW i \in 0..n PROVE R(i) = {}
  <2> DEFINE S == R(i)
  <2>1. 0 \notin S
    BY <1>0
  <2>2. ASSUME NEW j \in 1..n, j - 1 \notin S PROVE j \notin S
    <3>1. j \in 0..n /\ j - 1 \in 0..n /\ A[j] = A[j-1] + b[j].Quantity
          /\ b[j].Quantity \in Nat /\ b[j].Quantity > 0
      BY <1>2
    <3>2. A[i] \in Nat /\ A[j-1] \in Nat /\ A[j] \in Nat
      BY <1>4, <3>1
    <3>3. CASE i < j - 1
      <4>1. A[i] < A[j-1]
        BY <2>2, <3>1, <3>3
      <4> QED BY <3>1, <3>2, <4>1
    <3>4. CASE i = j - 1
      BY <3>1, <3>2, <3>4
    <3>5. CASE ~ (i < j)
      BY <3>5
    <3> QED BY <1>0, <3>3, <3>4, <3>5
  <2> HIDE DEF S
  <2>3. S \in SUBSET (0..n)
    BY DEF S
  <2>4. S = {}
    BY <1>0, <2>1, <2>2, <2>3, NoCounterexample
  <2> QED BY <2>4 DEF S
<1>6. \A i, j \in 0..n : i < j => A[i] < A[j]
  BY <1>5
<1>7. \A i \in 0..n : A[i] = Totals(b)[i].amount /\ P[i] = Totals(b)[i].price
  BY DEF A, P
<1> QED BY <1>4, <1>6, <1>7 DEF n

-----------------------------------------------------------------------------
(* The best way to take an amount.                                         *)

\* Each level is taken up to the one at which the walk stops.
Greedy(b, i, val) ==
  [j \in 1..Len(b) |-> IF j < i THEN b[j].Quantity
                       ELSE IF j = i THEN val - Totals(b)[i-1].amount ELSE 0]

\* The walk stops at i.
StopsAt(b, i, val) ==
  /\ i \in 1..Len(b)
  /\ Totals(b)[i-1].amount <= val /\ val <= Totals(b)[i].amount

\* What is paid for val, in 1 / Scale, if the walk stops at i.
Paid(b, i, val) == Totals(b)[i-1].price + (val - Totals(b)[i-1].amount) * b[i].Rate

LEMMA GreedyIs ==
  ASSUME NEW b, Ladder(b), NEW val \in Nat, NEW i, StopsAt(b, i, val)
  PROVE  Greedy(b, i, val) \in Takings(b, val) /\ CostOf(b, Greedy(b, i, val)) = Paid(b, i, val)
<1> DEFINE n == Len(b)
           A == [j \in 0..n |-> Totals(b)[j].amount]
           P == [j \in 0..n |-> Totals(b)[j].price]
           g == Greedy(b, i, val)
           c == [j \in 1..n |-> g[j] * b[j].Rate]
           paid == Paid(b, i, val)
<1>1. n \in Nat /\ i \in 1..n /\ i - 1 \in 0..n /\ i \in 0..n
  BY LadderIs DEF StopsAt
<1>2. \A j \in 0..n : A[j] \in Nat /\ P[j] \in Nat
  BY TotalsRise
<1>3. A[0] = 0 /\ P[0] = 0
  BY <1>1, TotalsAre
<1>4. ASSUME NEW j \in 1..n
      PROVE  /\ j \in 0..n /\ j - 1 \in 0..n
             /\ A[j] = A[j-1] + b[j].Quantity /\ P[j] = P[j-1] + b[j].Quantity * b[j].Rate
             /\ b[j].Quantity \in Nat /\ b[j].Rate \in Nat
  <2>1. j \in 0..n /\ j - 1 \in 0..n
    BY <1>1
  <2> QED BY <1>1, <2>1, TotalsAre, LadderIs
<1>5. A[i-1] <= val /\ val <= A[i] /\ paid = P[i-1] + (val - A[i-1]) * b[i].Rate
  BY <1>1 DEF StopsAt, Paid
<1>6. \A j, k \in 0..n : j < k => A[j] < A[k]
  BY TotalsRise
<1>7. \A j \in 1..n : g[j] = IF j < i THEN b[j].Quantity ELSE IF j = i THEN val - A[i-1] ELSE 0
  BY <1>1 DEF Greedy
<1>8. g = [j \in 1..n |-> g[j]]
  BY DEF Greedy
<1>9. \A j \in 1..n : c[j] = g[j] * b[j].Rate
  OBVIOUS
<1>10. SumUpTo(g, n) = SumUpTo(g, Len(b)) /\ CostOf(b, g) = SumUpTo(c, n)
  BY DEF CostOf
<1> HIDE DEF A, P, g, c, paid
<1>11. ASSUME NEW j \in 1..n PROVE g[j] \in 0..val /\ g[j] <= b[j].Quantity
  <2>1. A[j-1] \in Nat /\ A[j] \in Nat /\ A[i-1] \in Nat /\ A[i] \in Nat
    BY <1>1, <1>2, <1>4
  <2>2. CASE j < i
    <3>1. A[j] <= A[i-1]
      <4>1. j = i - 1 \/ j < i - 1
        BY <1>1, <2>2
      <4> QED BY SMTT(60), <1>1, <1>4, <1>6, <2>1, <4>1
    <3>2. g[j] = b[j].Quantity /\ A[j] = A[j-1] + b[j].Quantity /\ b[j].Quantity \in Nat
      BY <1>4, <1>7, <2>2
    <3> QED BY SMTT(60), <1>5, <2>1, <3>1, <3>2
  <2>3. CASE j = i
    <3>1. g[j] = val - A[i-1] /\ A[i] = A[i-1] + b[i].Quantity /\ b[i].Quantity \in Nat
      BY <1>4, <1>7, <2>3
    <3> QED BY SMTT(60), <1>5, <2>1, <2>3, <3>1
  <2>4. CASE j > i
    BY <1>1, <1>4, <1>7, <2>4
  <2> QED BY <1>1, <2>2, <2>3, <2>4
<1>12. SumUpTo(g, n) = val
  <2>1. PICK G : Sums(G, g, n) /\ SumUpTo(g, n) = G[n]
    BY <1>1, SumIs
  <2>2. G[0] = 0 /\ \A j \in 1..n : G[j] = G[j-1] + g[j]
    BY <1>1, <2>1, SumsStep
  <2> DEFINE T == {j \in 0..n : G[j] # IF j < i THEN A[j] ELSE val}
  <2>3. 0 \notin T
    BY <1>1, <1>3, <2>2
  <2>4. ASSUME NEW j \in 1..n, j - 1 \notin T PROVE j \notin T
    <3>1. G[j-1] = (IF j - 1 < i THEN A[j-1] ELSE val) /\ G[j] = G[j-1] + g[j]
      BY <1>4, <2>2, <2>4
    <3>2. A[j-1] \in Nat /\ A[j] = A[j-1] + b[j].Quantity /\ b[j].Quantity \in Nat
      BY <1>2, <1>4
    <3>3. g[j] = IF j < i THEN b[j].Quantity ELSE IF j = i THEN val - A[i-1] ELSE 0
      BY <1>7
    <3>4. CASE j < i
      BY <1>1, <3>1, <3>2, <3>3, <3>4
    <3>5. CASE j = i
      BY <1>1, <3>1, <3>2, <3>3, <3>5
    <3>6. CASE j > i
      BY <1>1, <3>1, <3>2, <3>3, <3>6
    <3> QED BY <1>1, <3>4, <3>5, <3>6
  <2> HIDE DEF T
  <2>5. T \in SUBSET (0..n)
    BY DEF T
  <2>6. T = {}
    BY <1>1, <2>3, <2>4, <2>5, NoCounterexample
  <2>7. G[n] = val
    BY <1>1, <2>6 DEF T
  <2> QED BY <2>1, <2>7
<1>13. SumUpTo(c, n) = paid
  <2>1. PICK G : Sums(G, c, n) /\ SumUpTo(c, n) = G[n]
    BY <1>1, SumIs
  <2>2. G[0] = 0 /\ \A j \in 1..n : G[j] = G[j-1] + c[j]
    BY <1>1, <2>1, SumsStep
  <2> DEFINE T == {j \in 0..n : G[j] # IF j < i THEN P[j] ELSE paid}
  <2>3. 0 \notin T
    BY <1>1, <1>3, <2>2
  <2>4. ASSUME NEW j \in 1..n, j - 1 \notin T PROVE j \notin T
    <3>1. G[j-1] = (IF j - 1 < i THEN P[j-1] ELSE paid) /\ G[j] = G[j-1] + c[j]
      BY <1>4, <2>2, <2>4
    <3>2. P[j] = P[j-1] + b[j].Quantity * b[j].Rate /\ b[j].Rate \in Nat
      BY <1>4
    <3>3. g[j] = (IF j < i THEN b[j].Quantity ELSE IF j = i THEN val - A[i-1] ELSE 0)
          /\ c[j] = g[j] * b[j].Rate
      BY <1>7, <1>9
    <3>4. CASE j < i
      <4>1. c[j] = b[j].Quantity * b[j].Rate /\ j - 1 < i
        BY <1>1, <3>3, <3>4
      <4> QED BY <3>1, <3>2, <3>4, <4>1
    <3>5. CASE j = i
      <4>1. c[j] = (val - A[i-1]) * b[i].Rate /\ j - 1 < i
        BY <1>1, <3>3, <3>5
      <4> QED BY <1>1, <1>5, <3>1, <3>5, <4>1
    <3>6. CASE j > i
      <4>1. g[j] = 0 /\ ~ (j - 1 < i) /\ ~ (j < i)
        BY <1>1, <3>3, <3>6
      <4>2. c[j] = 0
        BY <3>2, <3>3, <4>1
      <4>3. paid \in Int
        <5>1. P[i-1] \in Int /\ val - A[i-1] \in Int /\ b[i].Rate \in Int
          BY <1>1, <1>2, <1>4
        <5>2. \A x, y, z \in Int : x + y * z \in Int
          OBVIOUS
        <5> QED BY <1>5, <5>1, <5>2
      <4> QED BY <3>1, <4>1, <4>2, <4>3
    <3> QED BY <1>1, <3>4, <3>5, <3>6
  <2> HIDE DEF T
  <2>5. T \in SUBSET (0..n)
    BY DEF T
  <2>6. T = {}
    BY <1>1, <2>3, <2>4, <2>5, NoCounterexample
  <2>7. G[n] = paid
    BY <1>1, <2>6 DEF T
  <2> QED BY <2>1, <2>7
<1>14. g \in [1..n -> 0..val]
  BY <1>8, <1>11
<1> QED BY <1>10, <1>11, <1>12, <1>13, <1>14 DEF Takings, n, g, paid

\* A unit moved to a level with a worse rate costs more; to one with the rate
\* R, as much.
LEMMA MovedUnits ==
  ASSUME NEW x \in Int, NEW y \in Int, NEW r \in Nat, NEW R \in Nat,
         (x >= y /\ r >= R) \/ (x <= y /\ r <= R)
  PROVE  x * r - y * r >= R * x - R * y
<1>1. (x - y) * (r - R) >= 0
  <2>1. CASE x >= y /\ r >= R
    <3>1. \A u, v \in Nat : u * v \in Nat
      OBVIOUS
    <3>2. x - y \in Nat /\ r - R \in Nat
      BY <2>1
    <3> HIDE <2>1
    <3>3. (x - y) * (r - R) \in Nat
      BY <3>1, <3>2
    <3> QED BY <3>3
  <2>2. CASE x <= y /\ r <= R
    <3>1. \A u, v \in Nat : u * v \in Nat
      OBVIOUS
    <3>2. y - x \in Nat /\ R - r \in Nat
      BY <2>2
    <3> HIDE <2>2
    <3>3. (y - x) * (R - r) \in Nat
      BY <3>1, <3>2
    <3>4. (y - x) * (R - r) = (x - y) * (r - R)
      OBVIOUS
    <3> QED BY <3>3, <3>4
  <2> QED BY <2>1, <2>2
<1>2. (x - y) * (r - R) = (x * r - y * r) - (R * x - R * y)
  OBVIOUS
<1> QED BY <1>1, <1>2

\* What is paid at each level.
Costs(b, f) == [i \in 1..Len(b) |-> f[i] * b[i].Rate]

LEMMA CostIs ==
  ASSUME NEW b, Ladder(b), NEW val \in Nat, NEW f \in Takings(b, val)
  PROVE  /\ CostOf(b, f) \in Int
         /\ \E S, C : /\ Sums(S, f, Len(b)) /\ S[Len(b)] = val
                      /\ Sums(C, Costs(b, f), Len(b))
                      /\ C[Len(b)] = CostOf(b, f)
<1> DEFINE n == Len(b)
           c == [i \in 1..n |-> f[i] * b[i].Rate]
<1>1. n \in Nat /\ n \in 0..n
  BY LadderIs
<1>2. PICK S : Sums(S, f, n) /\ SumUpTo(f, n) = S[n]
  BY <1>1, SumIs
<1>3. PICK C : Sums(C, c, n) /\ SumUpTo(c, n) = C[n]
  BY <1>1, SumIs
<1>4. SumUpTo(f, n) = val /\ CostOf(b, f) = SumUpTo(c, n)
  BY DEF Takings, CostOf
<1>5. \A i \in 1..n : c[i] \in Int
  <2> SUFFICES ASSUME NEW i \in 1..n PROVE c[i] \in Int
    OBVIOUS
  <2>1. f[i] \in Int /\ b[i].Rate \in Int
    BY SMTT(60), LadderIs DEF Takings
  <2>2. \A x, y \in Int : x * y \in Int
    OBVIOUS
  <2>3. c[i] = f[i] * b[i].Rate
    OBVIOUS
  <2> HIDE DEF c
  <2> QED BY <2>1, <2>2, <2>3
<1> HIDE DEF c
<1>6. C[n] \in Int
  BY <1>1, <1>3, <1>5, SumsType
<1>7. c = Costs(b, f)
  BY DEF c, Costs
<1> HIDE DEF n
<1> QED BY <1>2, <1>3, <1>4, <1>6, <1>7 DEF n

LEMMA CostsStep ==
  ASSUME NEW s \in Int, NEW t \in Int, NEW u \in Int, NEW v \in Int,
         NEW x \in Int, NEW y \in Int, NEW p \in Int, NEW q \in Int, NEW R \in Nat,
         u - v >= R * s - R * t, p - q >= R * x - R * y
  PROVE  (u + p) - (v + q) >= R * (s + x) - R * (t + y)
<1>1. R * (s + x) = R * s + R * x /\ R * (t + y) = R * t + R * y
  OBVIOUS
<1> DEFINE a == R * s
           b == R * t
           c == R * x
           d == R * y
<1>2. a \in Int /\ b \in Int /\ c \in Int /\ d \in Int
  OBVIOUS
<1>3. u - v >= a - b /\ p - q >= c - d
  OBVIOUS
<1> HIDE DEF a, b, c, d
<1>4. (u + p) - (v + q) >= (a + c) - (b + d)
  BY <1>2, <1>3
<1> QED BY <1>1, <1>4 DEF a, b, c, d

\* What is taken more of has a rate of R at least, what is taken less of one of
\* R at most: it costs as much, or more.
LEMMA CostsMore ==
  ASSUME NEW b, Ladder(b), NEW val \in Nat, NEW f \in Takings(b, val), NEW g \in Takings(b, val),
         NEW R \in Nat,
         \A i \in 1..Len(b) : \/ f[i] >= g[i] /\ b[i].Rate >= R
                              \/ f[i] <= g[i] /\ b[i].Rate <= R
  PROVE  CostOf(b, f) >= CostOf(b, g)
<1> DEFINE n == Len(b)
           c == Costs(b, f)
           d == Costs(b, g)
<1>1. n \in Nat /\ n \in 0..n
  BY LadderIs
<1>2. PICK S, C : Sums(S, f, n) /\ S[n] = val /\ Sums(C, c, n) /\ C[n] = CostOf(b, f)
  BY CostIs
<1>3. PICK T, D : Sums(T, g, n) /\ T[n] = val /\ Sums(D, d, n) /\ D[n] = CostOf(b, g)
  BY CostIs
<1>4. ASSUME NEW i \in 1..n
      PROVE  /\ f[i] \in Int /\ g[i] \in Int /\ c[i] \in Int /\ d[i] \in Int
             /\ c[i] - d[i] >= R * f[i] - R * g[i]
  <2>1. f[i] \in Int /\ g[i] \in Int /\ b[i].Rate \in Nat
    BY LadderIs DEF Takings
  <2>2. f[i] * b[i].Rate - g[i] * b[i].Rate >= R * f[i] - R * g[i]
    <3>1. (f[i] >= g[i] /\ b[i].Rate >= R) \/ (f[i] <= g[i] /\ b[i].Rate <= R)
      OBVIOUS
    <3> QED BY <2>1, <3>1, MovedUnits
  <2>3. \A x, y \in Int : x * y \in Int
    OBVIOUS
  <2>4. c[i] = f[i] * b[i].Rate /\ d[i] = g[i] * b[i].Rate
    BY DEF Costs
  <2> HIDE DEF c, d
  <2> QED BY SMTT(60), <2>1, <2>2, <2>3, <2>4
<1> HIDE DEF c, d
<1>5. \A i \in 0..n : S[i] \in Int /\ T[i] \in Int /\ C[i] \in Int /\ D[i] \in Int
  <2>1. \A i \in 0..n : S[i] \in Int
    BY <1>1, <1>2, <1>4, SumsType
  <2>2. \A i \in 0..n : T[i] \in Int
    BY <1>1, <1>3, <1>4, SumsType
  <2>3. \A i \in 0..n : C[i] \in Int
    BY <1>1, <1>2, <1>4, SumsType
  <2>4. \A i \in 0..n : D[i] \in Int
    BY <1>1, <1>3, <1>4, SumsType
  <2> QED BY <2>1, <2>2, <2>3, <2>4
<1>6. /\ S[0] = 0 /\ T[0] = 0 /\ C[0] = 0 /\ D[0] = 0
      /\ \A i \in 1..n : /\ S[i] = S[i-1] + f[i] /\ T[i] = T[i-1] + g[i]
                         /\ C[i] = C[i-1] + c[i] /\ D[i] = D[i-1] + d[i]
  <2>1. S[0] = 0 /\ \A i \in 1..n : S[i] = S[i-1] + f[i]
    BY <1>1, <1>2, SumsStep
  <2>2. T[0] = 0 /\ \A i \in 1..n : T[i] = T[i-1] + g[i]
    BY <1>1, <1>3, SumsStep
  <2>3. C[0] = 0 /\ \A i \in 1..n : C[i] = C[i-1] + c[i]
    BY <1>1, <1>2, SumsStep
  <2>4. D[0] = 0 /\ \A i \in 1..n : D[i] = D[i-1] + d[i]
    BY <1>1, <1>3, SumsStep
  <2> QED BY <2>1, <2>2, <2>3, <2>4
<1> DEFINE U == {i \in 0..n : ~ (C[i] - D[i] >= R * S[i] - R * T[i])}
<1>7. 0 \notin U
  BY <1>6
<1>8. ASSUME NEW j \in 1..n, j - 1 \notin U PROVE j \notin U
  <2>1. j \in 0..n /\ j - 1 \in 0..n
    BY <1>1
  <2>2. C[j-1] - D[j-1] >= R * S[j-1] - R * T[j-1]
    BY <1>8, <2>1
  <2>3. /\ S[j] = S[j-1] + f[j] /\ T[j] = T[j-1] + g[j]
        /\ C[j] = C[j-1] + c[j] /\ D[j] = D[j-1] + d[j]
    BY <1>6
  <2>4. /\ S[j-1] \in Int /\ T[j-1] \in Int /\ C[j-1] \in Int /\ D[j-1] \in Int
        /\ f[j] \in Int /\ g[j] \in Int /\ c[j] \in Int /\ d[j] \in Int
        /\ c[j] - d[j] >= R * f[j] - R * g[j]
    BY <1>4, <1>5, <2>1
  <2>5. (C[j-1] + c[j]) - (D[j-1] + d[j]) >= R * (S[j-1] + f[j]) - R * (T[j-1] + g[j])
    BY ZenonT(60), <2>2, <2>4, CostsStep
  <2>6. C[j] - D[j] >= R * S[j] - R * T[j]
    BY <2>3, <2>5
  <2> QED BY <2>6
<1> HIDE DEF U
<1>9. U \in SUBSET (0..n)
  BY DEF U
<1>10. U = {}
  BY <1>1, <1>7, <1>8, <1>9, NoCounterexample
<1>11. C[n] - D[n] >= R * val - R * val
  BY <1>1, <1>2, <1>3, <1>10 DEF U
<1>12. C[n] \in Int /\ D[n] \in Int /\ R * val \in Int
  BY <1>1, <1>5
<1> QED BY <1>2, <1>3, <1>11, <1>12

LEMMA LeastIs ==
  ASSUME NEW S \in SUBSET Int, NEW x \in S, \A y \in S : x <= y
  PROVE  Min(S) = x
<1>1. \E m \in S : \A y \in S : m <= y
  OBVIOUS
<1>2. Min(S) \in S /\ \A y \in S : Min(S) <= y
  BY <1>1 DEF Min
<1>3. Min(S) <= x /\ x <= Min(S) /\ x \in Int /\ Min(S) \in Int
  BY <1>2
<1> QED BY <1>3

LEMMA GreatestIs ==
  ASSUME NEW S \in SUBSET Int, NEW x \in S, \A y \in S : x >= y
  PROVE  Max(S) = x
<1>1. \E m \in S : \A y \in S : m >= y
  OBVIOUS
<1>2. Max(S) \in S /\ \A y \in S : Max(S) >= y
  BY <1>1 DEF Max
<1>3. Max(S) >= x /\ x >= Max(S) /\ x \in Int /\ Max(S) \in Int
  BY <1>2
<1> QED BY <1>3

\* The walk finds the best way.
LEMMA GreedyIsBest ==
  ASSUME Ladder(arr), NEW val \in Nat, NEW i, StopsAt(arr, i, val)
  PROVE  CostOf(arr, Greedy(arr, i, val)) = Best({CostOf(arr, f) : f \in Takings(arr, val)})
<1> DEFINE n == Len(arr)
           g == Greedy(arr, i, val)
           costs == {CostOf(arr, f) : f \in Takings(arr, val)}
           R == arr[i].Rate
<1>1. n \in Nat /\ i \in 1..n /\ 1 \in 1..n /\ n \in 1..n /\ \A j \in 1..n : arr[j].Rate \in Nat
  BY LadderIs DEF StopsAt
<1>2. g \in Takings(arr, val)
  BY GreedyIs
<1>3. CostOf(arr, g) \in costs /\ costs \in SUBSET Int
  BY <1>2, CostIs
<1>4. ASSUME NEW f \in Takings(arr, val), NEW j \in 1..n
      PROVE  /\ f[j] \in Int /\ g[j] \in Int
             /\ j < i => f[j] <= g[j]
             /\ j > i => f[j] >= g[j]
  <2>1. f[j] \in 0..val /\ g[j] \in 0..val /\ f[j] <= arr[j].Quantity
    BY <1>2 DEF Takings
  <2>2. (j < i => g[j] = arr[j].Quantity) /\ (j > i => g[j] = 0)
    BY <1>1 DEF Greedy
  <2> QED BY <2>1, <2>2
<1> HIDE DEF g, costs
<1>5. Best(costs) = IF arr[1].Rate <= arr[n].Rate THEN Min(costs) ELSE Max(costs)
  BY DEF Best
<1>6. CASE \A j, k \in 1..n : j <= k => arr[j].Rate <= arr[k].Rate
  <2>1. ASSUME NEW f \in Takings(arr, val) PROVE CostOf(arr, g) <= CostOf(arr, f)
    <3>1. ASSUME NEW j \in 1..n
          PROVE  (f[j] >= g[j] /\ arr[j].Rate >= R) \/ (f[j] <= g[j] /\ arr[j].Rate <= R)
      <4>1. f[j] \in Int /\ g[j] \in Int /\ (j < i => f[j] <= g[j]) /\ (j > i => f[j] >= g[j])
        BY <1>4
      <4>2. arr[j].Rate \in Nat /\ R \in Nat /\ (j <= i => arr[j].Rate <= R) /\ (i <= j => arr[j].Rate >= R)
        BY <1>1, <1>6
      <4> HIDE DEF R
      <4> QED BY <1>1, <4>1, <4>2
    <3>2. R \in Nat
      BY <1>1
    <3> HIDE DEF R
    <3>3. CostOf(arr, f) >= CostOf(arr, g)
      BY <1>2, <3>1, <3>2, CostsMore
    <3>4. CostOf(arr, f) \in Int /\ CostOf(arr, g) \in Int
      BY <1>2, CostIs
    <3> QED BY <3>3, <3>4
  <2>2. \A y \in costs : CostOf(arr, g) <= y
    BY <2>1 DEF costs
  <2>3. arr[1].Rate <= arr[n].Rate
    BY <1>1, <1>6
  <2> QED BY <1>3, <1>5, <2>2, <2>3, LeastIs DEF costs, g
<1>7. CASE ~ \A j, k \in 1..n : j <= k => arr[j].Rate <= arr[k].Rate
  <2>1. \A j, k \in 1..n : j <= k => arr[j].Rate >= arr[k].Rate
    BY <1>7 DEF Ladder, BestFirst
  <2>2. ASSUME NEW f \in Takings(arr, val) PROVE CostOf(arr, g) >= CostOf(arr, f)
    <3>1. ASSUME NEW j \in 1..n
          PROVE  (g[j] >= f[j] /\ arr[j].Rate >= R) \/ (g[j] <= f[j] /\ arr[j].Rate <= R)
      <4>1. f[j] \in Int /\ g[j] \in Int /\ (j < i => f[j] <= g[j]) /\ (j > i => f[j] >= g[j])
        BY <1>4
      <4>2. arr[j].Rate \in Nat /\ R \in Nat /\ (j <= i => arr[j].Rate >= R) /\ (i <= j => arr[j].Rate <= R)
        BY <1>1, <2>1
      <4> HIDE DEF R
      <4> QED BY <1>1, <4>1, <4>2
    <3>2. R \in Nat
      BY <1>1
    <3> HIDE DEF R
    <3> QED BY <1>2, <3>1, <3>2, CostsMore
  <2>3. \A y \in costs : CostOf(arr, g) >= y
    BY <2>2 DEF costs
  <2>4. ~ (arr[1].Rate <= arr[n].Rate)
    <3> SUFFICES ASSUME arr[1].Rate <= arr[n].Rate,
                        NEW j \in 1..n, NEW k \in 1..n, j <= k
                 PROVE  arr[j].Rate <= arr[k].Rate
      BY <1>7
    <3>1. arr[1].Rate >= arr[j].Rate /\ arr[k].Rate >= arr[n].Rate
      BY <1>1, <2>1
    <3>2. /\ arr[1].Rate \in Nat /\ arr[n].Rate \in Nat
          /\ arr[j].Rate \in Nat /\ arr[k].Rate \in Nat
      BY <1>1
    <3> QED BY SMTT(60), <3>1, <3>2
  <2> QED BY <1>3, <1>5, <2>3, <2>4, GreatestIs DEF costs, g
<1> QED BY <1>6, <1>7

-----------------------------------------------------------------------------
(* The two fields.                                                         *)

LEMMA StopIs ==
  ASSUME NEW b, Ladder(b), NEW val \in Nat, EnoughAmount(b, val) # {},
         NEW i, i = Min(EnoughAmount(b, val))
  PROVE  /\ StopsAt(b, i, val) /\ (i > 1 => Totals(b)[i-1].amount < val)
         /\ \A j \in 1..Len(b) : Totals(b)[j].amount >= val => i <= j
<1> DEFINE E == EnoughAmount(b, val)
           n == Len(b)
           A == [j \in 0..n |-> Totals(b)[j].amount]
<1>1. n \in Nat /\ E \in SUBSET Nat
  BY LadderIs DEF EnoughAmount
<1>2. i \in E /\ \A j \in E : i <= j
  BY <1>1, MinIs
<1>3. E = {j \in 1..n : A[j] >= val}
  <2>1. \A j \in 1..n : j \in 0..n
    BY <1>1
  <2>2. \A j \in 1..n : A[j] = Totals(b)[j].amount
    BY <2>1
  <2> HIDE DEF A
  <2> QED BY <2>2 DEF EnoughAmount
<1>4. (\A j \in 0..n : A[j] \in Nat) /\ A[0] = 0
  BY <1>1, TotalsAre, TotalsRise
<1> HIDE DEF E, n, A
<1>5. i \in 1..n /\ A[i] >= val /\ i - 1 \in 0..n /\ i \in 0..n
  BY <1>1, <1>2, <1>3
<1>6. i > 1 => A[i-1] < val
  <2> SUFFICES ASSUME i > 1, ~ (A[i-1] < val) PROVE FALSE
    OBVIOUS
  <2>1. i - 1 \in 1..n /\ A[i-1] \in Nat /\ ~ (i <= i - 1)
    BY <1>1, <1>4, <1>5
  <2>2. i - 1 \in E
    BY <1>3, <2>1
  <2> QED BY <1>2, <2>1, <2>2
<1>7. A[i-1] <= val /\ val <= A[i]
  <2>1. i = 1 \/ i > 1
    BY <1>1, <1>5
  <2>2. A[i-1] \in Nat /\ A[i] \in Nat
    BY <1>4, <1>5
  <2> QED BY <1>4, <1>5, <1>6, <2>1, <2>2
<1>8. \A j \in 1..n : A[j] >= val => i <= j
  BY <1>2, <1>3
<1>9. \A j \in 0..n : A[j] = Totals(b)[j].amount
  BY DEF A
<1>10. \A j \in 1..n : j \in 0..n
  BY <1>1
<1> QED BY <1>5, <1>6, <1>7, <1>8, <1>9, <1>10 DEF StopsAt, n

LEMMA PriceStopIs ==
  ASSUME NEW b, Ladder(b), NEW val \in Nat, EnoughPrice(b, val) # {},
         NEW i, i = Min(EnoughPrice(b, val))
  PROVE  i \in 1..Len(b) /\ Totals(b)[i-1].price <= val * Scale /\ val * Scale <= Totals(b)[i].price
<1> DEFINE E == EnoughPrice(b, val)
           n == Len(b)
           v == val * Scale
           P == [j \in 0..n |-> Totals(b)[j].price]
<1>1. n \in Nat /\ E \in SUBSET Nat /\ v \in Nat
  <2>1. \A x, y \in Nat : x * y \in Nat
    OBVIOUS
  <2>2. Scale \in Nat
    BY WalkAssumption
  <2> QED BY <2>1, <2>2, LadderIs DEF EnoughPrice
<1>2. i \in E /\ \A j \in E : i <= j
  BY <1>1, MinIs
<1>3. E = {j \in 1..n : P[j] >= v}
  <2>1. \A j \in 1..n : j \in 0..n
    BY <1>1
  <2>2. \A j \in 1..n : P[j] = Totals(b)[j].price
    BY <2>1
  <2> HIDE DEF P
  <2> QED BY <2>2 DEF EnoughPrice
<1>4. (\A j \in 0..n : P[j] \in Nat) /\ P[0] = 0
  BY <1>1, TotalsAre, TotalsRise
<1>9. \A j \in 0..n : P[j] = Totals(b)[j].price
  OBVIOUS
<1> HIDE DEF E, n, P, v
<1>5. i \in 1..n /\ P[i] >= v /\ i - 1 \in 0..n /\ i \in 0..n
  BY <1>1, <1>2, <1>3
<1>6. i > 1 => P[i-1] < v
  <2> SUFFICES ASSUME i > 1, ~ (P[i-1] < v) PROVE FALSE
    OBVIOUS
  <2>1. i - 1 \in 1..n /\ P[i-1] \in Nat /\ ~ (i <= i - 1)
    BY <1>1, <1>4, <1>5
  <2>2. i - 1 \in E
    BY <1>1, <1>3, <2>1
  <2> QED BY <1>2, <2>1, <2>2
<1>7. P[i-1] <= v /\ v <= P[i]
  <2>1. i = 1 \/ i > 1
    BY <1>1, <1>5
  <2>2. P[i-1] \in Nat /\ P[i] \in Nat
    BY <1>4, <1>5
  <2> QED BY <1>1, <1>4, <1>5, <1>6, <2>1, <2>2
<1> QED BY <1>5, <1>7, <1>9 DEF n, v

LEMMA DivIs ==
  ASSUME NEW x \in Int, NEW d \in Nat, d > 0
  PROVE  x \div d \in Int /\ d * (x \div d) <= x /\ x < d * (x \div d) + d
OBVIOUS

\* n / d, rounded.
LEMMA ShownIs ==
  ASSUME NEW x \in Int, NEW d \in Nat, d > 0
  PROVE  /\ Shown(x, d) \in Int
         /\ 2 * (d * Shown(x, d)) <= 2 * x + d /\ 2 * x + d < 2 * (d * Shown(x, d)) + 2 * d
<1> DEFINE q == (2 * x + d) \div (2 * d)
<1>1. q \in Int /\ (2 * d) * q <= 2 * x + d /\ 2 * x + d < (2 * d) * q + 2 * d
  <2>1. 2 * x + d \in Int /\ 2 * d \in Nat /\ 2 * d > 0
    OBVIOUS
  <2> QED BY <2>1, DivIs
<1>2. Shown(x, d) = q
  BY DEF Shown
<1> HIDE DEF q
<1>3. (2 * d) * q = 2 * (d * q)
  BY <1>1
<1> QED BY <1>1, <1>2, <1>3

\* Rounded there and back: V is the price typed, P what is paid before the
\* last level, A what is bought before it.
Rounds(A, P, Q, R, S, v, a, p) ==
  /\ A \in Nat /\ P \in Nat /\ Q \in Nat /\ R \in Nat /\ R > 0 /\ S \in Nat /\ S > 0 /\ v \in Nat
  /\ P <= v * S /\ v * S <= P + Q * R
  /\ a = Shown(A * R + v * S - P, R) /\ p = Shown(P + (a - A) * R, S)

LEMMA ThereAndBack ==
  ASSUME NEW A, NEW P, NEW Q, NEW R, NEW S, NEW v, NEW a, NEW p, Rounds(A, P, Q, R, S, v, a, p)
  PROVE  a \in Int /\ A <= a /\ a <= A + Q /\ 2 * Abs(v - p) * S <= S + R
<1> SUFFICES
      ASSUME A \in Nat, P \in Nat, Q \in Nat, R \in Nat, R > 0, S \in Nat, S > 0, v \in Nat,
             P <= v * S, v * S <= P + Q * R,
             a = Shown(A * R + v * S - P, R), p = Shown(P + (a - A) * R, S)
      PROVE  a \in Int /\ A <= a /\ a <= A + Q /\ 2 * Abs(v - p) * S <= S + R
  BY DEF Rounds
<1> DEFINE V == v * S
           k == a - A
           y == R * k
           z == S * p
           m == Q * R
           h == A * R
<1>0. \A i, j \in Int : i * j \in Int /\ i * j = j * i
  OBVIOUS
<1>1. V \in Int /\ m \in Int /\ h \in Int
  BY <1>0
<1>2. a \in Int /\ 2 * (R * a) <= 2 * (h + V - P) + R /\ 2 * (h + V - P) + R < 2 * (R * a) + 2 * R
  <2>1. h + V - P \in Int
    BY <1>1
  <2> HIDE DEF h, V
  <2>2. a = Shown(h + V - P, R)
    BY DEF h, V
  <2> QED BY <2>1, <2>2, ShownIs
<1>3. k \in Int /\ y \in Int /\ R * a = h + y
  <2>1. k \in Int
    BY <1>2
  <2>2. R * (A + k) = R * A + R * k
    BY <2>1
  <2>3. a = A + k
    BY <1>2
  <2>4. R * A = h /\ R * k = y
    BY <1>0
  <2>5. y \in Int
    BY <1>0, <2>1
  <2>6. R * a = R * (A + k)
    <3> HIDE DEF k
    <3> QED BY <2>3
  <2> HIDE DEF k, y, h
  <2> QED BY <2>1, <2>2, <2>4, <2>5, <2>6
<1>4. p \in Int /\ 2 * z <= 2 * (P + y) + S /\ 2 * (P + y) + S < 2 * z + 2 * S
  <2>1. (a - A) * R = y /\ P + y \in Int
    BY <1>0, <1>3
  <2> HIDE DEF y
  <2>2. p = Shown(P + y, S)
    BY <2>1
  <2> QED BY <2>1, <2>2, ShownIs
<1>5. z \in Int
  BY <1>0, <1>4
<1>6. 2 * y <= 2 * (V - P) + R /\ 2 * (V - P) + R < 2 * y + 2 * R
  <2> HIDE DEF h, V, y, k
  <2>1. R * a \in Int
    BY <1>0, <1>2
  <2> QED BY <1>1, <1>2, <1>3, <2>1
<1>7. 0 <= V - P /\ V - P <= m
  <2>1. P <= V /\ V <= P + m
    OBVIOUS
  <2> HIDE DEF V, m
  <2> QED BY <1>1, <2>1
<1>8. k >= 0
  <2> SUFFICES ASSUME k <= -1 PROVE FALSE
    BY <1>3
  <2>1. y <= -R
    <3>1. \A i, j \in Nat : i * j \in Nat
      OBVIOUS
    <3>2. -1 - k \in Nat
      BY <1>3
    <3> HIDE DEF k
    <3>3. R * (-1 - k) \in Nat
      BY <3>1, <3>2
    <3>4. R * (-1 - k) = -R - R * k
      BY <1>3
    <3> QED BY <1>3, <3>3, <3>4
  <2> HIDE DEF y, k, V
  <2> QED BY <1>1, <1>3, <1>6, <1>7, <2>1
<1>9. k <= Q
  <2> SUFFICES ASSUME k >= Q + 1 PROVE FALSE
    BY <1>3
  <2>1. y >= m + R
    <3>1. \A i, j \in Nat : i * j \in Nat
      OBVIOUS
    <3>2. k - (Q + 1) \in Nat
      BY <1>3
    <3> HIDE DEF k
    <3>3. R * (k - (Q + 1)) \in Nat
      BY <3>1, <3>2
    <3>4. R * (k - (Q + 1)) = R * k - (Q * R + R)
      BY <1>3
    <3> QED BY <1>3, <3>3, <3>4
  <2> HIDE DEF y, k, V, m
  <2> QED BY <1>1, <1>3, <1>6, <1>7, <2>1
<1>10. 2 * V - 2 * z <= S + R /\ 2 * z - 2 * V <= S + R
  <2> HIDE DEF y, z, V
  <2> QED BY <1>1, <1>3, <1>4, <1>5, <1>6
<1>11. 2 * Abs(v - p) * S <= S + R
  <2>1. (2 * (v - p)) * S = 2 * V - 2 * z
    BY <1>4
  <2>2. (2 * (-(v - p))) * S = 2 * z - 2 * V
    BY <1>4
  <2>3. Abs(v - p) = v - p \/ Abs(v - p) = -(v - p)
    BY DEF Abs
  <2>4. 2 * Abs(v - p) * S = 2 * V - 2 * z \/ 2 * Abs(v - p) * S = 2 * z - 2 * V
    <3> HIDE DEF V, z
    <3> QED BY <2>1, <2>2, <2>3
  <2> HIDE DEF V, z
  <2> QED BY <1>10, <2>4
<1>12. A <= a /\ a <= A + Q
  BY <1>2, <1>8, <1>9
<1> QED BY <1>2, <1>11, <1>12

\* What the fields say of the rows that are coloured.
WalkInv ==
  /\ Ladder(arr)
  /\ rows > 0 =>
       \/ /\ typed = "amount" /\ amount \in Nat
          /\ EnoughAmount(arr, amount) # {} /\ rows = Min(EnoughAmount(arr, amount))
          /\ price = PriceOf(arr, rows, amount)
       \/ /\ typed = "price" /\ price \in Nat
          /\ EnoughPrice(arr, price) # {} /\ rows = Min(EnoughPrice(arr, price))
          /\ amount = AmountOf(arr, rows, price)

\* The first levels of a ladder are one.
LEMMA SentIs == ASSUME NEW b, Ladder(b) PROVE Ladder(Sent(b))
<1> DEFINE n == Len(b)
           k == IF n - 1 < MaxLevels THEN n - 1 ELSE MaxLevels
           s == SubSeq(b, 1, k)
<1>1. n \in Nat /\ \A i \in 1..n : b[i] \in Level
  BY LenProperties DEF Ladder
<1>2. k \in Int /\ k <= n
  BY <1>1, WalkAssumption
<1> HIDE DEF k
<1>3. \A i \in 1..k : b[i] \in Level
  BY <1>1, <1>2
<1>4. /\ s \in Seq(Level) /\ Len(s) = (IF 1 <= k THEN k - 1 + 1 ELSE 0)
      /\ \A i \in 1..(k - 1 + 1) : s[i] = b[1 + i - 1]
  BY <1>2, <1>3, SubSeqProperties
<1>5. \A i \in 1..Len(s) : i \in 1..n /\ s[i] = b[i]
  BY <1>1, <1>2, <1>4
<1>6. Sent(b) = s
  BY DEF Sent, k
<1> HIDE DEF s
<1>7. BestFirst(s)
  BY <1>5 DEF Ladder, BestFirst
<1> QED BY <1>4, <1>6, <1>7 DEF Ladder

LEMMA InitWalkInv == WalkInit => WalkInv
<1> SUFFICES ASSUME WalkInit PROVE WalkInv
  OBVIOUS
<1>1. Ladder(book) /\ arr = Sent(book) /\ rows = 0
  BY WalkAssumption DEF WalkInit, Ladder
<1> QED BY <1>1, SentIs DEF WalkInv

LEMMA NextWalkInv == WalkInv /\ [WalkNext]_walkVars => WalkInv'
<1> SUFFICES ASSUME WalkInv, [WalkNext]_walkVars PROVE WalkInv'
  OBVIOUS
<1>1. Inputs \subseteq Nat
  BY WalkAssumption
<1>2. ASSUME NEW val \in Inputs, TypeAmount(val) PROVE WalkInv'
  <2>1. val \in Nat /\ arr' = arr /\ amount' = val /\ typed' = "amount"
    BY <1>1, <1>2 DEF TypeAmount
  <2>2. CASE EnoughAmount(arr, val) = {}
    BY <1>2, <2>1, <2>2 DEF TypeAmount, WalkInv, Ladder, BestFirst
  <2>3. CASE EnoughAmount(arr, val) # {}
    <3>1. rows' = Min(EnoughAmount(arr, val)) /\ price' = PriceOf(arr, Min(EnoughAmount(arr, val)), val)
      BY <1>2, <2>3 DEF TypeAmount
    <3> QED BY <2>1, <2>3, <3>1 DEF WalkInv
  <2> QED BY <2>2, <2>3
<1>3. ASSUME NEW val \in Inputs, TypePrice(val) PROVE WalkInv'
  <2>1. val \in Nat /\ arr' = arr /\ price' = val /\ typed' = "price"
    BY <1>1, <1>3 DEF TypePrice
  <2>2. CASE EnoughPrice(arr, val) = {}
    BY <1>3, <2>1, <2>2 DEF TypePrice, WalkInv, Ladder, BestFirst
  <2>3. CASE EnoughPrice(arr, val) # {}
    <3>1. rows' = Min(EnoughPrice(arr, val)) /\ amount' = AmountOf(arr, Min(EnoughPrice(arr, val)), val)
      BY <1>3, <2>3 DEF TypePrice
    <3> QED BY <2>1, <2>3, <3>1 DEF WalkInv
  <2> QED BY <2>2, <2>3
<1>4. CASE TypeText
  BY <1>4 DEF TypeText, WalkInv, Ladder, BestFirst
<1>5. CASE UNCHANGED walkVars
  BY <1>5 DEF walkVars, WalkInv
<1> QED BY <1>2, <1>3, <1>4, <1>5 DEF WalkNext

LEMMA WalkInductive == WalkSpec => []WalkInv
BY InitWalkInv, NextWalkInv, PTL DEF WalkSpec

LEMMA WalkIsBest == WalkInv => ColouredPriceIsBest
<1> SUFFICES ASSUME WalkInv, typed = "amount", rows > 0
             PROVE  LET takings == Takings(arr, amount)
                    IN /\ takings # {}
                       /\ price = Shown(Best({CostOf(arr, f) : f \in takings}), Scale)
                       /\ \E f \in takings :
                            /\ CostOf(arr, f) = Best({CostOf(arr, g) : g \in takings})
                            /\ \A i \in 1..Len(arr) : f[i] > 0 => i <= rows
                            /\ rows > 1 => f[rows] > 0
  BY DEF ColouredPriceIsBest
<1> DEFINE takings == Takings(arr, amount)
           best == Best({CostOf(arr, f) : f \in takings})
           g == Greedy(arr, rows, amount)
           n == Len(arr)
<1>1. /\ Ladder(arr) /\ amount \in Nat /\ EnoughAmount(arr, amount) # {}
      /\ rows = Min(EnoughAmount(arr, amount)) /\ price = PriceOf(arr, rows, amount)
  BY DEF WalkInv
<1>2. StopsAt(arr, rows, amount) /\ (rows > 1 => Totals(arr)[rows-1].amount < amount)
  BY <1>1, StopIs
<1>3. g \in takings /\ CostOf(arr, g) = Paid(arr, rows, amount)
  BY <1>1, <1>2, GreedyIs
<1>4. CostOf(arr, g) = best
  BY <1>1, <1>2, GreedyIsBest
<1>5. price = Shown(Paid(arr, rows, amount), Scale)
  BY <1>1 DEF PriceOf, Paid
<1>6. n \in Nat /\ rows \in 1..n /\ rows - 1 \in 0..n
  BY <1>1, <1>2, LadderIs DEF StopsAt
<1>7. \A i \in 1..n : g[i] > 0 => i <= rows
  BY <1>6 DEF Greedy
<1>8. rows > 1 => g[rows] > 0
  <2>1. g[rows] = amount - Totals(arr)[rows-1].amount
    BY <1>6 DEF Greedy
  <2>2. Totals(arr)[rows-1].amount \in Nat
    BY <1>1, <1>6, TotalsRise
  <2> HIDE DEF g
  <2> QED BY <1>1, <1>2, <2>1, <2>2
<1> HIDE DEF g, best
<1>9. /\ takings # {} /\ price = Shown(best, Scale)
      /\ \E f \in takings : /\ CostOf(arr, f) = best
                            /\ \A i \in 1..n : f[i] > 0 => i <= rows
                            /\ rows > 1 => f[rows] > 0
  BY <1>3, <1>4, <1>5, <1>7, <1>8
<1> QED BY <1>9 DEF best

\* The price of the amount that was bought is that of the last coloured row, even
\* if the amount was rounded down to what the rows before it have.
LEMMA SamePrice ==
  ASSUME NEW b, Ladder(b), NEW i \in 1..Len(b), NEW a \in Nat,
         Totals(b)[i-1].amount <= a, a <= Totals(b)[i].amount
  PROVE  /\ EnoughAmount(b, a) # {}
         /\ PriceOf(b, Min(EnoughAmount(b, a)), a) = Shown(Paid(b, i, a), Scale)
<1> DEFINE n == Len(b)
           A == [j \in 0..n |-> Totals(b)[j].amount]
           P == [j \in 0..n |-> Totals(b)[j].price]
           m == Min(EnoughAmount(b, a))
<1>1. n \in Nat /\ i - 1 \in 0..n /\ i \in 0..n
  BY LadderIs
<1>2. (\A j \in 0..n : A[j] \in Nat /\ P[j] \in Nat) /\ (\A j, k \in 0..n : j < k => A[j] < A[k])
  BY TotalsRise
<1>3. ASSUME NEW j \in 1..n
      PROVE  /\ j \in 0..n /\ j - 1 \in 0..n
             /\ A[j] = A[j-1] + b[j].Quantity /\ P[j] = P[j-1] + b[j].Quantity * b[j].Rate
             /\ b[j].Quantity \in Nat /\ b[j].Rate \in Nat
  <2>1. j \in 0..n /\ j - 1 \in 0..n
    BY <1>1
  <2> QED BY <1>1, <2>1, TotalsAre, LadderIs
<1>4. EnoughAmount(b, a) # {}
  <2>1. a \in Nat /\ Totals(b)[i].amount \in Nat
    BY <1>1, TotalsRise
  <2>2. i \in EnoughAmount(b, a)
    BY <2>1 DEF EnoughAmount
  <2> QED BY <2>2
<1>5. m = Min(EnoughAmount(b, a))
  OBVIOUS
<1> HIDE DEF m
<1>6. /\ StopsAt(b, m, a) /\ (m > 1 => Totals(b)[m-1].amount < a)
      /\ \A j \in 1..n : Totals(b)[j].amount >= a => m <= j
  BY <1>4, <1>5, StopIs
<1>7. m \in 1..n /\ m - 1 \in 0..n /\ m \in 0..n
  BY <1>1, <1>6 DEF StopsAt
<1>8. \A j \in 1..n : A[j] >= a => m <= j
  BY <1>3, <1>6
<1>9. A[i-1] <= a /\ a <= A[i] /\ A[m-1] <= a /\ a <= A[m]
  BY <1>1, <1>6, <1>7 DEF StopsAt
<1>10. \A j \in 1..n : Paid(b, j, a) = P[j-1] + (a - A[j-1]) * b[j].Rate
  BY <1>3 DEF Paid
<1> HIDE DEF A, P, n
<1>11. m <= i
  BY <1>1, <1>2, <1>8, <1>9 DEF n
<1>12. CASE m = i
  BY <1>5, <1>4, <1>12 DEF PriceOf, Paid
<1>13. CASE m < i
  <2>1. A[m] = a /\ a = A[i-1]
    <3>1. m = i - 1 \/ m < i - 1
      BY <1>1, <1>7, <1>13
    <3>2. A[m] <= A[i-1] /\ A[m] \in Nat /\ A[i-1] \in Nat
      BY SMTT(60), <1>1, <1>2, <1>7, <3>1
    <3> QED BY <1>9, <3>2
  <2>2. m = i - 1
    <3>1. m = i - 1 \/ m < i - 1
      BY <1>1, <1>7, <1>13
    <3>2. m < i - 1 => A[m] < A[i-1]
      BY <1>1, <1>2, <1>7
    <3>3. A[m] \in Nat /\ A[i-1] \in Nat
      BY <1>1, <1>2, <1>7
    <3> QED BY <2>1, <3>1, <3>2, <3>3
  <2>3. Paid(b, m, a) = P[m]
    <3>1. a - A[m-1] = b[m].Quantity
      BY SMTT(60), <1>2, <1>3, <1>7, <2>1
    <3>2. Paid(b, m, a) = P[m-1] + b[m].Quantity * b[m].Rate
      BY <1>7, <1>10, <3>1
    <3> QED BY <1>3, <1>7, <3>2
  <2>4. Paid(b, i, a) = P[m]
    <3>1. i \in 1..n /\ b[i].Rate \in Nat /\ P[i-1] \in Nat
      BY <1>1, <1>2, <1>3 DEF n
    <3>2. a - A[i-1] = 0
      BY <2>1
    <3>3. Paid(b, i, a) = P[i-1] + 0 * b[i].Rate
      BY <1>10, <3>1, <3>2
    <3> QED BY <2>2, <3>1, <3>3
  <2> QED BY <1>4, <1>5, <2>3, <2>4 DEF PriceOf, Paid
<1> QED BY <1>1, <1>4, <1>7, <1>11, <1>12, <1>13

LEMMA WalkAgrees == WalkInv => FieldsAgree
<1> SUFFICES ASSUME WalkInv, rows > 0, Blank \notin {amount, price}
             PROVE  /\ EnoughAmount(arr, amount) # {}
                    /\ 2 * Abs(price - PriceOf(arr, Min(EnoughAmount(arr, amount)), amount)) * Scale
                         <= Scale + arr[rows].Rate
  BY DEF FieldsAgree
<1>1. Ladder(arr) /\ Scale \in Nat /\ Scale > 0
  BY WalkAssumption DEF WalkInv
<1>2. CASE typed = "amount"
  <2>1. /\ amount \in Nat /\ EnoughAmount(arr, amount) # {}
        /\ rows = Min(EnoughAmount(arr, amount)) /\ price = PriceOf(arr, rows, amount)
    BY <1>2 DEF WalkInv
  <2>2. StopsAt(arr, rows, amount)
    BY <1>1, <2>1, StopIs
  <2>3. rows \in 1..Len(arr) /\ arr[rows].Rate \in Nat
    BY <1>1, <2>2, LadderIs DEF StopsAt
  <2>4. price \in Int
    <3>1. rows - 1 \in 0..Len(arr)
      BY <1>1, <2>3, LadderIs
    <3>2. Totals(arr)[rows-1].price \in Int /\ Totals(arr)[rows-1].amount \in Int
      BY <1>1, <3>1, TotalsRise
    <3>3. \A x, y, z \in Int : x + y * z \in Int
      OBVIOUS
    <3>4. Paid(arr, rows, amount) \in Int
      BY SMTT(60), <2>1, <2>3, <3>2, <3>3 DEF Paid
    <3>5. price = Shown(Paid(arr, rows, amount), Scale)
      BY <2>1 DEF PriceOf, Paid
    <3> QED BY <1>1, <3>4, <3>5, ShownIs
  <2>5. Abs(price - price) = 0
    BY <2>4 DEF Abs
  <2>6. 2 * Abs(price - price) * Scale <= Scale + arr[rows].Rate
    BY <1>1, <2>3, <2>5
  <2> QED BY <2>1, <2>6
<1>3. CASE typed # "amount"
  <2>1. /\ price \in Nat /\ EnoughPrice(arr, price) # {}
        /\ rows = Min(EnoughPrice(arr, price)) /\ amount = AmountOf(arr, rows, price)
    BY <1>3 DEF WalkInv
  <2>2. /\ rows \in 1..Len(arr)
        /\ Totals(arr)[rows-1].price <= price * Scale /\ price * Scale <= Totals(arr)[rows].price
    BY <1>1, <2>1, PriceStopIs
  <2> DEFINE A == Totals(arr)[rows-1].amount
             P == Totals(arr)[rows-1].price
             Q == arr[rows].Quantity
             R == arr[rows].Rate
             p == Shown(P + (amount - A) * R, Scale)
  <2>3. /\ A \in Nat /\ P \in Nat /\ Q \in Nat /\ R \in Nat /\ R > 0
        /\ Totals(arr)[rows].amount = A + Q /\ Totals(arr)[rows].price = P + Q * R
    <3>1. rows - 1 \in 0..Len(arr) /\ Len(arr) \in Nat
      BY <1>1, <2>2, LadderIs
    <3> QED BY <1>1, <2>2, <3>1, LadderIs, TotalsAre, TotalsRise
  <2>4. amount = Shown(A * R + price * Scale - P, R) /\ P <= price * Scale /\ price * Scale <= P + Q * R
    BY <2>1, <2>2, <2>3 DEF AmountOf
  <2>5. p = Shown(P + (amount - A) * R, Scale)
    OBVIOUS
  <2>6. Paid(arr, rows, amount) = P + (amount - A) * R
    BY DEF Paid
  <2> HIDE DEF A, P, Q, R, p
  <2>7. amount \in Int /\ A <= amount /\ amount <= A + Q /\ 2 * Abs(price - p) * Scale <= Scale + R
    <3>1. Rounds(A, P, Q, R, Scale, price, amount, p)
      BY <1>1, <2>1, <2>3, <2>4, <2>5 DEF Rounds
    <3> QED BY <3>1, ThereAndBack
  <2>8. amount \in Nat
    BY <2>3, <2>7
  <2>9. /\ EnoughAmount(arr, amount) # {}
        /\ PriceOf(arr, Min(EnoughAmount(arr, amount)), amount) = p
    <3>1. Totals(arr)[rows-1].amount <= amount /\ amount <= Totals(arr)[rows].amount
      BY <2>3, <2>7 DEF A
    <3>2. /\ EnoughAmount(arr, amount) # {}
          /\ PriceOf(arr, Min(EnoughAmount(arr, amount)), amount)
               = Shown(Paid(arr, rows, amount), Scale)
      BY <1>1, <2>2, <2>8, <3>1, SamePrice
    <3> QED BY <2>5, <2>6, <3>2
  <2> QED BY <2>7, <2>9 DEF R
<1> QED BY <1>2, <1>3

\* While rows are coloured, the price shown for an amount is that of the best way
\* to take it from the levels there are, for any book and amount
\* (utils-dev.js:63-107).
THEOREM PriceIsBest == WalkSpec => []ColouredPriceIsBest
BY WalkInductive, WalkIsBest, PTL

\* And the two fields stand for one purchase, but for what is rounded off
\* (utils-dev.js:63-147).
THEOREM OnePurchase == WalkSpec => []FieldsAgree
BY WalkInductive, WalkAgrees, PTL
=============================================================================
