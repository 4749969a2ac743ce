------------------------- MODULE TgConnectionsProofs -------------------------
(***************************************************************************)
(* Proofs about TgConnections, for every set of connections, every finite  *)
(* set of queries and every bound: the count of a connection is the number *)
(* of its holders, so its memory is there for each of them and is freed    *)
(* once, and open connections are told.                                    *)
(***************************************************************************)
EXTENDS TgConnections, FiniteSetTheorems, TLAPS

-----------------------------------------------------------------------------
(* The inductive invariant.                                                *)

One(b) == IF b THEN 1 ELSE 0
Holders(c) == Cardinality(AsksOf(c)) + One(c \in bev) + One(notify_ev = c) + lost[c]

\* Memory is given back at the count of zero, not later.
Positive == \A c \in Conns : mem[c] = "live" => refcnt[c] > 0

\* A connection asks and loses nothing before it is accepted, and queries under
\* way were asked by somebody.
Askers ==
  /\ \A c \in Conns : mem[c] = "none" => lost[c] = 0 /\ \A q \in Queries : asker[q] # c
  /\ \A q \in waiting : asker[q] # Nobody

\* The process ends by safe_quit only with no query under way.
Quits == halted = "safe_quit" => waiting = {}

IInv ==
  /\ TypeOK
  /\ CountIsHolders
  /\ HoldersFindTheirConnection
  /\ Positive
  /\ Askers
  /\ OpenOnesAreTold
  /\ Quits

USE NamesAssumption, BoundsAssumption

\* AsksOf is finite, so it can be counted.
LEMMA AsksCounted ==
  ASSUME TypeOK, NEW c
  PROVE  IsFiniteSet(AsksOf(c)) /\ Cardinality(AsksOf(c)) \in Nat
<1>1. AsksOf(c) \in SUBSET Queries
  BY DEF AsksOf, TypeOK
<1>2. IsFiniteSet(AsksOf(c))
  BY <1>1, FS_Subset
<1> QED BY <1>2, FS_CardinalityType

\* The invariant in terms of Holders.
RefsAreHolders == \A c \in Conns : mem[c] = "live" => refcnt[c] = Holders(c)

LEMMA Counts ==
  /\ CountIsHolders <=> RefsAreHolders
  /\ CountIsHolders' <=> RefsAreHolders'
<1>1. CountIsHolders <=> RefsAreHolders
  BY DEF CountIsHolders, RefsAreHolders, Holders, One
<1> QED BY <1>1, PTL

\* What nobody holds has no holders, and the converse.
LEMMA HoldersPositive ==
  ASSUME TypeOK, NEW c \in Conns
  PROVE  /\ Holders(c) \in Nat
         /\ c \in bev \/ AsksOf(c) # {} \/ notify_ev = c \/ lost[c] > 0
              <=> Holders(c) > 0
<1>1. lost[c] \in Nat
  BY DEF TypeOK
<1>2. Cardinality(AsksOf(c)) \in Nat /\ (Cardinality(AsksOf(c)) = 0 <=> AsksOf(c) = {})
  BY AsksCounted, FS_EmptySet
<1> QED BY <1>1, <1>2 DEF Holders, One

-----------------------------------------------------------------------------
(* What a step may do to one connection.                                   *)

Held(c) == c \in bev \/ AsksOf(c) # {} \/ notify_ev = c

\* What the count and the number of holders are, before and after the step.
Countable ==
  \A c \in Conns : Holders(c) \in Nat /\ (Held(c) => Holders(c) > 0) /\ refcnt[c] \in Nat

LEMMA AllCountable ==
  (TypeOK => Countable) /\ (TypeOK' => Countable')
<1>1. TypeOK => Countable
  BY HoldersPositive DEF Held, TypeOK, Countable
<1> QED BY <1>1, PTL

Same(c) ==
  /\ mem'[c] = mem[c] /\ refcnt'[c] = refcnt[c]
  /\ Holders(c)' = Holders(c)
  /\ mem[c] # "live" => ~Held(c)'

Moved(c) ==
  /\ mem[c] = "live"
  /\ refcnt'[c] - refcnt[c] = Holders(c)' - Holders(c)
  /\ mem'[c] = IF refcnt'[c] = 0 THEN "freed" ELSE "live"

New(c) == mem[c] = "none" /\ mem'[c] = "live" /\ refcnt'[c] = 1 /\ Holders(c)' = 1

Classified == \A c \in Conns : Same(c) \/ Moved(c) \/ New(c)

\* A step that does no more than that to any connection keeps the count right
\* and the memory of those who are held.
LEMMA ClassifiedKeeps ==
  ASSUME IInv, TypeOK', Classified
  PROVE  CountIsHolders' /\ HoldersFindTheirConnection' /\ Positive'
<1>1. \A c \in Conns : mem[c] = "live" => refcnt[c] = Holders(c) /\ refcnt[c] > 0
  BY Counts DEF IInv, Positive, RefsAreHolders
<1>2. \A c \in Conns : Holders(c) \in Nat /\ refcnt[c] \in Nat
  BY AllCountable DEF IInv, Countable
<1>3. \A c \in Conns : Holders(c)' \in Nat /\ (Held(c)' => Holders(c)' > 0) /\ refcnt'[c] \in Nat
  BY AllCountable DEF Countable
<1>4. ASSUME NEW c \in Conns
      PROVE  /\ mem'[c] = "live" => refcnt'[c] = Holders(c)' /\ refcnt'[c] > 0
             /\ Held(c)' => mem'[c] = "live"
  <2>1. CASE Same(c)
    BY <2>1, <1>1 DEF Same
  <2>2. CASE Moved(c)
    <3>1. refcnt[c] = Holders(c)
      BY <2>2, <1>1 DEF Moved
    <3>2. refcnt'[c] = Holders(c)'
      BY <3>1, <2>2, <1>2, <1>3 DEF Moved
    <3> QED BY <3>2, <2>2, <1>3 DEF Moved
  <2>3. CASE New(c)
    BY <2>3 DEF New
  <2> QED BY <2>1, <2>2, <2>3 DEF Classified
<1>5. CountIsHolders'
  BY <1>4, Counts DEF RefsAreHolders
<1>6. HoldersFindTheirConnection' /\ Positive'
  BY <1>4 DEF HoldersFindTheirConnection, Positive, Held
<1> QED BY <1>5, <1>6

\* A step that leaves what a connection's count depends on alone.
LEMMA Untouched ==
  ASSUME IInv, NEW c \in Conns,
         mem'[c] = mem[c], refcnt'[c] = refcnt[c], lost'[c] = lost[c],
         AsksOf(c)' = AsksOf(c), c \in bev' <=> c \in bev,
         notify_ev' = c <=> notify_ev = c
  PROVE  Same(c)
<1>1. Holders(c)' = Holders(c)
  BY DEF Holders
<1>2. mem[c] # "live" => ~Held(c)'
  BY DEF IInv, HoldersFindTheirConnection, Held
<1> QED BY <1>1, <1>2 DEF Same

-----------------------------------------------------------------------------
(* One lemma per action.                                                   *)

Kept == TypeOK' /\ Classified /\ Askers' /\ OpenOnesAreTold' /\ Quits'

\* accept_incoming: the memory is new, and nobody can point to it yet.
LEMMA AcceptKeeps ==
  ASSUME IInv, halted = "no", NEW c \in Conns, Accept(c)
  PROVE  Kept
<1> USE DEF Accept, queries, flags
<1>1. TypeOK'
  BY DEF IInv, TypeOK
<1>2. (\A q \in Queries : asker[q] # c) /\ lost[c] = 0
  BY DEF IInv, Askers
<1>3. AsksOf(c)' = {} /\ notify_ev # c /\ c \notin bev
  BY <1>2 DEF IInv, HoldersFindTheirConnection, AsksOf, TypeOK
<1>4. New(c)
  <2>1. Holders(c)' = 1
    BY <1>2, <1>3, FS_EmptySet DEF Holders, One
  <2> QED BY <2>1 DEF New, IInv, TypeOK
<1>5. \A d \in Conns \ {c} : Same(d)
  BY Untouched DEF AsksOf, IInv, TypeOK
<1>6. Classified
  BY <1>4, <1>5 DEF Classified
<1>7. Askers' /\ Quits'
  BY DEF IInv, Askers, Quits, TypeOK
<1>8. OpenOnesAreTold'
  BY <1>2 DEF IInv, OpenOnesAreTold, Heard, TypeOK
<1> QED BY <1>1, <1>6, <1>7, <1>8 DEF Kept

\* event_incoming, wherever it is called from.
LEMMA EventIncomingKeeps ==
  ASSUME IInv, NEW c \in Conns, c \in bev, event_incoming(c),
         UNCHANGED <<queries, notify_ev>>
  PROVE  Classified /\ Askers' /\ OpenOnesAreTold'
         /\ mem' \in [Conns -> {"none", "live", "freed"}] /\ bev' \subseteq Conns
         /\ refcnt' \in [Conns -> Nat] /\ lost' \in [Conns -> Nat]
<1> USE DEF event_incoming, Release, queries
<1>1. mem[c] = "live" /\ refcnt[c] > 0
  BY DEF IInv, HoldersFindTheirConnection, Positive
<1>2. /\ mem' \in [Conns -> {"none", "live", "freed"}] /\ bev' \subseteq Conns
      /\ refcnt' \in [Conns -> Nat] /\ lost' \in [Conns -> Nat]
  BY <1>1 DEF IInv, TypeOK
<1>3. Moved(c)
  <2>1. AsksOf(c)' = AsksOf(c)
    BY DEF AsksOf
  <2>2. refcnt[c] \in Nat /\ refcnt'[c] = refcnt[c] - 1
    BY DEF IInv, TypeOK
  <2>3. Holders(c)' - Holders(c) = -1
    <3>1. Cardinality(AsksOf(c)) \in Nat /\ lost[c] \in Nat
      BY AsksCounted DEF IInv, TypeOK
    <3> QED BY <2>1, <3>1 DEF Holders, One
  <2>4. mem'[c] = IF refcnt'[c] = 0 THEN "freed" ELSE "live"
    BY <1>1, <2>2 DEF IInv, TypeOK
  <2>5. refcnt'[c] - refcnt[c] = -1
    BY <2>2
  <2> QED BY <1>1, <2>3, <2>4, <2>5 DEF Moved
<1>4. \A d \in Conns \ {c} : Same(d)
  BY Untouched DEF AsksOf, IInv, TypeOK
<1>5. Classified
  BY <1>3, <1>4 DEF Classified
<1>6. Askers'
  BY <1>1 DEF IInv, Askers, TypeOK
<1>7. OpenOnesAreTold'
  BY DEF IInv, OpenOnesAreTold, Heard
<1> QED BY <1>2, <1>5, <1>6, <1>7

\* The peer closes.
LEMMA CloseKeeps ==
  ASSUME IInv, halted = "no", NEW c \in Conns, Close(c)
  PROVE  Kept
BY EventIncomingKeeps DEF Close, Kept, queries, flags, IInv, TypeOK, Quits

\* A command that answers itself: no count is touched, and no query waits.
LEMMA AskAtOnceKeeps ==
  ASSUME IInv, halted = "no", NEW ev \in Conns \cup {Console}, NEW q \in Queries,
         AskAtOnce(ev, q)
  PROVE  Kept
<1> USE DEF AskAtOnce, conns, flags
<1>1. ev \in bev \cup {Console} /\ ev # Nobody
  BY NamesAssumption DEF Sources, IInv, TypeOK
<1>2. q \notin waiting
  BY DEF IInv, Askers
<1>3. TypeOK'
  BY DEF IInv, TypeOK
<1>4. \A c \in Conns : AsksOf(c)' = AsksOf(c)
  BY <1>2 DEF AsksOf, IInv, TypeOK
<1>5. \A c \in Conns : Same(c)
  BY <1>4, Untouched
<1>6. Classified
  BY <1>5 DEF Classified
<1>7. Askers'
  BY <1>1, <1>2, NamesAssumption DEF IInv, Askers, HoldersFindTheirConnection, TypeOK, Sources
<1>8. OpenOnesAreTold' /\ Quits'
  BY DEF IInv, OpenOnesAreTold, Heard, Quits, TypeOK
<1> QED BY <1>3, <1>6, <1>7, <1>8 DEF Kept

\* A reference is lost: the count and the number of those lost go up together.
LEMMA LoseKeeps ==
  ASSUME IInv, halted = "no", NEW c \in Conns, Lose(c)
  PROVE  Kept
<1> USE DEF Lose, Take, queries, flags
<1>1. TypeOK'
  BY DEF IInv, TypeOK
<1>2. mem[c] = "live" /\ refcnt[c] \in Nat /\ lost[c] \in Nat
  BY DEF IInv, HoldersFindTheirConnection, TypeOK
<1>3. refcnt'[c] = refcnt[c] + 1 /\ lost'[c] = lost[c] + 1
  BY DEF IInv, TypeOK
<1>4. Moved(c)
  <2>1. Cardinality(AsksOf(c)) \in Nat /\ AsksOf(c)' = AsksOf(c)
    BY AsksCounted DEF IInv, AsksOf
  <2>2. Holders(c)' - Holders(c) = 1
    BY <1>2, <1>3, <2>1 DEF Holders, One
  <2> QED BY <1>2, <1>3, <2>2 DEF Moved
<1>5. \A d \in Conns \ {c} : Same(d)
  BY Untouched DEF AsksOf, IInv, TypeOK
<1>6. Classified
  BY <1>4, <1>5 DEF Classified
<1>7. Askers' /\ Quits' /\ OpenOnesAreTold'
  BY <1>2 DEF IInv, Askers, Quits, OpenOnesAreTold, Heard, TypeOK
<1> QED BY <1>1, <1>6, <1>7 DEF Kept

\* A command that asks: as many references as queries.
LEMMA AskKeeps ==
  ASSUME IInv, halted = "no", NEW ev \in Conns \cup {Console},
         NEW qs \in SUBSET Queries, Ask(ev, qs)
  PROVE  Kept
<1> USE DEF Ask, Take, flags
<1>1. IsFiniteSet(qs) /\ Cardinality(qs) \in Nat
  BY FS_Subset, FS_CardinalityType
<1>2. TypeOK'
  BY <1>1 DEF IInv, TypeOK
<1>3. ASSUME ev \in Conns PROVE Moved(ev)
  <2>1. mem[ev] = "live" /\ refcnt[ev] \in Nat /\ lost[ev] \in Nat
    BY <1>3 DEF IInv, HoldersFindTheirConnection, TypeOK, Sources
  <2>2. refcnt'[ev] = refcnt[ev] + Cardinality(qs)
    BY <1>3 DEF IInv, TypeOK
  <2>3. AsksOf(ev)' = AsksOf(ev) \cup qs /\ AsksOf(ev) \cap qs = {}
    BY <1>3 DEF AsksOf, IInv, TypeOK
  <2>4. Cardinality(AsksOf(ev)') = Cardinality(AsksOf(ev)) + Cardinality(qs)
    <3>1. IsFiniteSet(AsksOf(ev)) /\ Cardinality(AsksOf(ev)) \in Nat
      BY AsksCounted DEF IInv
    <3>2. Cardinality(AsksOf(ev) \cup qs) =
            Cardinality(AsksOf(ev)) + Cardinality(qs) - Cardinality(AsksOf(ev) \cap qs)
      BY <1>1, <3>1, FS_Union
    <3>3. Cardinality(AsksOf(ev) \cap qs) = 0
      BY <2>3, FS_EmptySet
    <3> QED BY <1>1, <2>3, <3>1, <3>2, <3>3
  <2>5. Holders(ev)' - Holders(ev) = Cardinality(qs)
    <3>1. Cardinality(AsksOf(ev)) \in Nat
      BY AsksCounted DEF IInv
    <3> QED BY <1>1, <2>1, <2>4, <3>1 DEF Holders, One
  <2>6. mem'[ev] = "live" /\ refcnt'[ev] # 0
    <3>1. refcnt[ev] > 0
      BY <1>3, <2>1 DEF IInv, Positive
    <3> QED BY <1>1, <2>1, <2>2, <3>1
  <2> QED BY <1>1, <2>1, <2>2, <2>5, <2>6 DEF Moved
<1>4. \A d \in Conns \ {ev} : Same(d)
  <2> SUFFICES ASSUME NEW d \in Conns \ {ev} PROVE Same(d)
    OBVIOUS
  <2>1. AsksOf(d)' = AsksOf(d)
    BY DEF AsksOf, IInv, TypeOK
  <2> QED BY <2>1, Untouched DEF IInv, TypeOK
<1>5. Classified
  BY <1>3, <1>4 DEF Classified
<1>6. Askers'
  <2>1. \A c \in Conns : mem'[c] = "none" => c # ev
    BY DEF IInv, HoldersFindTheirConnection, Sources, TypeOK
  <2> QED BY <2>1 DEF IInv, Askers, TypeOK
<1>7. Quits' /\ OpenOnesAreTold'
  BY DEF IInv, Quits, OpenOnesAreTold, Heard, TypeOK
<1> QED BY <1>2, <1>5, <1>6, <1>7 DEF Kept

\* do_main_session: from one connection to another, or to the same.
LEMMA MainSessionKeeps ==
  ASSUME IInv, halted = "no", NEW ev \in Conns \cup {Console}, main_session(ev)
  PROVE  Kept
<1> DEFINE left == IF notify_ev = Nobody THEN refcnt
                   ELSE [refcnt EXCEPT ![notify_ev] = @ - 1]
<1> USE DEF flags, queries
<1>1. /\ ev \in Sources
      /\ notify_ev' = IF ev = Console THEN Nobody ELSE ev
      /\ mem' = IF notify_ev # Nobody /\ left[notify_ev] = 0
                  THEN [mem EXCEPT ![notify_ev] = "freed"] ELSE mem
      /\ refcnt' = IF ev = Console THEN left ELSE [left EXCEPT ![ev] = @ + 1]
      /\ UNCHANGED <<daemonize, halted, bev, lost, queries, flags>>
  BY DEF main_session
<1>2. notify_ev # Nobody => notify_ev \in Conns /\ mem[notify_ev] = "live" /\ refcnt[notify_ev] > 0
  BY DEF IInv, TypeOK, HoldersFindTheirConnection, Positive
<1>3. ev # Console => ev \in Conns /\ ev \in bev /\ mem[ev] = "live" /\ refcnt[ev] > 0
  BY <1>1 DEF IInv, HoldersFindTheirConnection, Positive, Sources
<1>4. \A c \in Conns : refcnt[c] \in Nat /\ lost[c] \in Nat /\ Cardinality(AsksOf(c)) \in Nat
  BY AsksCounted DEF IInv, TypeOK
<1>5. \A c \in Conns : left[c] = IF c = notify_ev THEN refcnt[c] - 1 ELSE refcnt[c]
  BY <1>2 DEF IInv, TypeOK
<1>6. \A c \in Conns : refcnt'[c] = IF c = ev THEN left[c] + 1 ELSE left[c]
  BY <1>1, <1>2 DEF IInv, TypeOK
<1>7. left \in [Conns -> Nat]
  BY <1>2, <1>4 DEF IInv, TypeOK
<1>8. TypeOK'
  BY <1>1, <1>2, <1>3, <1>7 DEF IInv, TypeOK
<1> HIDE DEF left
<1>9. \A c \in Conns : AsksOf(c)' = AsksOf(c)
  BY <1>1 DEF AsksOf
<1>10. \A c \in Conns : One(c \in bev') = One(c \in bev) /\ lost'[c] = lost[c]
  BY <1>1
<1>11. ASSUME NEW c \in Conns PROVE Same(c) \/ Moved(c)
  <2>1. CASE c # notify_ev /\ c # ev
    <3>1. notify_ev' # c
      BY <1>1, <2>1
    <3>2. mem'[c] = mem[c] /\ refcnt'[c] = refcnt[c]
      BY <1>1, <1>5, <1>6, <2>1 DEF IInv, TypeOK
    <3> QED BY <1>1, <1>9, <2>1, <3>1, <3>2, Untouched
  <2>2. CASE c # notify_ev /\ c = ev
    <3>1. notify_ev' = c /\ refcnt'[c] = refcnt[c] + 1 /\ mem[c] = "live"
      BY <1>1, <1>3, <1>5, <1>6, <2>2
    <3>2. mem'[c] = "live"
      BY <1>1, <2>2, <3>1 DEF IInv, TypeOK
    <3>3. Holders(c)' - Holders(c) = 1
      BY <1>1, <1>4, <1>9, <1>10, <2>2, <3>1 DEF Holders, One
    <3> QED BY <1>4, <3>1, <3>2, <3>3 DEF Moved
  <2>3. CASE c = notify_ev /\ c # ev
    <3>1. notify_ev' # c /\ refcnt'[c] = refcnt[c] - 1 /\ mem[c] = "live" /\ left[c] = refcnt[c] - 1
      BY <1>1, <1>2, <1>5, <1>6, <2>3
    <3>2. mem'[c] = IF refcnt'[c] = 0 THEN "freed" ELSE "live"
      BY <1>1, <2>3, <3>1 DEF IInv, TypeOK
    <3>3. Holders(c)' - Holders(c) = -1
      BY <1>1, <1>4, <1>9, <1>10, <2>3, <3>1 DEF Holders, One
    <3> QED BY <1>4, <3>1, <3>2, <3>3 DEF Moved
  <2>4. CASE c = notify_ev /\ c = ev
    <3>1. notify_ev' = c /\ refcnt'[c] = refcnt[c]
      BY <1>1, <1>3, <1>4, <1>5, <1>6, <2>4
    <3>2. refcnt[c] > 1
      <4>1. refcnt[c] = Holders(c)
        BY <1>3, <2>4, Counts DEF RefsAreHolders, IInv
      <4>2. One(c \in bev) = 1 /\ One(notify_ev = c) = 1
        BY <1>3, <2>4 DEF One
      <4>3. Holders(c) = Cardinality(AsksOf(c)) + 1 + 1 + lost[c]
        BY <4>2 DEF Holders
      <4>4. Cardinality(AsksOf(c)) \in Nat /\ lost[c] \in Nat
        BY <1>4
      <4> QED BY <4>1, <4>3, <4>4
    <3>3. mem'[c] = mem[c]
      BY <1>1, <1>4, <1>5, <2>4, <3>2
    <3> QED BY <1>1, <1>9, <2>4, <3>1, <3>3, Untouched
  <2> QED BY <2>1, <2>2, <2>3, <2>4
<1>12. Classified
  BY <1>11 DEF Classified
<1>13. Askers'
  <2>1. \A c \in Conns : mem'[c] = "none" => mem[c] = "none"
    BY <1>1 DEF IInv, TypeOK
  <2> QED BY <1>1, <2>1 DEF IInv, Askers
<1>14. Quits' /\ OpenOnesAreTold'
  BY <1>1 DEF IInv, Quits, OpenOnesAreTold, Heard
<1> QED BY <1>8, <1>12, <1>13, <1>14 DEF Kept

\* A step that changes nothing of the connections.
LEMMA QuietKeeps ==
  ASSUME IInv, UNCHANGED <<conns, asker, notify_ev>>, waiting' = waiting
  PROVE  Classified
<1>1. \A c \in Conns : AsksOf(c)' = AsksOf(c)
  BY DEF AsksOf
<1>2. \A c \in Conns : Same(c)
  BY <1>1, Untouched DEF conns
<1> QED BY <1>2 DEF Classified

\* quit and safe_quit, in a daemon or not.
LEMMA HangupKeeps ==
  ASSUME IInv, halted = "no", NEW ev \in Sources, NEW times, Hangup(ev, times),
         UNCHANGED <<queries, notify_ev>>
  PROVE  Classified /\ Askers' /\ OpenOnesAreTold' /\ halted' \in {"no", "crash"}
         /\ mem' \in [Conns -> {"none", "live", "freed"}] /\ bev' \subseteq Conns
         /\ refcnt' \in [Conns -> Nat] /\ lost' \in [Conns -> Nat]
<1>1. CASE UNCHANGED conns
  <2>1. Classified
    BY <1>1, QuietKeeps DEF queries
  <2> QED BY <1>1, <2>1 DEF Hangup, IInv, TypeOK, Askers, OpenOnesAreTold, Heard, conns, queries
<1>2. CASE ev # Console /\ event_incoming(ev)
  <2>1. ev \in bev /\ ev \in Conns
    BY <1>2 DEF Sources, IInv, TypeOK
  <2>2. halted' \in {"no", "crash"}
    BY <1>2 DEF Hangup
  <2> QED BY <1>2, <2>1, <2>2, EventIncomingKeeps
<1>3. UNCHANGED conns \/ (ev # Console /\ event_incoming(ev))
  BY DEF Hangup
<1> QED BY <1>1, <1>2, <1>3

\* quit: the process ends, or in a daemon the connection does.
LEMMA QuitKeeps ==
  ASSUME IInv, halted = "no", NEW ev, NEW times, quit(ev, times)
  PROVE  Kept
<1>1. CASE daemonize
  <2>1. /\ Classified /\ Askers' /\ OpenOnesAreTold' /\ halted' \in {"no", "crash"}
        /\ mem' \in [Conns -> {"none", "live", "freed"}] /\ bev' \subseteq Conns
        /\ refcnt' \in [Conns -> Nat] /\ lost' \in [Conns -> Nat]
    BY <1>1, HangupKeeps DEF quit
  <2>2. TypeOK' /\ Quits'
    BY <2>1 DEF quit, IInv, TypeOK, queries, Ends, Quits
  <2> QED BY <2>1, <2>2 DEF Kept
<1>2. CASE ~daemonize
  <2>1. Classified
    BY <1>2, QuietKeeps DEF quit, queries
  <2>2. TypeOK' /\ Quits'
    BY <1>2 DEF quit, IInv, TypeOK, conns, queries, Ends, Quits
  <2>3. Askers' /\ OpenOnesAreTold'
    BY <1>2 DEF quit, IInv, Askers, OpenOnesAreTold, Heard, conns, queries
  <2> QED BY <2>1, <2>2, <2>3 DEF Kept
<1> QED BY <1>1, <1>2

\* safe_quit takes note of itself, and hangs up in a daemon.
LEMMA SafeQuitKeeps ==
  ASSUME IInv, halted = "no", NEW ev, NEW times, do_safe_quit(ev, times)
  PROVE  Kept
<1>1. /\ Classified /\ Askers' /\ OpenOnesAreTold' /\ halted' \in {"no", "crash"}
      /\ mem' \in [Conns -> {"none", "live", "freed"}] /\ bev' \subseteq Conns
      /\ refcnt' \in [Conns -> Nat] /\ lost' \in [Conns -> Nat]
  BY HangupKeeps DEF do_safe_quit
<1>2. TypeOK' /\ Quits'
  BY <1>1 DEF do_safe_quit, IInv, TypeOK, queries, Ends, Quits
<1> QED BY <1>1, <1>2 DEF Kept

\* A callback gives back the reference of its query, and tells the asker if
\* that is still open: then another reference is left.
LEMMA CallbackKeeps ==
  ASSUME IInv, halted = "no", NEW q \in Queries, Answer(q)
  PROVE  Kept
<1> USE DEF Answer, Release, flags
<1> DEFINE c == asker[q]
<1>1. q \in waiting /\ c \in Conns \cup {Console}
  BY DEF IInv, TypeOK, Askers
<1>2. c \in Conns => q \in AsksOf(c) /\ mem[c] = "live" /\ refcnt[c] > 0
  BY <1>1 DEF IInv, HoldersFindTheirConnection, AsksOf, Positive
<1>3. TypeOK'
  BY <1>1, <1>2 DEF IInv, TypeOK
<1>4. \A d \in Conns : AsksOf(d)' = IF d = c THEN AsksOf(d) \ {q} ELSE AsksOf(d)
  BY <1>1 DEF AsksOf
<1>5. ASSUME c \in Conns PROVE Moved(c)
  <2>1. Cardinality(AsksOf(c)') = Cardinality(AsksOf(c)) - 1
    <3>1. IsFiniteSet(AsksOf(c)) /\ AsksOf(c)' = AsksOf(c) \ {q}
      BY <1>4, <1>5, AsksCounted DEF IInv
    <3> QED BY ZenonT(60), <1>2, <1>5, <3>1, FS_RemoveElement
  <2>2. refcnt[c] \in Nat /\ lost[c] \in Nat /\ Cardinality(AsksOf(c)) \in Nat
    BY <1>5, AsksCounted DEF IInv, TypeOK
  <2>3. refcnt'[c] = refcnt[c] - 1 /\ c # Console
    BY <1>5 DEF IInv, TypeOK
  <2>4. Holders(c)' - Holders(c) = -1
    BY <2>1, <2>2 DEF Holders, One
  <2>5. mem'[c] = IF refcnt'[c] = 0 THEN "freed" ELSE "live"
    BY <1>2, <1>5, <2>2, <2>3 DEF IInv, TypeOK
  <2>6. refcnt'[c] - refcnt[c] = -1
    BY <2>2, <2>3
  <2> QED BY <1>2, <1>5, <2>4, <2>5, <2>6 DEF Moved
<1>6. ASSUME NEW d \in Conns, d # c PROVE Same(d)
  BY <1>4, <1>6, Untouched DEF IInv, TypeOK
<1>7. Classified
  BY <1>5, <1>6 DEF Classified
<1>8. Askers' /\ Quits'
  <2>1. \A d \in Conns : mem'[d] = "none" => mem[d] = "none"
    BY DEF IInv, TypeOK
  <2> QED BY <2>1 DEF IInv, Askers, Quits
<1>9. OpenOnesAreTold'
  <2>1. ASSUME c \in bev PROVE c \in Conns /\ refcnt[c] > 1
    <3>1. c \in Conns /\ refcnt[c] = Holders(c)
      BY <1>2, <2>1, Counts DEF IInv, TypeOK, RefsAreHolders
    <3>2. Cardinality(AsksOf(c)) \in Nat /\ Cardinality(AsksOf(c)) # 0 /\ lost[c] \in Nat
      <4>1. IsFiniteSet(AsksOf(c)) /\ AsksOf(c) # {}
        BY <1>2, <3>1, AsksCounted DEF IInv
      <4> QED BY <3>1, <4>1, AsksCounted, FS_EmptySet DEF IInv, TypeOK
    <3>3. One(c \in bev) = 1 /\ One(notify_ev = c) \in {0, 1}
      BY <2>1 DEF One
    <3>4. Holders(c) = Cardinality(AsksOf(c)) + 1 + One(notify_ev = c) + lost[c]
      BY <3>3 DEF Holders
    <3> QED BY <3>1, <3>2, <3>3, <3>4
  <2>2. q \in Heard' => q \in told'
    BY <2>1 DEF Heard, Hears
  <2> QED BY <2>2 DEF IInv, OpenOnesAreTold, Heard, TypeOK
<1> QED BY <1>3, <1>7, <1>8, <1>9 DEF Kept

\* Signals and the end of the loop touch no connection, and the loop quits
\* safely only with no query under way.
LEMMA LoopKeeps ==
  ASSUME IInv, halted = "no", Signal \/ LoopTail
  PROVE  Kept
<1> USE DEF Signal, LoopTail
<1>1. Classified
  BY QuietKeeps DEF queries
<1>2. TypeOK' /\ Quits'
  BY DEF IInv, TypeOK, conns, queries, Quits, Ends
<1>3. Askers' /\ OpenOnesAreTold'
  BY DEF IInv, Askers, OpenOnesAreTold, Heard, conns, queries
<1> QED BY <1>1, <1>2, <1>3 DEF Kept

-----------------------------------------------------------------------------
(* The theorems.                                                           *)

\* What any step does under the invariant.
LEMMA StepKeeps ==
  ASSUME IInv, Next
  PROVE  Kept
<1>1. halted = "no"
  BY DEF Next
<1>2. ASSUME NEW c \in Conns, Accept(c) \/ Close(c) \/ Lose(c) PROVE Kept
  BY <1>1, <1>2, AcceptKeeps, CloseKeeps, LoseKeeps
<1>3. ASSUME NEW ev \in Conns \cup {Console}, NEW qs \in SUBSET Queries, Ask(ev, qs)
      PROVE  Kept
  BY <1>1, <1>3, AskKeeps
<1>4. ASSUME NEW ev \in Conns \cup {Console}, main_session(ev) PROVE Kept
  BY <1>1, <1>4, MainSessionKeeps
<1>5. ASSUME NEW ev \in Conns \cup {Console}, NEW times \in 1..MaxTimes,
             quit(ev, times) \/ do_safe_quit(ev, times)
      PROVE  Kept
  BY <1>1, <1>5, QuitKeeps, SafeQuitKeeps
<1>6. ASSUME NEW q \in Queries, Answer(q) PROVE Kept
  BY <1>1, <1>6, CallbackKeeps
<1>7. ASSUME Signal \/ LoopTail PROVE Kept
  BY <1>1, <1>7, LoopKeeps
<1>8. ASSUME NEW ev \in Conns \cup {Console}, NEW q \in Queries, AskAtOnce(ev, q)
      PROVE  Kept
  BY <1>1, <1>8, AskAtOnceKeeps
<1> QED BY <1>2, <1>3, <1>4, <1>5, <1>6, <1>7, <1>8 DEF Next

\* At the start nobody holds anything.
LEMMA InitIInv == Init => IInv
<1> SUFFICES ASSUME Init PROVE IInv
  OBVIOUS
<1>1. TypeOK
  BY DEF Init, TypeOK, Ends
<1> QED BY <1>1 DEF Init, IInv, CountIsHolders, HoldersFindTheirConnection, Positive,
              Askers, OpenOnesAreTold, Heard, Quits, AsksOf

LEMMA NextIInv == IInv /\ [Next]_vars => IInv'
<1>1. ASSUME IInv, Next PROVE IInv'
  <2>1. Kept
    BY <1>1, StepKeeps
  <2>2. CountIsHolders' /\ HoldersFindTheirConnection' /\ Positive'
    BY <1>1, <2>1, ClassifiedKeeps DEF Kept
  <2> QED BY <2>1, <2>2 DEF Kept, IInv
<1>2. ASSUME IInv, UNCHANGED vars PROVE IInv'
  BY <1>2 DEF vars, conns, queries, flags, IInv, TypeOK, CountIsHolders,
              HoldersFindTheirConnection, Positive, Askers, OpenOnesAreTold, Heard, Quits, AsksOf
<1> QED BY <1>1, <1>2

LEMMA Inductive == Spec => []IInv
BY InitIInv, NextIInv, PTL DEF Spec

\* Type correctness (struct in_ev, interface.h).
THEOREM TypeCorrect == Spec => []TypeOK
BY Inductive, PTL DEF IInv

\* The reference count is the number of holders, and of lost references.
THEOREM CountCorrect == Spec => []CountIsHolders
BY Inductive, PTL DEF IInv

\* Whoever points to a connection finds its memory.
THEOREM NoDangling == Spec => []HoldersFindTheirConnection
BY Inductive, PTL DEF IInv

\* Memory nobody points to has been given back, but for lost references.
THEOREM NoLeak == Spec => []NothingLeaks
<1>1. IInv => NothingLeaks
  <2> SUFFICES ASSUME IInv, NEW c \in Conns, mem[c] = "live"
               PROVE  c \in bev \/ AsksOf(c) # {} \/ notify_ev = c \/ lost[c] > 0
    BY DEF NothingLeaks
  <2>1. Holders(c) > 0
    BY Counts DEF IInv, Positive, RefsAreHolders
  <2> QED BY <2>1, HoldersPositive DEF IInv
<1> QED BY <1>1, Inductive, PTL

\* The memory of a connection lives exactly as long as somebody points to it.
THEOREM MemoryHeld == Spec => []MemoryIffHeld
<1>1. HoldersFindTheirConnection /\ NothingLeaks => MemoryIffHeld
  BY DEF MemoryIffHeld
<1> QED BY <1>1, NoDangling, NoLeak, PTL

\* An open connection has been told the end of every query it sent, and the
\* terminal of every one, but for view_* of a connection, which have no output
\* (interface.c:2326-2611).
THEOREM OpenTold == Spec => []OpenOnesAreTold
BY Inductive, PTL DEF IInv

\* safe_quit ends the process only when every query has ended, and whoever is
\* still there and has something to hear of it has been told (loop.c:337-341).
THEOREM SafeQuitHasWaited == Spec => []SafeQuitWaits
<1>1. IInv => SafeQuitWaits
  BY DEF IInv, Quits, OpenOnesAreTold, Heard, SafeQuitWaits
<1> QED BY <1>1, Inductive, PTL

\* Memory that was given back is not given back again, nor counted in.
THEOREM FreedOnce == Spec => FreedForGood
<1> DEFINE A == \A c \in Conns : mem[c] = "freed" => mem'[c] = "freed" /\ refcnt'[c] = refcnt[c]
<1>1. ASSUME IInv, Next PROVE A
  <2>1. Classified
    BY <1>1, StepKeeps DEF Kept
  <2> QED BY <2>1 DEF Classified, Same, Moved, New
<1>2. IInv /\ [Next]_vars => [A]_vars
  BY <1>1
<1> HIDE DEF A
<1>3. Spec => [][A]_vars
  BY <1>2, Inductive, PTL DEF Spec
<1> QED BY <1>3 DEF A, FreedForGood
=============================================================================
