-------------------------- MODULE OrderBookProofs --------------------------
(***************************************************************************)
(* Proofs about OrderBook: its invariants, and that it implements          *)
(* BookService, for every set of exchanges, popups and every bound.        *)
(***************************************************************************)
EXTENDS OrderBook, SequenceTheorems, TLAPS

-----------------------------------------------------------------------------
(* Sequences and response numbers.                                         *)

\* Appending adds one element (the push of getOrderBook).
LEMMA ElementsOfAppend ==
  ASSUME NEW S, NEW s \in Seq(S), NEW x
  PROVE  Elements(Append(s, x)) = Elements(s) \cup {x}
<1>1. Len(Append(s, x)) = Len(s) + 1 /\ Len(s) \in Nat
  OBVIOUS
<1>2. \A i \in 1..Len(s) : Append(s, x)[i] = s[i]
  OBVIOUS
<1>3. Append(s, x)[Len(s) + 1] = x
  OBVIOUS
<1>4. ASSUME NEW y \in Elements(Append(s, x)) PROVE y \in Elements(s) \cup {x}
  <2>1. PICK i \in 1..(Len(s) + 1) : y = Append(s, x)[i]
    BY <1>1, <1>4 DEF Elements
  <2>2. CASE i = Len(s) + 1
    BY <2>1, <2>2, <1>3
  <2>3. CASE i \in 1..Len(s)
    BY <2>1, <2>3, <1>2 DEF Elements
  <2> QED BY <2>2, <2>3, <1>1
<1>5. ASSUME NEW y \in Elements(s) \cup {x} PROVE y \in Elements(Append(s, x))
  <2>1. CASE y = x
    BY <2>1, <1>1, <1>3 DEF Elements
  <2>2. CASE y \in Elements(s)
    <3>1. PICK i \in 1..Len(s) : y = s[i]
      BY <2>2 DEF Elements
    <3> QED BY <3>1, <1>1, <1>2 DEF Elements
  <2> QED BY <2>1, <2>2, <1>5
<1> QED BY <1>4, <1>5

\* Removing the head removes that element only, if no element occurs twice
\* (the shift of a timer).
LEMMA ElementsOfTail ==
  ASSUME NEW S, NEW s \in Seq(S), s # <<>>,
         \A i, j \in 1..Len(s) : s[i] = s[j] => i = j
  PROVE  /\ Head(s) \in Elements(s)
         /\ Elements(Tail(s)) = Elements(s) \ {Head(s)}
<1>1. Len(s) \in Nat \ {0} /\ Len(Tail(s)) = Len(s) - 1 /\ Head(s) = s[1]
  OBVIOUS
<1>2. \A i \in 1..(Len(s) - 1) : Tail(s)[i] = s[i + 1]
  OBVIOUS
<1>3. ASSUME NEW y \in Elements(Tail(s)) PROVE y \in Elements(s) \ {Head(s)}
  <2>1. PICK i \in 1..(Len(s) - 1) : y = s[i + 1]
    BY <1>1, <1>2, <1>3 DEF Elements
  <2>2. i + 1 \in 1..Len(s) /\ i + 1 # 1 /\ 1 \in 1..Len(s)
    BY <1>1
  <2> QED BY <2>1, <2>2, <1>1 DEF Elements
<1>4. ASSUME NEW y \in Elements(s) \ {Head(s)} PROVE y \in Elements(Tail(s))
  <2>1. PICK i \in 1..Len(s) : y = s[i]
    BY <1>4 DEF Elements
  <2>2. i # 1
    BY <2>1, <1>1
  <2>3. i - 1 \in 1..(Len(s) - 1) /\ Tail(s)[i - 1] = s[(i - 1) + 1] /\ (i - 1) + 1 = i
    BY <2>2, <1>1, <1>2
  <2> QED BY <2>1, <2>3, <1>1 DEF Elements
<1>5. Head(s) \in Elements(s)
  BY <1>1 DEF Elements
<1> QED BY <1>3, <1>4, <1>5

-----------------------------------------------------------------------------
(* Type correctness.                                                       *)

\* A request that has arrived names a popup, and its market is a market.
LEMMA AskedMarkets ==
  ASSUME TypeOK, NEW no \in 1..Len(asked)
  PROVE  /\ no \in 1..MaxAsks
         /\ asked[no] \in Popups
         /\ asked[no].market \in Markets
<1>1. no \in 1..MaxAsks
  BY BoundsAssumption DEF TypeOK
<1>2. asked[no] \in Popups
  BY DEF TypeOK
<1> QED BY <1>1, <1>2 DEF Markets

\* The queues after a click hold numbers of requests that have arrived.
LEMMA ClickTypes ==
  ASSUME TypeOK, NEW p \in Popups, Click(p)
  PROVE  TypeOK'
<1> USE DEF TypeOK
<1>1. Len(asked) \in Nat
  OBVIOUS
<1>2. CASE popup[p].open /\ popup' = [popup EXCEPT ![p] = [open |-> FALSE, shows |-> NoBook]]
           /\ UNCHANGED <<asked, queue, dropped>>
  <2>1. popup' \in [Popups -> [open : BOOLEAN, shows : Book \cup {NoBook}]]
    BY <1>2
  <2> QED BY <1>2, <2>1 DEF Click, Markets, Book
<1>3. CASE /\ ~popup[p].open
           /\ Len(asked) < MaxAsks
           /\ popup' = [popup EXCEPT ![p].open = TRUE]
           /\ asked' = Append(asked, p)
           /\ queue' = [e \in Exchanges |-> IF e \in Route(p.ex)
                                            THEN Append(queue[e], Len(asked'))
                                            ELSE queue[e]]
           /\ dropped' = IF Route(p.ex) = {} THEN dropped \cup {Len(asked')} ELSE dropped
  <2>1. asked' \in Seq(Popups) /\ Len(asked') = Len(asked) + 1 /\ Len(asked') <= MaxAsks
    BY <1>1, <1>3, BoundsAssumption
  <2>2. 1..Len(asked) \subseteq 1..Len(asked') /\ Len(asked') \in 1..Len(asked')
    BY <2>1, <1>1
  <2>3. ASSUME NEW e \in Exchanges PROVE queue'[e] \in Seq(1..Len(asked'))
    <3>1. queue[e] \in Seq(1..Len(asked'))
      <4>1. queue[e] \in Seq(1..Len(asked))
        OBVIOUS
      <4> QED BY <4>1, <2>2, SeqMonotonic
    <3> HIDE DEF TypeOK
    <3>2. Append(queue[e], Len(asked')) \in Seq(1..Len(asked'))
      BY <3>1, <2>2
    <3> QED BY <1>3, <3>1, <3>2
  <2>4. queue' \in [Exchanges -> Seq(1..Len(asked'))]
    BY <1>3, <2>3
  <2>5. dropped' \subseteq 1..MaxAsks
    BY <1>3, <2>1, <2>2, BoundsAssumption
  <2>6. popup' \in [Popups -> [open : BOOLEAN, shows : Book \cup {NoBook}]]
    BY <1>3
  <2> QED BY <2>1, <2>4, <2>5, <2>6 DEF Click, Markets, Book
<1> QED BY <1>2, <1>3 DEF Click

\* Every reachable state is well-typed.
THEOREM TypeCorrect == Spec => []TypeOK
<1>1. Init => TypeOK
  BY BoundsAssumption DEF Init, TypeOK, Markets, Book
<1>2. TypeOK /\ [Next]_vars => TypeOK'
  <2> SUFFICES ASSUME TypeOK, [Next]_vars PROVE TypeOK'
    OBVIOUS
  <2>1. CASE ProductsLoaded
    BY <2>1 DEF ProductsLoaded, TypeOK, Markets, Book
  <2>2. ASSUME NEW p \in Popups, Click(p) PROVE TypeOK'
    BY <2>2, ClickTypes
  <2>3. ASSUME NEW e \in Exchanges, Tick(e) PROVE TypeOK'
    <3> DEFINE no == Head(queue[e])
    <3>1. queue[e] \in Seq(1..Len(asked)) /\ queue[e] # <<>>
      BY <2>3 DEF Tick, TypeOK
    <3>2. no \in 1..Len(asked) /\ Tail(queue[e]) \in Seq(1..Len(asked))
      BY <3>1, HeadTailProperties
    <3> DEFINE taken == [no |-> no, book |-> [ex |-> e, market |-> asked[no].market]]
    <3>3. taken \in Fetch
      BY <3>2, AskedMarkets DEF Fetch, Book
    <3>4. queue' \in [Exchanges -> Seq(1..Len(asked))] /\ UNCHANGED asked
      BY <2>3, <3>2 DEF Tick, TypeOK
    <3>5. no \in 1..MaxAsks
      BY <3>2, AskedMarkets
    <3>6. fetching' = fetching \/ fetching' = fetching \cup {taken}
      BY <2>3 DEF Tick
    <3>7. dropped' = dropped \/ dropped' = dropped \cup {no}
      BY <2>3 DEF Tick
    <3>8. alive' \in BOOLEAN
      BY <2>3, BoundsAssumption DEF Tick
    <3>9. fetching' \subseteq Fetch /\ dropped' \subseteq 1..MaxAsks
      BY <3>3, <3>5, <3>6, <3>7 DEF TypeOK
    <3> HIDE DEF taken, no
    <3> QED BY <2>3, <3>4, <3>8, <3>9 DEF Tick, TypeOK, Markets, Book
  <2>4. ASSUME NEW f \in fetching, NEW arr \in {"levels", "undefined"}, BookArrives(f, arr)
        PROVE TypeOK'
    <3>1. Respond(f, arr) \in Reply
      BY DEF TypeOK, Respond, Reply, Fetch
    <3> QED BY <2>4, <3>1 DEF BookArrives, TypeOK, Markets, Book
  <2>5. ASSUME NEW f \in fetching, FetchFails(f) PROVE TypeOK'
    <3> QED BY <2>5, BoundsAssumption DEF FetchFails, Fetch, TypeOK, Markets, Book
  <2>6. ASSUME NEW f \in fetching, FetchThrows(f) PROVE TypeOK'
    BY <2>6 DEF FetchThrows, TypeOK, Markets, Book
  <2>7. ASSUME NEW r \in replies, Show(r) PROVE TypeOK'
    BY ZenonT(60), <2>7 DEF Show, TypeOK, Markets, Book, Reply
  <2>8. CASE UNCHANGED vars
    BY <2>8 DEF vars, TypeOK, Markets, Book
  <2> QED BY <2>1, <2>2, <2>3, <2>4, <2>5, <2>6, <2>7, <2>8 DEF Next
<1> QED BY <1>1, <1>2, PTL DEF Spec

-----------------------------------------------------------------------------
(* Where the requests are, and how a step moves them.                      *)

\* The five places as sets of numbers.
OnePlace ==
  /\ 1..Len(asked) =
       Queued \cup Numbers(fetching) \cup Numbers(replies) \cup Numbers(done) \cup dropped
  /\ Queued \cap (Numbers(fetching) \cup Numbers(replies) \cup Numbers(done) \cup dropped) = {}
  /\ Numbers(fetching) \cap (Numbers(replies) \cup Numbers(done) \cup dropped) = {}
  /\ Numbers(replies) \cap (Numbers(done) \cup dropped) = {}
  /\ Numbers(done) \cap dropped = {}

\* A number stands for one fetch and for one response.
Single ==
  /\ \A f, g \in fetching : f.no = g.no => f = g
  /\ \A r, s \in replies \cup done : r.no = s.no => r = s

\* One more fetch or response adds its number.
LEMMA NumbersOfUnion ==
  ASSUME NEW S, NEW x
  PROVE  Numbers(S \cup {x}) = Numbers(S) \cup {x.no}
BY DEF Numbers

\* One fewer removes its number, if no other has it.
LEMMA NumbersOfDifference ==
  ASSUME NEW S, NEW x \in S, \A y \in S : y.no = x.no => y = x
  PROVE  /\ x.no \in Numbers(S)
         /\ Numbers(S \ {x}) = Numbers(S) \ {x.no}
BY DEF Numbers

\* The numbers in a queue are different.
LEMMA QueuesAreSets ==
  ASSUME TypeOK, QueuesInOrder, NEW e \in Exchanges
  PROVE  /\ queue[e] \in Seq(Nat)
         /\ \A i, j \in 1..Len(queue[e]) : queue[e][i] = queue[e][j] => i = j
<1>1. queue[e] \in Seq(1..Len(asked)) /\ 1..Len(asked) \subseteq Nat
  BY DEF TypeOK
<1>2. queue[e] \in Seq(Nat)
  BY <1>1, SeqMonotonic
<1>3. \A i \in 1..Len(queue[e]) : queue[e][i] \in Nat
  BY <1>2, ElementOfSeq
<1>4. \A i, j \in 1..Len(queue[e]) : i < j => queue[e][i] < queue[e][j]
  BY DEF QueuesInOrder
<1>5. Len(queue[e]) \in Nat
  BY <1>2, LenProperties
<1>6. ASSUME NEW i \in 1..Len(queue[e]), NEW j \in 1..Len(queue[e]), queue[e][i] = queue[e][j]
      PROVE  i = j
  <2>1. ~(i < j) /\ ~(j < i)
    BY <1>3, <1>4, <1>6
  <2> QED BY <2>1, <1>5
<1> QED BY <1>2, <1>6

\* A number in a queue is of a request that arrived, for that exchange.
LEMMA QueuedAreAsked ==
  ASSUME TypeOK, QueuesInOrder, NEW e \in Exchanges, NEW no \in Elements(queue[e])
  PROVE  no \in 1..Len(asked) /\ asked[no].ex = e
<1>1. PICK i \in 1..Len(queue[e]) : no = queue[e][i]
  BY DEF Elements
<1>2. queue[e] \in Seq(1..Len(asked))
  BY DEF TypeOK
<1>3. queue[e][i] \in 1..Len(asked)
  BY <1>2, ElementOfSeq
<1> QED BY <1>1, <1>3 DEF QueuesInOrder

\* A timer takes the oldest request of its own queue and no other.
LEMMA TickMoves ==
  ASSUME TypeOK, QueuesInOrder, NEW e \in Exchanges, Tick(e)
  PROVE  LET no == Head(queue[e])
         IN /\ no \in Elements(queue[e]) /\ no \in Queued
            /\ no \in 1..Len(asked) /\ asked[no].ex = e
            /\ Elements(queue'[e]) = Elements(queue[e]) \ {no}
            /\ Queued' = Queued \ {no}
            /\ \/ Numbers(fetching') = Numbers(fetching) \cup {no} /\ dropped' = dropped
               \/ fetching' = fetching /\ dropped' = dropped \cup {no}
<1> DEFINE no == Head(queue[e])
<1>1. queue[e] # <<>> /\ queue' = [queue EXCEPT ![e] = Tail(@)] /\ queue \in [Exchanges -> Seq(1..Len(asked))]
  BY DEF Tick, TypeOK
<1>2. no \in Elements(queue[e]) /\ Elements(Tail(queue[e])) = Elements(queue[e]) \ {no}
  BY <1>1, QueuesAreSets, ElementsOfTail
<1>3. queue'[e] = Tail(queue[e]) /\ \A f \in Exchanges : f # e => queue'[f] = queue[f]
  BY <1>1
<1>4. no \in 1..Len(asked) /\ asked[no].ex = e
  BY <1>2, QueuedAreAsked
<1>5. \A f \in Exchanges : f # e => no \notin Elements(queue[f])
  BY <1>4, QueuedAreAsked
<1>6. Elements(queue'[e]) = Elements(queue[e]) \ {no}
  BY <1>2, <1>3
<1>7. \A f \in Exchanges : Elements(queue'[f]) = Elements(queue[f]) \ {no}
  BY <1>3, <1>5, <1>6
<1>8. no \in Queued /\ Queued' = Queued \ {no}
  <2>1. Queued' = UNION {Elements(queue'[f]) : f \in Exchanges}
    BY DEF Queued, Elements
  <2> HIDE DEF no
  <2> QED BY <2>1, <1>2, <1>7 DEF Queued
<1>9. \/ Numbers(fetching') = Numbers(fetching) \cup {no} /\ dropped' = dropped
      \/ fetching' = fetching /\ dropped' = dropped \cup {no}
  <2> DEFINE taken == [no |-> no, book |-> [ex |-> e, market |-> asked[no].market]]
  <2>1. \/ fetching' = fetching \cup {taken} /\ dropped' = dropped
        \/ fetching' = fetching /\ dropped' = dropped \cup {no}
    BY DEF Tick
  <2>2. taken.no = no
    OBVIOUS
  <2> HIDE DEF taken, no
  <2> QED BY <2>1, <2>2, NumbersOfUnion
<1> QED BY <1>2, <1>4, <1>6, <1>8, <1>9

\* A click that asks for a book puts the new number in one queue, or drops it.
LEMMA ClickMoves ==
  ASSUME TypeOK, NEW p \in Popups, Click(p), asked' # asked
  PROVE  /\ asked' = Append(asked, p)
         /\ Len(asked') = Len(asked) + 1
         /\ Len(asked') \in 1..MaxAsks
         /\ \A e \in Exchanges :
              queue'[e] = IF e = p.ex THEN Append(queue[e], Len(asked')) ELSE queue[e]
         /\ \/ p.ex \in Exchanges /\ Queued' = Queued \cup {Len(asked')} /\ dropped' = dropped
            \/ p.ex \notin Exchanges /\ Queued' = Queued /\ dropped' = dropped \cup {Len(asked')}
<1> DEFINE new == Len(asked')
<1>1. /\ asked' = Append(asked, p)
      /\ Len(asked) < MaxAsks
      /\ queue' = [e \in Exchanges |-> IF e \in Route(p.ex) THEN Append(queue[e], new) ELSE queue[e]]
      /\ dropped' = IF Route(p.ex) = {} THEN dropped \cup {new} ELSE dropped
  BY DEF Click
<1>2. asked \in Seq(Popups) /\ Len(asked) \in Nat
  BY DEF TypeOK
<1>3. new = Len(asked) + 1 /\ new \in 1..MaxAsks
  BY <1>1, <1>2, BoundsAssumption
<1>4. \A e \in Exchanges : e \in Route(p.ex) <=> e = p.ex
  BY DEF Route
<1> HIDE DEF new
<1>5. \A e \in Exchanges : queue'[e] = IF e = p.ex THEN Append(queue[e], new) ELSE queue[e]
  BY <1>1, <1>4
<1>6. Queued' = UNION {Elements(queue'[f]) : f \in Exchanges}
  BY DEF Queued, Elements
<1>7. CASE p.ex \in Exchanges
  <2>1. queue[p.ex] \in Seq(1..Len(asked))
    BY <1>7 DEF TypeOK
  <2>2. Elements(queue'[p.ex]) = Elements(queue[p.ex]) \cup {new}
    BY <2>1, <1>5, <1>7, ElementsOfAppend
  <2>3. \A f \in Exchanges : f # p.ex => queue'[f] = queue[f]
    BY <1>5
  <2>4. Queued' = Queued \cup {new}
    BY <1>6, <1>7, <2>2, <2>3 DEF Queued
  <2>5. Route(p.ex) # {}
    BY <1>4, <1>7
  <2> QED BY <1>1, <1>3, <1>5, <1>7, <2>4, <2>5 DEF new
<1>8. CASE p.ex \notin Exchanges
  <2>1. Route(p.ex) = {}
    BY <1>8 DEF Route
  <2>2. \A f \in Exchanges : queue'[f] = queue[f]
    BY <1>5, <1>8
  <2>3. Queued' = Queued
    BY <1>6, <2>2 DEF Queued
  <2> QED BY <1>1, <1>3, <1>5, <1>8, <2>1, <2>3 DEF new
<1> QED BY <1>7, <1>8

\* What happens to the places of all requests in one step.
LEMMA Moves ==
  ASSUME TypeOK, QueuesInOrder, Single, [Next]_vars
  PROVE  \/ /\ UNCHANGED <<asked, Queued, dropped>>
            /\ UNCHANGED <<Numbers(fetching), Numbers(replies), Numbers(done)>>
         \/ /\ \E p \in Popups : asked' = Append(asked, p)
            /\ Len(asked') = Len(asked) + 1
            /\ \/ Queued' = Queued \cup {Len(asked')} /\ dropped' = dropped
               \/ Queued' = Queued /\ dropped' = dropped \cup {Len(asked')}
            /\ UNCHANGED <<Numbers(fetching), Numbers(replies), Numbers(done)>>
         \/ \E no \in Queued :
              /\ Queued' = Queued \ {no}
              /\ \/ Numbers(fetching)' = Numbers(fetching) \cup {no} /\ dropped' = dropped
                 \/ Numbers(fetching)' = Numbers(fetching) /\ dropped' = dropped \cup {no}
              /\ UNCHANGED <<asked, Numbers(replies), Numbers(done)>>
         \/ \E no \in Numbers(fetching) :
              /\ Numbers(fetching)' = Numbers(fetching) \ {no}
              /\ \/ Numbers(replies)' = Numbers(replies) \cup {no} /\ dropped' = dropped
                 \/ Numbers(replies)' = Numbers(replies) /\ dropped' = dropped \cup {no}
              /\ UNCHANGED <<asked, Queued, Numbers(done)>>
         \/ \E no \in Numbers(replies) :
              /\ Numbers(replies)' = Numbers(replies) \ {no}
              /\ Numbers(done)' = Numbers(done) \cup {no}
              /\ UNCHANGED <<asked, Queued, Numbers(fetching), dropped>>
<1>1. \A S : Numbers(S) = {r.no : r \in S}
  BY DEF Numbers
<1>2. UNCHANGED queue => UNCHANGED Queued
  BY DEF Queued, Elements
<1>3. CASE ProductsLoaded
  BY <1>2, <1>3 DEF ProductsLoaded, Numbers
<1>4. ASSUME NEW p \in Popups, Click(p), asked' # asked
      PROVE  /\ asked' = Append(asked, p)
             /\ Len(asked') = Len(asked) + 1
             /\ \/ Queued' = Queued \cup {Len(asked')} /\ dropped' = dropped
                \/ Queued' = Queued /\ dropped' = dropped \cup {Len(asked')}
             /\ UNCHANGED <<Numbers(fetching), Numbers(replies), Numbers(done)>>
  <2>1. UNCHANGED <<fetching, replies, done>>
    BY <1>4 DEF Click
  <2>2. UNCHANGED <<Numbers(fetching), Numbers(replies), Numbers(done)>>
    BY <2>1 DEF Numbers
  <2> QED BY <1>4, <2>2, ClickMoves
<1>5. ASSUME NEW p \in Popups, Click(p), asked' = asked
      PROVE  /\ UNCHANGED <<asked, Queued, dropped>>
             /\ UNCHANGED <<Numbers(fetching), Numbers(replies), Numbers(done)>>
  <2>1. asked \in Seq(Popups)
    BY DEF TypeOK
  <2>2. Len(Append(asked, p)) # Len(asked)
    BY <2>1
  <2>3. UNCHANGED <<queue, dropped, fetching, replies, done>>
    BY <1>5, <2>2 DEF Click
  <2> QED BY <1>2, <1>5, <2>3 DEF Numbers
<1>6. ASSUME NEW e \in Exchanges, Tick(e)
      PROVE  \E no \in Queued :
               /\ Queued' = Queued \ {no}
               /\ \/ Numbers(fetching)' = Numbers(fetching) \cup {no} /\ dropped' = dropped
                  \/ Numbers(fetching)' = Numbers(fetching) /\ dropped' = dropped \cup {no}
               /\ UNCHANGED <<asked, Numbers(replies), Numbers(done)>>
  <2>1. UNCHANGED <<asked, replies, done>>
    BY <1>6 DEF Tick
  <2>2. UNCHANGED <<Numbers(replies), Numbers(done)>>
    BY <2>1 DEF Numbers
  <2>3. Numbers(fetching)' = Numbers(fetching')
    BY DEF Numbers
  <2> QED BY <1>6, <2>1, <2>2, <2>3, TickMoves
<1>7. ASSUME NEW f \in fetching, NEW arr, BookArrives(f, arr)
      PROVE  /\ f.no \in Numbers(fetching)
             /\ Numbers(fetching)' = Numbers(fetching) \ {f.no}
             /\ Numbers(replies)' = Numbers(replies) \cup {f.no}
             /\ UNCHANGED <<asked, Queued, Numbers(done), dropped>>
  <2>1. fetching' = fetching \ {f} /\ replies' = replies \cup {Respond(f, arr)}
        /\ UNCHANGED <<asked, queue, done, dropped>>
    BY <1>7 DEF BookArrives
  <2>2. Respond(f, arr).no = f.no
    BY DEF Respond
  <2>3. f.no \in Numbers(fetching) /\ Numbers(fetching \ {f}) = Numbers(fetching) \ {f.no}
    BY NumbersOfDifference DEF Single
  <2>4. Numbers(replies \cup {Respond(f, arr)}) = Numbers(replies) \cup {f.no}
    BY <2>2, NumbersOfUnion
  <2>5. Numbers(fetching)' = Numbers(fetching') /\ Numbers(replies)' = Numbers(replies')
        /\ Numbers(done)' = Numbers(done')
    BY DEF Numbers
  <2> QED BY <1>2, <2>1, <2>3, <2>4, <2>5
<1>8. ASSUME NEW f \in fetching, FetchFails(f)
      PROVE  /\ f.no \in Numbers(fetching)
             /\ Numbers(fetching)' = Numbers(fetching) \ {f.no}
             /\ dropped' = dropped \cup {f.no}
             /\ UNCHANGED <<asked, Queued, Numbers(replies), Numbers(done)>>
  <2>1. fetching' = fetching \ {f} /\ dropped' = dropped \cup {f.no}
        /\ UNCHANGED <<asked, queue, replies, done>>
    BY <1>8 DEF FetchFails
  <2>2. f.no \in Numbers(fetching) /\ Numbers(fetching \ {f}) = Numbers(fetching) \ {f.no}
    BY NumbersOfDifference DEF Single
  <2>3. Numbers(fetching)' = Numbers(fetching') /\ Numbers(replies)' = Numbers(replies')
        /\ Numbers(done)' = Numbers(done')
    BY DEF Numbers
  <2> QED BY <1>2, <2>1, <2>2, <2>3
<1>9. ASSUME NEW f \in fetching, FetchThrows(f)
      PROVE  /\ UNCHANGED <<asked, Queued, dropped>>
             /\ UNCHANGED <<Numbers(fetching), Numbers(replies), Numbers(done)>>
  BY <1>2, <1>9 DEF FetchThrows, Numbers
<1>10. ASSUME NEW r \in replies, Show(r)
       PROVE  /\ r.no \in Numbers(replies)
              /\ Numbers(replies)' = Numbers(replies) \ {r.no}
              /\ Numbers(done)' = Numbers(done) \cup {r.no}
              /\ UNCHANGED <<asked, Queued, Numbers(fetching), dropped>>
  <2>1. replies' = replies \ {r} /\ done' = done \cup {r}
        /\ UNCHANGED <<asked, queue, fetching, dropped>>
    BY <1>10 DEF Show
  <2>2. r.no \in Numbers(replies) /\ Numbers(replies \ {r}) = Numbers(replies) \ {r.no}
    BY NumbersOfDifference DEF Single
  <2>3. Numbers(fetching)' = Numbers(fetching') /\ Numbers(replies)' = Numbers(replies')
        /\ Numbers(done)' = Numbers(done')
    BY DEF Numbers
  <2> QED BY <1>2, <2>1, <2>2, <2>3, NumbersOfUnion
<1>11. CASE UNCHANGED vars
  BY <1>2, <1>11 DEF vars, Numbers
<1> QED BY <1>3, <1>4, <1>5, <1>6, <1>7, <1>8, <1>9, <1>10, <1>11 DEF Next

-----------------------------------------------------------------------------
(* The inductive invariant, conjunct by conjunct.                          *)

\* A request moves from one place to one other place.
LEMMA OnePlaceStep ==
  ASSUME TypeOK, QueuesInOrder, Single, OnePlace, [Next]_vars
  PROVE  OnePlace'
<1> DEFINE Q == Queued
           F == Numbers(fetching)
           R == Numbers(replies)
           D == Numbers(done)
           Parts(n, q, f, r, d, x) ==
             /\ 1..n = q \cup f \cup r \cup d \cup x
             /\ q \cap (f \cup r \cup d \cup x) = {}
             /\ f \cap (r \cup d \cup x) = {}
             /\ r \cap (d \cup x) = {}
             /\ d \cap x = {}
<1>1. Parts(Len(asked), Q, F, R, D, dropped) /\ Len(asked) \in Nat
  BY DEF OnePlace, TypeOK
<1>2. SUFFICES Parts(Len(asked)', Q', F', R', D', dropped')
  BY DEF OnePlace
<1>3. CASE UNCHANGED <<asked, Q, F, R, D, dropped>>
  BY <1>1, <1>3
<1>4. CASE /\ Len(asked') = Len(asked) + 1
           /\ \/ Q' = Q \cup {Len(asked')} /\ dropped' = dropped
              \/ Q' = Q /\ dropped' = dropped \cup {Len(asked')}
           /\ UNCHANGED <<F, R, D>>
  <2>1. 1..Len(asked') = 1..Len(asked) \cup {Len(asked')} /\ Len(asked') \notin 1..Len(asked)
    BY <1>1, <1>4
  <2>2. Len(asked') \notin Q \cup F \cup R \cup D \cup dropped
    BY <1>1, <2>1
  <2> HIDE DEF Q, F, R, D
  <2> QED BY <1>1, <1>4, <2>1, <2>2
<1>5. ASSUME NEW no \in Q, Q' = Q \ {no},
             \/ F' = F \cup {no} /\ dropped' = dropped
             \/ F' = F /\ dropped' = dropped \cup {no},
             UNCHANGED <<asked, R, D>>
      PROVE  Parts(Len(asked)', Q', F', R', D', dropped')
  <2> HIDE DEF Q, F, R, D
  <2> QED BY <1>1, <1>5
<1>6. ASSUME NEW no \in F, F' = F \ {no},
             \/ R' = R \cup {no} /\ dropped' = dropped
             \/ R' = R /\ dropped' = dropped \cup {no},
             UNCHANGED <<asked, Q, D>>
      PROVE  Parts(Len(asked)', Q', F', R', D', dropped')
  <2> HIDE DEF Q, F, R, D
  <2> QED BY <1>1, <1>6
<1>7. ASSUME NEW no \in R, R' = R \ {no}, D' = D \cup {no}, UNCHANGED <<asked, Q, F, dropped>>
      PROVE  Parts(Len(asked)', Q', F', R', D', dropped')
  <2> HIDE DEF Q, F, R, D
  <2> QED BY <1>1, <1>7
<1> HIDE DEF Parts
<1> QED BY <1>3, <1>4, <1>5, <1>6, <1>7, Moves

\* No step makes a second fetch or response for a number.
LEMMA SingleStep ==
  ASSUME TypeOK, QueuesInOrder, Single, OnePlace, [Next]_vars
  PROVE  Single'
<1>1. \A f \in fetching : f.no \in Numbers(fetching)
  BY DEF Numbers
<1>2. \A r \in replies : r.no \in Numbers(replies)
  BY DEF Numbers
<1>3. \A r \in done : r.no \in Numbers(done)
  BY DEF Numbers
<1>4. ASSUME NEW e \in Exchanges, Tick(e) PROVE Single'
  <2> DEFINE taken == [no |-> Head(queue[e]),
                       book |-> [ex |-> e, market |-> asked[Head(queue[e])].market]]
  <2>1. fetching' \subseteq fetching \cup {taken} /\ UNCHANGED <<replies, done>>
    BY <1>4 DEF Tick
  <2>2. Head(queue[e]) \in Queued
    BY <1>4, TickMoves
  <2>3. \A f \in fetching : f.no # taken.no
    BY <1>1, <2>2 DEF OnePlace
  <2> HIDE DEF taken
  <2> QED BY <2>1, <2>3 DEF Single
<1>5. ASSUME NEW f \in fetching, NEW arr, BookArrives(f, arr) PROVE Single'
  <2>1. fetching' \subseteq fetching /\ replies' = replies \cup {Respond(f, arr)} /\ UNCHANGED done
    BY <1>5 DEF BookArrives
  <2>2. Respond(f, arr).no = f.no
    BY DEF Respond
  <2>3. \A r \in replies \cup done : r.no # f.no
    BY <1>1, <1>2, <1>3 DEF OnePlace
  <2> QED BY <2>1, <2>2, <2>3 DEF Single
<1>6. CASE \E f \in fetching : FetchFails(f) \/ FetchThrows(f)
  BY <1>6 DEF FetchFails, FetchThrows, Single
<1>7. CASE \E r \in replies : Show(r)
  <2>1. fetching' = fetching /\ replies' \cup done' = replies \cup done
    BY <1>7 DEF Show
  <2> QED BY <2>1 DEF Single
<1>8. CASE ProductsLoaded \/ (\E p \in Popups : Click(p)) \/ UNCHANGED vars
  BY <1>8 DEF ProductsLoaded, Click, vars, Single
<1> QED BY <1>4, <1>5, <1>6, <1>7, <1>8 DEF Next

\* QueuesInOrder, for one exchange.
Ordered(e) ==
  /\ \A i \in 1..Len(queue[e]) : asked[queue[e][i]].ex = e
  /\ \A i, j \in 1..Len(queue[e]) : i < j => queue[e][i] < queue[e][j]
  /\ \A no \in 1..Len(asked) :
       asked[no].ex = e /\ no \notin Elements(queue[e]) =>
         \A i \in 1..Len(queue[e]) : no < queue[e][i]

\* push and shift keep each queue in order of arrival.
LEMMA InOrderStep ==
  ASSUME TypeOK, QueuesInOrder, [Next]_vars
  PROVE  QueuesInOrder'
<1> SUFFICES ASSUME NEW x \in Exchanges PROVE Ordered(x)'
  BY DEF QueuesInOrder, Ordered
<1>1. Ordered(x)
  BY DEF QueuesInOrder, Ordered
<1>2. queue[x] \in Seq(1..Len(asked)) /\ asked \in Seq(Popups)
  BY DEF TypeOK
<1>3. Len(queue[x]) \in Nat /\ Len(asked) \in Nat
  BY <1>2, LenProperties
<1>4. \A i \in 1..Len(queue[x]) : queue[x][i] \in 1..Len(asked)
  BY <1>2, ElementOfSeq
<1>5. CASE asked' = asked /\ queue'[x] = queue[x]
  BY <1>1, <1>5 DEF Ordered, Elements
<1>6. ASSUME NEW p \in Popups, Click(p), asked' # asked PROVE Ordered(x)'
  <2>1. /\ asked' = Append(asked, p)
        /\ Len(asked') = Len(asked) + 1
        /\ queue'[x] = IF x = p.ex THEN Append(queue[x], Len(asked')) ELSE queue[x]
    BY <1>6, ClickMoves
  <2>2. /\ \A no \in 1..Len(asked) : asked'[no] = asked[no]
        /\ asked'[Len(asked')] = p
    BY <2>1, <1>2
  <2>3. CASE x # p.ex
    <3>1. queue'[x] = queue[x]
      BY <2>1, <2>3
    <3>2. \A i \in 1..Len(queue'[x]) : asked'[queue'[x][i]].ex = x
      BY <3>1, <1>1, <1>4, <2>2 DEF Ordered
    <3>3. ASSUME NEW no \in 1..Len(asked'), asked'[no].ex = x, no \notin Elements(queue'[x])
          PROVE  \A i \in 1..Len(queue'[x]) : no < queue'[x][i]
      <4>1. no # Len(asked')
        BY <3>3, <2>2, <2>3
      <4>2. no \in 1..Len(asked)
        BY <4>1, <2>1, <1>3
      <4> QED BY <4>2, <3>1, <3>3, <2>2, <1>1 DEF Ordered
    <3> QED BY <3>1, <3>2, <3>3, <1>1 DEF Ordered, Elements
  <2>4. CASE x = p.ex
    <3> DEFINE q == queue[x]
               new == Len(asked')
    <3>1. queue'[x] = Append(q, new)
      BY <2>1, <2>4
    <3>2. Len(queue'[x]) = Len(q) + 1 /\ queue'[x][Len(q) + 1] = new
          /\ \A i \in 1..Len(q) : queue'[x][i] = q[i]
      BY <3>1, <1>2
    <3>3. Elements(queue'[x]) = Elements(q) \cup {new}
      BY <3>1, <1>2, ElementsOfAppend
    <3>4. \A i \in 1..Len(queue'[x]) : i \in 1..Len(q) \/ i = Len(q) + 1
      BY <3>2, <1>3
    <3>5. ASSUME NEW i \in 1..Len(queue'[x]) PROVE asked'[queue'[x][i]].ex = x
      <4>1. CASE i \in 1..Len(q)
        <5>1. q[i] \in 1..Len(asked) /\ queue'[x][i] = q[i] /\ asked[q[i]].ex = x
          BY <4>1, <3>2, <1>1, <1>4 DEF Ordered
        <5> QED BY <5>1, <2>2
      <4>2. CASE i = Len(q) + 1
        BY <4>2, <3>2, <2>2, <2>4
      <4> QED BY <4>1, <4>2, <3>4
    <3>6. \A i, j \in 1..Len(queue'[x]) : i < j => queue'[x][i] < queue'[x][j]
      <4> SUFFICES ASSUME NEW i \in 1..Len(queue'[x]), NEW j \in 1..Len(queue'[x]), i < j
                   PROVE  queue'[x][i] < queue'[x][j]
        OBVIOUS
      <4>1. i \in 1..Len(q)
        BY <3>2, <3>4, <1>3
      <4>2. CASE j \in 1..Len(q)
        BY <4>1, <4>2, <3>2, <1>1 DEF Ordered
      <4>3. CASE j = Len(q) + 1
        BY <4>1, <4>3, <3>2, <1>3, <1>4, <2>1
      <4> QED BY <4>2, <4>3, <3>4
    <3>7. ASSUME NEW no \in 1..Len(asked'), asked'[no].ex = x, no \notin Elements(queue'[x]),
                 NEW i \in 1..Len(queue'[x])
          PROVE  no < queue'[x][i]
      <4>1. no # new /\ no \notin Elements(q)
        BY <3>3, <3>7
      <4>2. no \in 1..Len(asked) /\ asked[no].ex = x
        BY <4>1, <3>7, <2>1, <2>2, <1>3
      <4>3. CASE i \in 1..Len(q)
        BY <4>1, <4>2, <4>3, <3>2, <1>1 DEF Ordered
      <4>4. CASE i = Len(q) + 1
        BY <4>2, <4>4, <3>2, <2>1, <1>3
      <4> QED BY <4>3, <4>4, <3>4
    <3> HIDE DEF q, new
    <3> QED BY <3>5, <3>6, <3>7 DEF Ordered, Elements
  <2> QED BY <2>3, <2>4
<1>7. ASSUME Tick(x) PROVE Ordered(x)'
  <2> DEFINE q == queue[x]
  <2>1. q # <<>> /\ queue' = [queue EXCEPT ![x] = Tail(@)] /\ asked' = asked
    BY <1>7 DEF Tick
  <2>2. queue'[x] = Tail(q)
    BY <2>1 DEF TypeOK
  <2>3. /\ Len(q) \in Nat \ {0}
        /\ Len(queue'[x]) = Len(q) - 1
        /\ \A i \in 1..(Len(q) - 1) : queue'[x][i] = q[i + 1]
        /\ Head(q) = q[1]
    <3>1. q \in Seq(1..Len(asked)) /\ q # <<>>
      BY <2>1, <1>2
    <3> HIDE DEF q
    <3>2. /\ Len(q) \in Nat \ {0} /\ Len(Tail(q)) = Len(q) - 1 /\ Head(q) = q[1]
          /\ \A i \in 1..(Len(q) - 1) : Tail(q)[i] = q[i + 1]
      BY <3>1
    <3> QED BY <3>2, <2>2
  <2>4. Elements(queue'[x]) = Elements(q) \ {q[1]}
    BY <1>7, <2>3, TickMoves
  <2>5. \A i \in 1..Len(queue'[x]) : i + 1 \in 1..Len(q) /\ 1 < i + 1 /\ queue'[x][i] = q[i + 1]
    BY <2>3
  <2>6. 1 \in 1..Len(q) /\ \A i \in 1..Len(queue'[x]) : q[1] < queue'[x][i]
    BY <2>3, <2>5, <1>1 DEF Ordered
  <2> HIDE DEF q
  <2>7. \A i \in 1..Len(queue'[x]) : asked'[queue'[x][i]].ex = x
    BY <2>1, <2>5, <1>1 DEF Ordered, q
  <2>8. \A i, j \in 1..Len(queue'[x]) : i < j => queue'[x][i] < queue'[x][j]
    <3> SUFFICES ASSUME NEW i \in 1..Len(queue'[x]), NEW j \in 1..Len(queue'[x]), i < j
                 PROVE  queue'[x][i] < queue'[x][j]
      OBVIOUS
    <3>1. i + 1 < j + 1 /\ i + 1 \in 1..Len(q) /\ j + 1 \in 1..Len(q)
      BY <2>5
    <3> QED BY <3>1, <2>5, <1>1 DEF Ordered, q
  <2>9. ASSUME NEW no \in 1..Len(asked), asked[no].ex = x, no \notin Elements(queue'[x]),
               NEW i \in 1..Len(queue'[x])
        PROVE  no < queue'[x][i]
    <3>1. CASE no = q[1]
      BY <3>1, <2>6
    <3>2. CASE no # q[1]
      <4>1. no \notin Elements(q)
        BY <3>2, <2>4, <2>9
      <4> QED BY <4>1, <2>5, <2>9, <1>1 DEF Ordered, q
    <3> QED BY <3>1, <3>2
  <2> QED BY <2>1, <2>7, <2>8, <2>9 DEF Ordered, Elements
<1>8. ASSUME NEW e \in Exchanges, Tick(e), e # x PROVE asked' = asked /\ queue'[x] = queue[x]
  BY <1>8 DEF Tick, TypeOK
<1>9. ASSUME NEW p \in Popups, Click(p), asked' = asked PROVE queue'[x] = queue[x]
  <2>1. Len(Append(asked, p)) # Len(asked)
    BY <1>2, <1>3
  <2> QED BY <1>9, <2>1 DEF Click
<1>10. CASE \/ ProductsLoaded
            \/ \E f \in fetching :
                 \/ \E arr \in {"levels", "undefined"} : BookArrives(f, arr)
                 \/ FetchFails(f)
                 \/ FetchThrows(f)
            \/ \E r \in replies : Show(r)
            \/ UNCHANGED vars
  BY <1>5, <1>10 DEF ProductsLoaded, BookArrives, FetchFails, FetchThrows, Show, vars
<1> QED BY <1>5, <1>6, <1>7, <1>8, <1>9, <1>10 DEF Next

\* Every fetch and every response is for the book its request asked for.
Own(p) == [ex |-> p.ex, market |-> p.market]

OwnBooks ==
  \A f \in fetching \cup replies \cup done :
    f.no \in 1..Len(asked) /\ f.book = Own(asked[f.no])

\* Requests that have arrived do not change.
LEMMA AskedGrows ==
  ASSUME TypeOK, [Next]_vars
  PROVE  /\ Len(asked) \in Nat /\ Len(asked') \in Nat
         /\ Len(asked) <= Len(asked')
         /\ \A no \in 1..Len(asked) : no \in 1..Len(asked') /\ asked'[no] = asked[no]
<1>1. asked \in Seq(Popups) /\ Len(asked) \in Nat
  BY DEF TypeOK
<1>2. CASE asked' = asked
  BY <1>1, <1>2
<1>3. ASSUME NEW p \in Popups, asked' = Append(asked, p)
      PROVE  /\ Len(asked') = Len(asked) + 1
             /\ \A no \in 1..Len(asked) : asked'[no] = asked[no]
  BY <1>1, <1>3
<1>4. asked' = asked \/ \E p \in Popups : asked' = Append(asked, p)
  BY DEF Next, vars, ProductsLoaded, Click, Tick, BookArrives, FetchFails, FetchThrows, Show
<1> QED BY <1>1, <1>2, <1>3, <1>4

\* A fetch and its response stay with the market of the request.
LEMMA OwnBooksStep ==
  ASSUME TypeOK, QueuesInOrder, OwnBooks, [Next]_vars
  PROVE  OwnBooks'
<1>1. \A no \in 1..Len(asked) : no \in 1..Len(asked') /\ Own(asked'[no]) = Own(asked[no])
  BY AskedGrows
<1>2. SUFFICES ASSUME NEW f \in fetching' \cup replies' \cup done'
               PROVE  f.no \in 1..Len(asked) /\ f.book = Own(asked[f.no])
  BY <1>1 DEF OwnBooks, Own
<1>3. CASE f \in fetching \cup replies \cup done
  BY <1>3 DEF OwnBooks
<1>4. ASSUME NEW e \in Exchanges, Tick(e), f \notin fetching \cup replies \cup done
      PROVE  f.no \in 1..Len(asked) /\ f.book = Own(asked[f.no])
  <2> DEFINE no == Head(queue[e])
             taken == [no |-> no, book |-> [ex |-> e, market |-> asked[no].market]]
  <2>1. fetching' \subseteq fetching \cup {taken} /\ UNCHANGED <<replies, done>>
    BY <1>4 DEF Tick
  <2>2. f = taken
    BY <2>1, <1>2, <1>4
  <2>3. no \in 1..Len(asked) /\ asked[no].ex = e
    BY <1>4, TickMoves
  <2> QED BY <2>2, <2>3 DEF Own
<1>5. ASSUME NEW g \in fetching, NEW arr, BookArrives(g, arr), f \notin fetching \cup replies \cup done
      PROVE  f.no \in 1..Len(asked) /\ f.book = Own(asked[f.no])
  <2>1. f = Respond(g, arr)
    BY <1>2, <1>5 DEF BookArrives
  <2>2. f.no = g.no /\ f.book = g.book
    BY <2>1 DEF Respond
  <2> QED BY <2>2 DEF OwnBooks
<1>6. CASE \/ ProductsLoaded
           \/ \E p \in Popups : Click(p)
           \/ \E g \in fetching : FetchFails(g) \/ FetchThrows(g)
           \/ \E r \in replies : Show(r)
           \/ UNCHANGED vars
  <2>1. fetching' \cup replies' \cup done' \subseteq fetching \cup replies \cup done
    BY <1>6 DEF ProductsLoaded, Click, FetchFails, FetchThrows, Show, vars
  <2> QED BY <2>1, <1>2, <1>3
<1> QED BY <1>3, <1>4, <1>5, <1>6 DEF Next

\* What a response writes to a popup is that popup's book.
LEMMA ShownStep ==
  ASSUME TypeOK, OwnBooks, ShownBookIsItsOwn, [Next]_vars
  PROVE  ShownBookIsItsOwn'
<1> SUFFICES ASSUME NEW p \in Popups, popup'[p].shows # NoBook
             PROVE  popup'[p].shows = Own(p)
  BY DEF ShownBookIsItsOwn, Own
<1>1. popup[p].shows # NoBook => popup[p].shows = Own(p)
  BY DEF ShownBookIsItsOwn, Own
<1>2. popup \in [Popups -> [open : BOOLEAN, shows : Book \cup {NoBook}]]
  BY DEF TypeOK
<1>3. ASSUME NEW c \in Popups, Click(c) PROVE popup'[p].shows \in {popup[p].shows, NoBook}
  <2>1. \/ popup' = [popup EXCEPT ![c] = [open |-> FALSE, shows |-> NoBook]]
        \/ popup' = [popup EXCEPT ![c].open = TRUE]
    BY <1>3 DEF Click
  <2> QED BY <2>1, <1>2
<1>4. ASSUME NEW r \in replies, Show(r) PROVE popup'[p].shows \in {popup[p].shows, Own(p)}
  <2>1. r.no \in 1..Len(asked) /\ r.book = Own(asked[r.no])
    BY DEF OwnBooks
  <2>2. popup' = popup \/ popup' = [popup EXCEPT ![asked[r.no]].shows = r.book]
    BY <1>4 DEF Show
  <2>3. popup'[p].shows = popup[p].shows \/ (p = asked[r.no] /\ popup'[p].shows = r.book)
    BY <2>2, <1>2
  <2> QED BY <2>1, <2>3
<1>5. CASE popup' = popup
  BY <1>1, <1>5
<1>6. popup' = popup \/ (\E c \in Popups : Click(c)) \/ (\E r \in replies : Show(r))
  BY DEF Next, vars, ProductsLoaded, Tick, BookArrives, FetchFails, FetchThrows
<1> QED BY <1>1, <1>3, <1>4, <1>5, <1>6

\* The reason a spinner has, for one popup.
Waits(p) ==
  \E no \in 1..Len(asked) :
    /\ asked[no] = p
    /\ \A later \in (no + 1)..Len(asked) : asked[later] # p
    /\ \A r \in done : r.no = no => r.arr = "undefined"

\* Opening a popup makes a reason for its spinner, and a list clears it.
LEMMA SpinnerStep ==
  ASSUME TypeOK, OnePlace, OwnBooks, SpinnerHasAReason, [Next]_vars
  PROVE  SpinnerHasAReason'
<1> SUFFICES ASSUME NEW p \in Popups, popup'[p].open, popup'[p].shows = NoBook
             PROVE  Waits(p)'
  BY DEF SpinnerHasAReason, Waits
<1>1. popup[p].open /\ popup[p].shows = NoBook => Waits(p)
  BY DEF SpinnerHasAReason, Waits
<1>2. popup \in [Popups -> [open : BOOLEAN, shows : Book \cup {NoBook}]]
  BY DEF TypeOK
<1>3. asked \in Seq(Popups) /\ Len(asked) \in Nat
  BY DEF TypeOK
<1>4. \A r \in done : r.no \in 1..Len(asked)
  BY DEF OwnBooks
<1>5. CASE UNCHANGED <<popup, asked, done>>
  BY <1>1, <1>5 DEF Waits
<1>6. ASSUME NEW c \in Popups, Click(c) PROVE Waits(p)'
  <2>1. done' = done
    BY <1>6 DEF Click
  <2>2. CASE asked' = asked
    <3>1. Len(Append(asked, c)) # Len(asked)
      BY <1>3
    <3>2. popup' = [popup EXCEPT ![c] = [open |-> FALSE, shows |-> NoBook]]
      BY <1>6, <2>2, <3>1 DEF Click
    <3>3. popup[p].open /\ popup[p].shows = NoBook
      BY <3>2, <1>2
    <3> QED BY <1>1, <3>3, <2>1, <2>2 DEF Waits
  <2>3. CASE asked' # asked
    <3> DEFINE new == Len(asked')
    <3>1. asked' = Append(asked, c) /\ new = Len(asked) + 1
      BY <1>6, <2>3, ClickMoves
    <3>2. asked'[new] = c /\ \A no \in 1..Len(asked) : asked'[no] = asked[no]
      BY <3>1, <1>3
    <3>3. CASE p = c
      <4>1. \A r \in done : r.no # new
        BY <1>3, <1>4, <3>1
      <4>2. new \in 1..new /\ (new + 1)..new = {}
        BY <1>3, <3>1
      <4> QED BY <3>2, <3>3, <4>1, <4>2, <2>1 DEF Waits
    <3>4. CASE p # c
      <4>1. popup' = [popup EXCEPT ![c].open = TRUE]
        BY <1>6, <2>3 DEF Click
      <4>2. Waits(p)
        BY <4>1, <3>4, <1>1, <1>2
      <4>3. PICK no \in 1..Len(asked) :
               /\ asked[no] = p
               /\ \A later \in (no + 1)..Len(asked) : asked[later] # p
               /\ \A r \in done : r.no = no => r.arr = "undefined"
        BY <4>2 DEF Waits
      <4>4. no \in 1..new /\ asked'[no] = p
        BY <4>3, <3>1, <3>2, <1>3
      <4>5. ASSUME NEW later \in (no + 1)..new PROVE asked'[later] # p
        <5>1. later = new \/ later \in (no + 1)..Len(asked)
          BY <3>1, <1>3
        <5>2. CASE later = new
          BY <5>2, <3>2, <3>4
        <5>3. CASE later \in (no + 1)..Len(asked)
          <6>1. later \in 1..Len(asked)
            BY <5>3, <1>3
          <6> QED BY <6>1, <5>3, <4>3, <3>2
        <5> QED BY <5>1, <5>2, <5>3
      <4> HIDE DEF new
      <4> QED BY <4>3, <4>4, <4>5, <2>1 DEF Waits, new
    <3> QED BY <3>3, <3>4
  <2> QED BY <2>2, <2>3
<1>7. ASSUME NEW r \in replies, Show(r) PROVE Waits(p)'
  <2>1. /\ asked' = asked
        /\ done' = done \cup {r}
        /\ popup' = IF popup[asked[r.no]].open /\ r.arr = "levels"
                    THEN [popup EXCEPT ![asked[r.no]].shows = r.book]
                    ELSE popup
    BY <1>7 DEF Show
  <2>2. r \in Reply /\ r.no \in 1..Len(asked) /\ r.book # NoBook
    <3>1. r \in Reply
      BY DEF TypeOK
    <3>2. r.book.ex \in AllExchanges
      BY <3>1, ExchangesAssumption DEF Reply, Book
    <3>3. "none" \notin AllExchanges
      BY DEF AllExchanges
    <3>4. r.book # NoBook
      BY <3>2, <3>3 DEF NoBook
    <3>5. r.no \in 1..Len(asked)
      BY DEF OwnBooks
    <3> QED BY <3>1, <3>4, <3>5
  <2>3. popup[p].open /\ popup[p].shows = NoBook
    BY <2>1, <2>2, <1>2
  <2>4. asked[r.no] = p => r.arr = "undefined"
    <3> SUFFICES ASSUME asked[r.no] = p, r.arr # "undefined" PROVE FALSE
      OBVIOUS
    <3>1. r.arr = "levels"
      BY <2>2 DEF Reply
    <3>2. popup'[p].shows = r.book
      BY <2>1, <2>3, <3>1, <1>2
    <3> QED BY <3>2, <2>2
  <2> QED BY <1>1, <2>1, <2>3, <2>4 DEF Waits
<1>8. UNCHANGED <<popup, asked, done>> \/ (\E c \in Popups : Click(c)) \/ (\E r \in replies : Show(r))
  BY DEF Next, vars, ProductsLoaded, Tick, BookArrives, FetchFails, FetchThrows
<1> QED BY <1>5, <1>6, <1>7, <1>8

\* The inductive invariant: the safety properties and the places that make
\* them inductive.
IInv ==
  /\ TypeOK
  /\ OnePlace
  /\ Single
  /\ QueuesInOrder
  /\ OwnBooks
  /\ ShownBookIsItsOwn
  /\ SpinnerHasAReason

\* Every reachable state satisfies the inductive invariant.
LEMMA Inductive == Spec => []IInv
<1>1. Init => IInv
  <2> SUFFICES ASSUME Init PROVE IInv
    OBVIOUS
  <2>1. TypeOK
    BY BoundsAssumption DEF Init, TypeOK, Markets, Book
  <2>2. Len(asked) = 0 /\ \A e \in Exchanges : queue[e] = <<>> /\ Elements(queue[e]) = {}
    BY DEF Init, Elements
  <2>3. Queued = {} /\ Numbers(fetching) = {} /\ Numbers(replies) = {} /\ Numbers(done) = {}
    BY <2>2 DEF Init, Queued, Numbers
  <2>4. OnePlace /\ Single /\ OwnBooks
    BY <2>2, <2>3 DEF Init, OnePlace, Single, OwnBooks
  <2>5. QueuesInOrder
    <3>1. 1..Len(asked) = {} /\ \A e \in Exchanges : 1..Len(queue[e]) = {}
      BY <2>2
    <3> QED BY <3>1 DEF QueuesInOrder
  <2>6. ShownBookIsItsOwn /\ SpinnerHasAReason
    BY DEF Init, ShownBookIsItsOwn, SpinnerHasAReason
  <2> QED BY <2>1, <2>4, <2>5, <2>6 DEF IInv
<1>2. IInv /\ TypeOK' /\ [Next]_vars => IInv'
  BY OnePlaceStep, SingleStep, InOrderStep, OwnBooksStep, ShownStep, SpinnerStep DEF IInv
<1> QED BY <1>1, <1>2, TypeCorrect, PTL DEF Spec

-----------------------------------------------------------------------------
(* The safety properties.                                                  *)

\* No request goes missing and none is in two places, for any number of
\* exchanges, popups and requests.
THEOREM NoneLostNoneTwice == Spec => []EachRequestInOnePlace
<1>1. IInv => EachRequestInOnePlace
  <2> SUFFICES ASSUME IInv PROVE EachRequestInOnePlace
    OBVIOUS
  <2> DEFINE places ==
        <<Queued, Numbers(fetching), Numbers(replies), Numbers(done), dropped>>
  <2>1. OnePlace /\ Single /\ Len(asked) \in Nat /\ Len(asked) <= MaxAsks /\ MaxAsks \in Nat
    BY BoundsAssumption DEF IInv, TypeOK
  <2>2. \A i \in 1..5 : i = 1 \/ i = 2 \/ i = 3 \/ i = 4 \/ i = 5
    OBVIOUS
  <2>3. /\ places[1] = Queued /\ places[2] = Numbers(fetching) /\ places[3] = Numbers(replies)
        /\ places[4] = Numbers(done) /\ places[5] = dropped
    OBVIOUS
  <2>4. \A i, j \in 1..5 : i # j => places[i] \cap places[j] = {}
    <3> HIDE DEF places
    <3> QED BY <2>1, <2>2, <2>3 DEF OnePlace
  <2>5. ASSUME NEW no \in 1..MaxAsks
        PROVE  no <= Len(asked) <=> \E i \in 1..5 : no \in places[i]
    <3>1. no <= Len(asked) <=> no \in 1..Len(asked)
      BY <2>1
    <3> HIDE DEF places
    <3>2. no \in 1..Len(asked) <=>
            \/ no \in places[1] \/ no \in places[2] \/ no \in places[3]
            \/ no \in places[4] \/ no \in places[5]
      BY <2>1, <2>3 DEF OnePlace
    <3> QED BY <3>1, <3>2, <2>2
  <2> QED BY <2>1, <2>4, <2>5 DEF EachRequestInOnePlace, Single
<1> QED BY <1>1, Inductive, PTL

\* Each exchange's requests are taken in the order they arrived in.
THEOREM FirstComeFirstServed == Spec => []QueuesInOrder
<1>1. IInv => QueuesInOrder
  BY DEF IInv
<1> QED BY <1>1, Inductive, PTL

\* However fetches and responses overlap, a popup never shows another's book.
THEOREM OwnBookShown == Spec => []ShownBookIsItsOwn
<1>1. IInv => ShownBookIsItsOwn
  BY DEF IInv
<1> QED BY <1>1, Inductive, PTL

\* A spinner stays only for the reasons SpinnerHasAReason lists.
THEOREM SpinnersHaveReasons == Spec => []SpinnerHasAReason
<1>1. IInv => SpinnerHasAReason
  BY DEF IInv
<1> QED BY <1>1, Inductive, PTL

-----------------------------------------------------------------------------
(* The queues implement the service.                                       *)

\* What the service has promised for a request, by the place it is in.
Promised(no) ==
  IF no \in dropped THEN Service!Dropped
  ELSE IF no \in Numbers(replies) \cup Numbers(done)
       THEN [is |-> "answered", book |-> Own(asked[no])]
       ELSE IF no \in Queued \cup Numbers(fetching) THEN Service!Pending
            ELSE Service!Unasked

\* The mapped outcome is what the places promise.
Kept == Outcome = [no \in 1..MaxAsks |-> Promised(no)]

\* The refinement mapping, read off the place a request is in.
LEMMA OutcomeByPlace ==
  ASSUME IInv
  PROVE  Kept
<1> SUFFICES ASSUME NEW no \in 1..MaxAsks PROVE Outcome[no] = Promised(no)
  BY DEF Outcome, Kept
<1>1. OnePlace /\ Single /\ OwnBooks
  BY DEF IInv
<1>2. Service!NoBook = NoBook
  BY DEF NoBook, Service!NoBook
<1>3. (\E r \in replies \cup done : r.no = no) <=> no \in Numbers(replies) \cup Numbers(done)
  BY DEF Numbers
<1>4. CASE no \in dropped
  <2>1. no \notin Numbers(replies) \cup Numbers(done)
    BY <1>1, <1>4 DEF OnePlace
  <2> QED BY <1>2, <1>3, <1>4, <2>1 DEF Outcome, Promised, Service!Dropped
<1>5. CASE no \in Numbers(replies) \cup Numbers(done)
  <2>1. no \notin dropped
    BY <1>1, <1>5 DEF OnePlace
  <2>2. (CHOOSE r \in replies \cup done : r.no = no).book = Own(asked[no])
    BY <1>1, <1>3, <1>5 DEF OwnBooks
  <2> QED BY <1>3, <1>5, <2>1, <2>2 DEF Outcome, Promised
<1>6. CASE no \in Queued \cup Numbers(fetching)
  <2>1. no \in 1..Len(asked) /\ no \notin dropped /\ no \notin Numbers(replies) \cup Numbers(done)
    BY <1>1, <1>6 DEF OnePlace
  <2> QED BY <1>2, <1>3, <1>6, <2>1 DEF Outcome, Promised, Service!Pending
<1>7. CASE no \notin 1..Len(asked)
  <2>1. /\ no \notin dropped /\ no \notin Numbers(replies) \cup Numbers(done)
        /\ no \notin Queued \cup Numbers(fetching)
    BY <1>1, <1>7 DEF OnePlace
  <2> QED BY <1>2, <1>3, <1>7, <2>1 DEF Outcome, Promised, Service!Unasked
<1> QED BY <1>1, <1>4, <1>5, <1>6, <1>7 DEF OnePlace

\* The queues, timers and browsers of OrderBook implement BookService.
THEOREM Implementation == Spec => ImplementsService
<1>1. Init => Service!Init
  <2> SUFFICES ASSUME Init PROVE Service!Init
    OBVIOUS
  <2>1. Outcome = [no \in 1..MaxAsks |-> Service!Unasked]
    BY DEF Init, Outcome, NoBook, Service!Unasked, Service!NoBook
  <2> QED BY <2>1 DEF Init, Service!Init
<1>2. IInv => Kept
  BY OutcomeByPlace
<1>3. IInv' => Kept'
  BY <1>2, PTL
<1>4. IInv /\ IInv' /\ [Next]_vars => [Service!Next]_<<asked, Outcome>>
  <2> SUFFICES ASSUME IInv, IInv', [Next]_vars
               PROVE  Service!Next \/ UNCHANGED <<asked, Outcome>>
    OBVIOUS
  <2>1. /\ Outcome = [no \in 1..MaxAsks |-> Promised(no)]
        /\ Outcome' = [no \in 1..MaxAsks |-> Promised(no)']
    BY <1>2, <1>3 DEF Kept
  <2>2. /\ TypeOK /\ TypeOK' /\ QueuesInOrder /\ Single /\ OnePlace /\ OnePlace'
        /\ Len(asked) \in Nat /\ Len(asked) <= MaxAsks /\ Len(asked') <= MaxAsks
    BY DEF IInv, TypeOK
  <2>3. CASE /\ UNCHANGED <<asked, Queued, dropped>>
             /\ UNCHANGED <<Numbers(fetching), Numbers(replies), Numbers(done)>>
    <3>1. \A no \in 1..MaxAsks : Promised(no)' = Promised(no)
      BY <2>3 DEF Promised, Own
    <3> QED BY <2>1, <2>3, <3>1
  <2>4. ASSUME NEW p \in Popups, asked' = Append(asked, p), Len(asked') = Len(asked) + 1,
               \/ Queued' = Queued \cup {Len(asked')} /\ dropped' = dropped
               \/ Queued' = Queued /\ dropped' = dropped \cup {Len(asked')},
               UNCHANGED <<Numbers(fetching), Numbers(replies), Numbers(done)>>
        PROVE  Service!Next
    <3> PICK new \in 1..MaxAsks : new = Len(asked) + 1
      BY <2>2, <2>4, BoundsAssumption
    <3>1. Len(asked) < MaxAsks /\ new = Len(asked') /\ new \notin 1..Len(asked)
      BY <2>2, <2>4, BoundsAssumption
    <3>2. \A no \in 1..Len(asked) : asked'[no] = asked[no]
      BY <2>2, <2>4, AskedGrows
    <3>3. ASSUME NEW no \in 1..MaxAsks, no # new PROVE Promised(no)' = Promised(no)
      <4>1. no \in dropped' <=> no \in dropped
        BY <2>4, <3>1, <3>3
      <4>2. no \in Queued' <=> no \in Queued
        BY <2>4, <3>1, <3>3
      <4>3. no \in Numbers(replies) \cup Numbers(done) => asked'[no] = asked[no]
        BY <2>2, <3>2 DEF OnePlace
      <4> QED BY <2>4, <4>1, <4>2, <4>3 DEF Promised, Own
    <3>4. Promised(new)' \in {Service!Pending, Service!Dropped}
      <4>1. new \notin Numbers(replies)' \cup Numbers(done)'
        BY <2>2, <2>4, <3>1 DEF OnePlace
      <4>2. new \in Queued' \cup dropped'
        BY <2>4, <3>1
      <4> QED BY <4>1, <4>2 DEF Promised
    <3>5. Outcome' = [Outcome EXCEPT ![new] = Promised(new)']
      BY <2>1, <3>1, <3>3
    <3>6. Service!Ask(p)
      BY <2>4, <3>1, <3>4, <3>5 DEF Service!Ask
    <3> QED BY <3>6 DEF Service!Next
  <2>5. ASSUME NEW no \in Queued \cup Numbers(fetching),
               \A n \in 1..MaxAsks : n # no => Promised(n)' = Promised(n),
               UNCHANGED asked,
               \/ no \in Numbers(fetching)'
               \/ no \in Numbers(replies)'
               \/ no \in dropped'
        PROVE  Service!Next \/ UNCHANGED <<asked, Outcome>>
    <3>1. no \in 1..MaxAsks /\ Promised(no) = Service!Pending
      BY <2>2, BoundsAssumption DEF OnePlace, Promised
    <3>2. Outcome[no] = Service!Pending
      BY <2>1, <3>1
    <3>3. CASE no \in Numbers(fetching)'
      <4>1. Promised(no)' = Service!Pending
        BY <2>2, <3>3 DEF OnePlace, Promised
      <4> QED BY <2>1, <2>5, <3>1, <4>1
    <3>4. CASE no \in Numbers(replies)'
      <4>1. Promised(no)' = [is |-> "answered", book |-> Own(asked[no])]
        BY <2>2, <2>5, <3>4 DEF OnePlace, Promised
      <4>2. Outcome' = [Outcome EXCEPT ![no] = [is |-> "answered", book |-> Own(asked[no])]]
        BY <2>1, <2>5, <3>1, <4>1
      <4>3. Service!Answer(no)
        BY <2>5, <3>2, <4>2 DEF Service!Answer, Own
      <4> QED BY <3>1, <4>3 DEF Service!Next
    <3>5. CASE no \in dropped'
      <4>1. Promised(no)' = Service!Dropped
        BY <3>5 DEF Promised
      <4>2. Outcome' = [Outcome EXCEPT ![no] = Service!Dropped]
        BY <2>1, <2>5, <3>1, <4>1
      <4>3. Service!Drop(no)
        BY <2>5, <3>2, <4>2 DEF Service!Drop
      <4> QED BY <3>1, <4>3 DEF Service!Next
    <3> QED BY <2>5, <3>3, <3>4, <3>5
  <2>6. ASSUME NEW no \in Queued, Queued' = Queued \ {no},
               \/ Numbers(fetching)' = Numbers(fetching) \cup {no} /\ dropped' = dropped
               \/ Numbers(fetching)' = Numbers(fetching) /\ dropped' = dropped \cup {no},
               UNCHANGED <<asked, Numbers(replies), Numbers(done)>>
        PROVE  Service!Next \/ UNCHANGED <<asked, Outcome>>
    <3>1. \A n \in 1..MaxAsks : n # no => Promised(n)' = Promised(n)
      BY <2>6 DEF Promised, Own
    <3>2. no \in Numbers(fetching)' \/ no \in dropped'
      BY <2>6
    <3> QED BY <2>5, <2>6, <3>1, <3>2
  <2>7. ASSUME NEW no \in Numbers(fetching), Numbers(fetching)' = Numbers(fetching) \ {no},
               \/ Numbers(replies)' = Numbers(replies) \cup {no} /\ dropped' = dropped
               \/ Numbers(replies)' = Numbers(replies) /\ dropped' = dropped \cup {no},
               UNCHANGED <<asked, Queued, Numbers(done)>>
        PROVE  Service!Next \/ UNCHANGED <<asked, Outcome>>
    <3>1. \A n \in 1..MaxAsks : n # no => Promised(n)' = Promised(n)
      BY <2>7 DEF Promised, Own
    <3>2. no \in Numbers(replies)' \/ no \in dropped'
      BY <2>7
    <3> QED BY <2>5, <2>7, <3>1, <3>2
  <2>8. ASSUME NEW no \in Numbers(replies), Numbers(replies)' = Numbers(replies) \ {no},
               Numbers(done)' = Numbers(done) \cup {no},
               UNCHANGED <<asked, Queued, Numbers(fetching), dropped>>
        PROVE  UNCHANGED <<asked, Outcome>>
    <3>1. \A n \in 1..MaxAsks : Promised(n)' = Promised(n)
      BY <2>8 DEF Promised, Own
    <3> QED BY <2>1, <2>8, <3>1
  <2> QED BY <2>2, <2>3, <2>4, <2>6, <2>7, <2>8, Moves
<1> QED BY <1>1, <1>4, Inductive, PTL DEF Spec, ImplementsService, Service!Spec
=============================================================================
