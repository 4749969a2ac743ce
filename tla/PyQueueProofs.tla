---------------------------- MODULE PyQueueProofs ----------------------------
(***************************************************************************)
(* Proofs about PyQueue, for any objects, functions and bounds: the array  *)
(* holds the calls by their numbers, from which it follows that they are   *)
(* made in order and once, and that safe_quit leaves none behind; and the  *)
(* reference counts are those of the references that there are, from which *)
(* it follows that what the script uses has not been freed.                *)
(***************************************************************************)
EXTENDS PyQueue, SequenceTheorems, FiniteSetTheorems, TLAPS

Start == IF at = 0 THEN 1 ELSE at

\* The call whose turn is next.
Turn == made - Len(queue) + Start

\* Calls with a query under way.
Open == {q.call : q \in queries}

IsSequence == \E S : queue \in Seq(S)

\* The last calls that were accepted, in order.
Numbered == \A i \in 1..Len(queue) : queue[i].call = made - Len(queue) + i

Bounds == made \in Nat /\ Len(queue) <= made /\ at \in Nat /\ at <= Len(queue) + 1

\* What has been made, or dropped, has had its turn; each query has a call of its own.
Past ==
  /\ Open \cup dropped \subseteq 1..(Turn - 1)
  /\ Open \cap dropped = {}
  /\ \A p, q \in queries : p.call = q.call => p = q

IInv == IsSequence /\ Bounds /\ Numbered /\ Past

LEMMA LengthIs == ASSUME IsSequence PROVE Len(queue) \in Nat /\ DOMAIN queue = 1..Len(queue)
BY LenProperties DEF IsSequence

LEMMA TurnIs ==
  ASSUME IsSequence, Bounds
  PROVE  Start \in Nat \ {0} /\ Turn \in Nat \ {0} /\ Turn <= made + 1
<1>1. Len(queue) \in Nat
  BY LengthIs
<1> QED BY <1>1 DEF Bounds, Start, Turn

LEMMA InitIInv == Init => IInv
<1> SUFFICES ASSUME Init PROVE IInv
  OBVIOUS
<1>1. queue = <<>> /\ at = 0 /\ made = 0 /\ queries = {} /\ dropped = {}
  BY DEF Init
<1>2. Len(queue) = 0 /\ IsSequence
  BY <1>1, EmptySeq DEF IsSequence
<1>3. Bounds /\ Numbered
  BY <1>1, <1>2 DEF Bounds, Numbered
<1>4. Past
  BY <1>1 DEF Past, Open
<1> QED BY <1>2, <1>3, <1>4 DEF IInv

-----------------------------------------------------------------------------
(* What a step does to the calls.                                          *)

\* A call is accepted.
Accepts ==
  /\ \E e : e.call = made + 1 /\ queue' = Append(queue, e)
  /\ made' = made + 1
  /\ UNCHANGED <<at, dropped, queries>>

\* A query is answered.
Answers(q) ==
  /\ q \in queries /\ queries' = queries \ {q}
  /\ UNCHANGED <<queue, made, at, dropped>>

\* The call whose turn it is goes out, or is dropped.
GoesOut ==
  /\ at # 0 /\ at <= Len(queue) /\ at' = at + 1
  /\ \/ /\ \E q : q.call = queue[at].call /\ queries' = queries \cup {q}
        /\ UNCHANGED dropped
     \/ dropped' = dropped \cup {queue[at].call} /\ UNCHANGED queries
  /\ UNCHANGED <<queue, made>>

\* py_do_all begins, or is done with the array.
Turns ==
  /\ \/ at = 0 /\ at' = 1 /\ UNCHANGED queue
     \/ at > Len(queue) /\ at' = 0 /\ queue' = <<>>
  /\ UNCHANGED <<made, dropped, queries>>

Nothing == UNCHANGED <<queue, made, at, dropped, queries>>

LEMMA PushAccepts ==
  ASSUME NEW e, NEW refs, e.call = made + 1, Pushed(e, refs)
  PROVE  Accepts
BY DEF Pushed, Accepts, reading

LEMMA EntryCall ==
  ASSUME NEW f, NEW objs, NEW got, NEW sound, NEW cb
  PROVE  Entry(f, objs, got, sound, cb).call = made + 1 /\ Sound(f, objs, cb).call = made + 1
BY DEF Entry, Sound

LEMMA PassAccepts == ASSUME NEW f, NEW objs, NEW cb, Pass(f, objs, cb) PROVE Accepts
BY EntryCall, PushAccepts DEF Pass

LEMMA MethodAccepts == ASSUME NEW f, NEW cb, CallMethod(f, cb) PROVE Accepts
<1>1. ASSUME NEW p, CallSend(f, p, cb) PROVE Accepts
  BY <1>1, PassAccepts DEF CallSend
<1>2. ASSUME NEW p, CallBare(f, p, cb) PROVE Accepts
  BY <1>2, PassAccepts, EntryCall, PushAccepts DEF CallBare
<1>3. ASSUME NEW p, CallSendContact(f, p, cb) PROVE Accepts
  BY <1>3, EntryCall, PushAccepts DEF CallSendContact
<1>4. ASSUME NEW objs, CallChat(f, objs, cb) PROVE Accepts
  BY <1>4, PassAccepts DEF CallChat
<1>5. ASSUME NEW o, CallInfo(f, o, cb) PROVE Accepts
  BY <1>5, PassAccepts DEF CallInfo
<1> QED BY <1>1, <1>2, <1>3, <1>4, <1>5 DEF CallMethod

LEMMA StepIs ==
  ASSUME [Next]_vars
  PROVE  Accepts \/ (\E q \in queries : Answers(q)) \/ GoesOut \/ Turns \/ Nothing
<1>1. CASE UNCHANGED vars
  BY <1>1 DEF vars, array, reading, Nothing
<1>2. ASSUME NEW o, \/ Make(o) \/ MakeList(o) \/ Obtain(o) \/ Forget(o) \/ SetHook(o)
                    \/ ReadAttribute(o)
      PROVE  Nothing
  BY <1>2 DEF Make, MakeList, Obtain, Forget, SetHook, ReadAttribute, array, reading, Nothing
<1>3. CASE SafeQuit \/ Overflow \/ Hook
  BY <1>3 DEF SafeQuit, Overflow, Hook, array, reading, Nothing
<1>4. CASE Return
  BY <1>4 DEF Return, array, Nothing
<1>5. CASE Tidy
  BY <1>5 DEF Tidy, Tidied, array, Nothing
<1>6. ASSUME NEW f, NEW objs, NEW got, NEW sound, NEW cb, Push(f, objs, got, sound, cb)
      PROVE  Accepts
  BY <1>6, EntryCall, PushAccepts DEF Push
<1>7. ASSUME NEW q \in queries, Answer(q) PROVE Answers(q)
  BY <1>7 DEF Answer, Answers, array, reading
<1>8. CASE Begin \/ End
  BY <1>8 DEF Begin, End, ReadAll, Turns, array
<1>9. CASE Issue
  <2>1. CASE queue[at].kind = "accept_secret_chat"
    BY <1>9, <2>1 DEF Issue, Nothing, array
  <2>2. CASE queue[at].kind # "accept_secret_chat" /\ Asks(queue[at])
    <3> DEFINE q == [call |-> queue[at].call, cb |-> queue[at].cb]
    <3>1. q.call = queue[at].call /\ queries' = queries \cup {q} /\ UNCHANGED dropped
      BY <1>9, <2>2 DEF Issue
    <3>2. at # 0 /\ at <= Len(queue) /\ at' = at + 1 /\ UNCHANGED <<queue, made>>
      BY <1>9, <2>2 DEF Issue, array
    <3> HIDE DEF q
    <3> QED BY <3>1, <3>2 DEF GoesOut
  <2>3. CASE queue[at].kind # "accept_secret_chat" /\ ~Asks(queue[at])
    <3>1. at # 0 /\ at <= Len(queue) /\ at' = at + 1 /\ UNCHANGED <<queue, made>>
          /\ dropped' = dropped \cup {queue[at].call} /\ UNCHANGED queries
      BY <1>9, <2>3 DEF Issue, array
    <3> QED BY <3>1 DEF GoesOut
  <2> QED BY <2>1, <2>2, <2>3
<1> QED BY <1>1, <1>2, <1>3, <1>4, <1>5, <1>6, <1>7, <1>8, <1>9, MethodAccepts DEF Next

-----------------------------------------------------------------------------
(* The calls and their numbers.                                            *)

LEMMA AcceptsKeeps == ASSUME IInv, Accepts PROVE IInv' /\ Turn' = Turn
<1>1. IsSequence /\ Bounds /\ Numbered /\ Past
  BY DEF IInv
<1>2. PICK e : e.call = made + 1 /\ queue' = Append(queue, e)
  BY DEF Accepts
<1>3. PICK S : queue \in Seq(S)
  BY <1>1 DEF IsSequence
<1>4. queue \in Seq(S \cup {e}) /\ e \in S \cup {e}
  <2>1. queue \in [1..Len(queue) -> S] /\ Len(queue) \in Nat
    BY <1>3, LenProperties
  <2>2. queue \in [1..Len(queue) -> S \cup {e}]
    BY <2>1
  <2> QED BY <2>1, <2>2
<1>5. /\ queue' \in Seq(S \cup {e}) /\ Len(queue') = Len(queue) + 1
      /\ \A i \in 1..Len(queue) : queue'[i] = queue[i]
      /\ queue'[Len(queue) + 1] = e
  BY <1>2, <1>4, AppendProperties
<1>6. Len(queue) \in Nat /\ made' = made + 1 /\ UNCHANGED <<at, dropped, queries>>
  BY <1>1, LengthIs DEF Accepts
<1>7. IsSequence'
  BY <1>5 DEF IsSequence
<1>8. Bounds'
  BY <1>1, <1>5, <1>6 DEF Bounds
<1>9. Numbered'
  <2>1. ASSUME NEW i \in 1..Len(queue) PROVE queue'[i].call = made' - Len(queue') + i
    <3>1. queue[i].call = made - Len(queue) + i /\ queue'[i] = queue[i]
      BY <1>1, <1>5 DEF Numbered
    <3>2. made' - Len(queue') = made - Len(queue)
      BY <1>1, <1>5, <1>6 DEF Bounds
    <3> QED BY <3>1, <3>2
  <2>2. queue'[Len(queue) + 1].call = made' - Len(queue') + (Len(queue) + 1)
    <3>1. queue'[Len(queue) + 1].call = made + 1
      BY <1>2, <1>5
    <3>2. made' - Len(queue') + (Len(queue) + 1) = made + 1
      BY <1>1, <1>5, <1>6 DEF Bounds
    <3> QED BY <3>1, <3>2
  <2>3. \A i \in 1..Len(queue') : i \in 1..Len(queue) \/ i = Len(queue) + 1
    BY <1>5, <1>6
  <2> QED BY <2>1, <2>2, <2>3 DEF Numbered
<1>10. Turn' = Turn
  BY <1>1, <1>5, <1>6 DEF Turn, Start, Bounds
<1>11. Past'
  BY <1>1, <1>6, <1>10 DEF Past, Open
<1> QED BY <1>7, <1>8, <1>9, <1>10, <1>11 DEF IInv

LEMMA AnswersKeeps ==
  ASSUME IInv, NEW q \in queries, Answers(q)
  PROVE  IInv' /\ Turn' = Turn /\ Open' = Open \ {q.call} /\ q.call \in Open
<1>1. /\ queries' = queries \ {q} /\ UNCHANGED <<queue, made, at, dropped>>
  BY DEF Answers
<1>2. Turn' = Turn
  BY <1>1 DEF Turn, Start
<1>3. \A p, r \in queries : p.call = r.call => p = r
  BY DEF IInv, Past
<1>4. Open' = Open \ {q.call} /\ q.call \in Open
  BY <1>1, <1>3 DEF Open
<1>5. Past'
  BY <1>1, <1>2, <1>4 DEF IInv, Past
<1>6. IsSequence' /\ Bounds' /\ Numbered'
  BY <1>1 DEF IInv, IsSequence, Bounds, Numbered
<1> QED BY <1>2, <1>4, <1>5, <1>6 DEF IInv

LEMMA GoesOutKeeps ==
  ASSUME IInv, GoesOut
  PROVE  /\ IInv' /\ Turn' = Turn + 1 /\ Turn \in 1..made
         /\ \/ Open' = Open \cup {Turn} /\ UNCHANGED dropped
            \/ dropped' = dropped \cup {Turn} /\ UNCHANGED Open
<1>1. IsSequence /\ Bounds /\ Numbered /\ Past
  BY DEF IInv
<1>2. /\ at # 0 /\ at <= Len(queue) /\ at' = at + 1 /\ UNCHANGED <<queue, made>>
  BY DEF GoesOut
<1>3. Len(queue) \in Nat /\ at \in Nat /\ made \in Nat /\ Len(queue) <= made
  BY <1>1, LengthIs DEF Bounds
<1>4. queue[at].call = Turn
  <2>1. at \in 1..Len(queue) /\ Start = at
    BY <1>2, <1>3 DEF Start
  <2> QED BY <1>1, <2>1 DEF Numbered, Turn
<1>5. Turn' = Turn + 1 /\ Turn \in 1..made
  BY <1>2, <1>3 DEF Turn, Start
<1>6. IsSequence' /\ Bounds' /\ Numbered'
  BY <1>1, <1>2, <1>3 DEF IsSequence, Bounds, Numbered
<1> DEFINE n == Turn
<1>7. /\ \A c \in Open \cup dropped : c \in 1..(n - 1)
      /\ Open \cap dropped = {} /\ n \in Nat /\ n # 0
      /\ \A p, r \in queries : p.call = r.call => p = r
  BY <1>1, <1>3, <1>5 DEF Past
<1>8. CASE \E q : q.call = queue[at].call /\ queries' = queries \cup {q} /\ UNCHANGED dropped
  <2>1. PICK q : q.call = n /\ queries' = queries \cup {q} /\ UNCHANGED dropped
    BY <1>4, <1>8
  <2>2. Open' = Open \cup {n}
    BY <2>1 DEF Open
  <2>3. n \notin Open /\ n \notin dropped
    <3> HIDE DEF n
    <3> QED BY <1>7
  <2>4. \A c \in Open' \cup dropped' : c \in 1..(Turn' - 1)
    <3>1. Turn' - 1 = n
      BY <1>5, <1>7
    <3> HIDE DEF n
    <3>2. \A c \in 1..(n - 1) : c \in 1..n
      BY <1>7
    <3>3. n \in 1..n
      BY <1>7
    <3> QED BY <1>7, <2>1, <2>2, <3>1, <3>2, <3>3
  <2>5. Open' \cap dropped' = {}
    <3> HIDE DEF n
    <3> QED BY <1>7, <2>1, <2>2, <2>3
  <2>6. \A p, r \in queries' : p.call = r.call => p = r
    <3>1. \A p \in queries : p.call # q.call
      BY <2>1, <2>3 DEF Open
    <3> HIDE DEF n
    <3> QED BY <1>7, <2>1, <3>1
  <2>7. Past'
    BY <2>4, <2>5, <2>6 DEF Past
  <2> QED BY <1>5, <1>6, <2>1, <2>2, <2>7 DEF IInv
<1>9. CASE dropped' = dropped \cup {queue[at].call} /\ UNCHANGED queries
  <2>1. dropped' = dropped \cup {n} /\ Open' = Open
    BY <1>4, <1>9 DEF Open
  <2>2. n \notin Open
    <3> HIDE DEF n
    <3> QED BY <1>7
  <2>3. \A c \in Open' \cup dropped' : c \in 1..(Turn' - 1)
    <3>1. Turn' - 1 = n
      BY <1>5, <1>7
    <3> HIDE DEF n
    <3>2. \A c \in 1..(n - 1) : c \in 1..n
      BY <1>7
    <3>3. n \in 1..n
      BY <1>7
    <3> QED BY <1>7, <2>1, <3>1, <3>2, <3>3
  <2>4. Open' \cap dropped' = {}
    <3> HIDE DEF n
    <3> QED BY <1>7, <2>1, <2>2
  <2>5. Past'
    BY <1>7, <1>9, <2>3, <2>4 DEF Past
  <2> QED BY <1>5, <1>6, <2>1, <2>5 DEF IInv
<1> QED BY <1>8, <1>9 DEF GoesOut

LEMMA TurnsKeeps == ASSUME IInv, Turns PROVE IInv' /\ Turn' = Turn /\ Open' = Open
<1>1. IsSequence /\ Bounds /\ Numbered /\ Past
  BY DEF IInv
<1>2. UNCHANGED <<made, dropped, queries>>
  BY DEF Turns
<1>3. Len(queue) \in Nat /\ at \in Nat /\ made \in Nat /\ Len(queue) <= made
      /\ at <= Len(queue) + 1
  BY <1>1, LengthIs DEF Bounds
<1>4. CASE at = 0 /\ at' = 1 /\ UNCHANGED queue
  <2>1. IsSequence' /\ Bounds' /\ Numbered'
    BY <1>1, <1>2, <1>3, <1>4 DEF IsSequence, Bounds, Numbered
  <2>2. Turn' = Turn /\ Open' = Open
    BY <1>2, <1>4 DEF Turn, Start, Open
  <2> QED BY <1>1, <1>2, <2>1, <2>2 DEF IInv, Past
<1>5. CASE at > Len(queue) /\ at' = 0 /\ queue' = <<>>
  <2>1. Len(queue') = 0 /\ IsSequence'
    BY <1>5, EmptySeq DEF IsSequence
  <2>2. Bounds' /\ Numbered'
    BY <1>2, <1>3, <1>5, <2>1 DEF Bounds, Numbered
  <2>3. Turn' = Turn /\ Open' = Open
    BY <1>2, <1>3, <1>5, <2>1 DEF Turn, Start, Open
  <2> QED BY <1>1, <1>2, <2>1, <2>2, <2>3 DEF IInv, Past
<1> QED BY <1>4, <1>5 DEF Turns

LEMMA NothingKeeps == ASSUME IInv, Nothing PROVE IInv' /\ Turn' = Turn /\ Open' = Open
BY DEF IInv, Nothing, IsSequence, Bounds, Numbered, Past, Turn, Start, Open

LEMMA NextIInv == IInv /\ [Next]_vars => IInv'
BY StepIs, AcceptsKeeps, AnswersKeeps, GoesOutKeeps, TurnsKeeps, NothingKeeps

LEMMA Inductive == Spec => []IInv
BY InitIInv, NextIInv, PTL DEF Spec

-----------------------------------------------------------------------------
(* The calls are made in order.                                            *)

LEMMA WaitingIs == ASSUME IInv PROVE \A c : c \in Waiting <=> c \in Turn..made
<1>1. IsSequence /\ Bounds /\ Numbered
  BY DEF IInv
<1> DEFINE n == Len(queue)
           d == made - n
<1>2. n \in Nat /\ DOMAIN queue = 1..n /\ made \in Nat /\ n <= made /\ d \in Nat
      /\ at \in Nat /\ Start \in Nat \ {0}
  BY <1>1, LengthIs, TurnIs DEF Bounds
<1>3. Turn = d + Start /\ made = d + n
  BY <1>2 DEF Turn
<1>4. \A i : i \in Unread <=> i \in Start..n
  BY <1>2 DEF Unread, Start
<1>5. \A i \in 1..n : queue[i].call = d + i
  BY <1>1 DEF Numbered
<1> HIDE DEF n, d
<1>6. ASSUME NEW i \in Unread PROVE queue[i].call \in Turn..made
  <2>1. i \in 1..n /\ i >= Start
    BY <1>2, <1>4
  <2> QED BY <1>2, <1>3, <1>5, <2>1
<1>7. ASSUME NEW c \in Turn..made PROVE \E i \in Unread : queue[i].call = c
  <2>1. c - d \in Start..n /\ d + (c - d) = c /\ c - d \in 1..n
    BY <1>2, <1>3
  <2> QED BY <1>4, <1>5, <2>1
<1> QED BY <1>6, <1>7 DEF Waiting

\* What has become of the calls, by whose turn it is, and what was dropped and asked.
FateBy(m, n, drops, asked) ==
  [c \in 1..m |-> IF c >= n THEN "waiting" ELSE IF c \in drops THEN "dropped"
                  ELSE IF c \in asked THEN "made" ELSE "answered"]

LEMMA FateIs == IInv => Fate = FateBy(made, Turn, dropped, Open)
<1> SUFFICES ASSUME IInv PROVE Fate = FateBy(made, Turn, dropped, Open)
  OBVIOUS
<1>1. made \in Nat /\ Turn \in Nat
  BY TurnIs DEF IInv, Bounds
<1>2. \A c \in 1..made : c \in Waiting <=> c >= Turn
  BY <1>1, WaitingIs
<1>3. \A c \in 1..made : (\E q \in queries : q.call = c) <=> c \in Open
  BY DEF Open
<1> QED BY <1>2, <1>3 DEF Fate, FateBy

LEMMA FateInit == Init => Calls!Init
<1> SUFFICES ASSUME Init PROVE Fate = <<>>
  BY DEF Calls!Init
<1>1. 1..made = {}
  BY DEF Init
<1> QED BY <1>1 DEF Fate

LEMMA FateAccepts ==
  ASSUME NEW m \in Nat, NEW n \in Nat, n <= m + 1, NEW drops, NEW asked
  PROVE  FateBy(m + 1, n, drops, asked) = Append(FateBy(m, n, drops, asked), "waiting")
<1> DEFINE s == FateBy(m, n, drops, asked)
           t == Append(s, "waiting")
           u == FateBy(m + 1, n, drops, asked)
<1>1. s \in [1..m -> Calls!Fates] /\ "waiting" \in Calls!Fates
  BY DEF FateBy, Calls!Fates
<1>2. \A c \in 1..m : u[c] = s[c]
  BY DEF FateBy
<1>3. u[m + 1] = "waiting" /\ u = [c \in 1..(m + 1) |-> u[c]]
  BY DEF FateBy
<1> HIDE DEF s, u
<1>4. s \in Seq(Calls!Fates) /\ Len(s) = m
  BY <1>1
<1>5. /\ t \in Seq(Calls!Fates) /\ Len(t) = m + 1
      /\ \A c \in 1..m : t[c] = s[c]
      /\ t[m + 1] = "waiting"
  BY <1>1, <1>4, AppendProperties
<1> HIDE DEF t
<1>6. t = [c \in 1..(m + 1) |-> t[c]]
  <2>1. t \in [1..(m + 1) -> Calls!Fates]
    BY <1>5, LenProperties
  <2> QED BY <2>1
<1>7. \A c \in 1..(m + 1) : u[c] = t[c]
  <2>1. \A c \in 1..(m + 1) : c \in 1..m \/ c = m + 1
    OBVIOUS
  <2> QED BY <1>2, <1>3, <1>5, <2>1
<1>8. u = t
  BY <1>3, <1>6, <1>7
<1> QED BY <1>8 DEF s, t, u

\* The call whose turn it is gets its fate.
HasGone(m, n, drops, asked) ==
  /\ FateBy(m, n + 1, drops, asked \cup {n}) =
       [FateBy(m, n, drops, asked) EXCEPT ![n] = "made"]
  /\ FateBy(m, n + 1, drops \cup {n}, asked) =
       [FateBy(m, n, drops, asked) EXCEPT ![n] = "dropped"]

LEMMA FateGoesOut ==
  ASSUME NEW m \in Nat, NEW n \in 1..m, NEW drops, NEW asked, n \notin drops
  PROVE  HasGone(m, n, drops, asked)
<1> DEFINE s == FateBy(m, n, drops, asked)
           t == FateBy(m, n + 1, drops, asked \cup {n})
           u == FateBy(m, n + 1, drops \cup {n}, asked)
<1>1. \A c \in 1..m : (c >= n <=> c >= n + 1 \/ c = n) /\ ~(n >= n + 1)
  OBVIOUS
<1>2. /\ [s EXCEPT ![n] = "made"] = [c \in 1..m |-> IF c = n THEN "made" ELSE s[c]]
      /\ [s EXCEPT ![n] = "dropped"] = [c \in 1..m |-> IF c = n THEN "dropped" ELSE s[c]]
  BY DEF FateBy
<1>3. \A c \in 1..m : t[c] = IF c = n THEN "made" ELSE s[c]
  BY <1>1 DEF FateBy
<1>4. \A c \in 1..m : u[c] = IF c = n THEN "dropped" ELSE s[c]
  BY <1>1 DEF FateBy
<1>5. t = [c \in 1..m |-> t[c]] /\ u = [c \in 1..m |-> u[c]]
  BY DEF FateBy
<1> HIDE DEF s, t, u
<1>6. t = [s EXCEPT ![n] = "made"] /\ u = [s EXCEPT ![n] = "dropped"]
  BY ZenonT(60), <1>2, <1>3, <1>4, <1>5
<1> QED BY <1>6 DEF s, t, u, HasGone

\* A call that is under way is answered.
IsAnswered(m, n, drops, asked, c) ==
  /\ FateBy(m, n, drops, asked)[c] = "made"
  /\ FateBy(m, n, drops, asked \ {c}) = [FateBy(m, n, drops, asked) EXCEPT ![c] = "answered"]

LEMMA FateAnswers ==
  ASSUME NEW m \in Nat, NEW n \in Nat, NEW drops, NEW asked, NEW c \in 1..m,
         c < n, c \in asked, c \notin drops
  PROVE  IsAnswered(m, n, drops, asked, c)
<1> DEFINE s == FateBy(m, n, drops, asked)
           t == FateBy(m, n, drops, asked \ {c})
<1>1. s[c] = "made" /\ t = [d \in 1..m |-> t[d]]
  BY DEF FateBy
<1>2. [s EXCEPT ![c] = "answered"] = [d \in 1..m |-> IF d = c THEN "answered" ELSE s[d]]
  BY DEF FateBy
<1>3. \A d \in 1..m : t[d] = IF d = c THEN "answered" ELSE s[d]
  BY DEF FateBy
<1> HIDE DEF s, t
<1>4. t = [s EXCEPT ![c] = "answered"]
  BY <1>1, <1>2, <1>3
<1> QED BY <1>1, <1>4 DEF s, t, IsAnswered

LEMMA FateNext == IInv /\ IInv' /\ [Next]_vars => [Calls!Next]_Fate
<1> SUFFICES ASSUME IInv, IInv', [Next]_vars PROVE [Calls!Next]_Fate
  OBVIOUS
<1> DEFINE m == made
           n == Turn
           asked == Open
           drops == dropped
<1>1. Fate = FateBy(m, n, drops, asked) /\ DOMAIN Fate = 1..m
  BY FateIs DEF FateBy
<1>2. (Fate = FateBy(made, Turn, dropped, Open))'
  BY FateIs, PTL
<1>3. Fate' = FateBy(made', Turn', dropped', Open')
  BY <1>2 DEF FateBy
<1>4. /\ m \in Nat /\ n \in Nat /\ n # 0 /\ n <= m + 1
      /\ \A c \in asked \cup drops : c \in 1..(n - 1)
      /\ asked \cap drops = {}
  BY TurnIs DEF IInv, Bounds, Past
<1>5. CASE Accepts
  <2>1. made' = m + 1 /\ Turn' = n /\ dropped' = drops /\ Open' = asked
    BY <1>5, AcceptsKeeps DEF Accepts, Open
  <2> HIDE DEF m, n, asked, drops
  <2>2. Fate' = Append(Fate, "waiting")
    BY SMTT(60), <1>1, <1>3, <1>4, <2>1, FateAccepts
  <2> QED BY <2>2 DEF Calls!Next, Calls!Accept
<1>6. ASSUME NEW q \in queries, Answers(q) PROVE Calls!Next
  <2> DEFINE c == q.call
  <2>1. made' = m /\ Turn' = n /\ dropped' = drops /\ Open' = asked \ {c} /\ c \in asked
    BY <1>6, AnswersKeeps DEF Answers
  <2> HIDE DEF m, n, asked, drops, c
  <2>2. c \in 1..m /\ c < n /\ c \notin drops
    BY <1>4, <2>1
  <2>3. IsAnswered(m, n, drops, asked, c)
    <3>1. m \in Nat /\ n \in Nat
      BY <1>4
    <3>2. c \in asked
      BY <2>1
    <3> QED BY <2>2, <3>1, <3>2, FateAnswers
  <2>4. c \in DOMAIN Fate /\ Fate[c] = "made" /\ Fate' = [Fate EXCEPT ![c] = "answered"]
    BY <1>1, <1>3, <2>1, <2>2, <2>3 DEF IsAnswered
  <2> QED BY <2>4 DEF Calls!Next, Calls!Answer
<1>7. CASE GoesOut
  <2>1. /\ made' = m /\ Turn' = n + 1 /\ n \in 1..m
        /\ \/ Open' = asked \cup {n} /\ dropped' = drops
           \/ dropped' = drops \cup {n} /\ Open' = asked
    BY <1>7, GoesOutKeeps DEF GoesOut
  <2> HIDE DEF m, n, asked, drops
  <2>2. n \notin drops
    BY <1>4
  <2>3. HasGone(m, n, drops, asked)
    <3>1. m \in Nat /\ n \in 1..m
      BY <1>4, <2>1
    <3> QED BY <2>2, <3>1, FateGoesOut
  <2>4. Fate' = [Fate EXCEPT ![n] = "made"] \/ Fate' = [Fate EXCEPT ![n] = "dropped"]
    BY <1>1, <1>3, <2>1, <2>3 DEF HasGone
  <2>5. n \in DOMAIN Fate /\ Fate[n] = "waiting" /\ \A b \in 1..(n - 1) : Fate[b] # "waiting"
    BY <1>1, <1>4, <2>1 DEF FateBy
  <2> QED BY <2>4, <2>5 DEF Calls!Next, Calls!Make, Calls!Drop, Calls!HasTurn
<1>8. CASE Turns \/ Nothing
  <2>1. made' = m /\ Turn' = n /\ dropped' = drops /\ Open' = asked
    BY <1>8, TurnsKeeps, NothingKeeps DEF Turns, Nothing
  <2> HIDE DEF m, n, asked, drops
  <2> QED BY <1>1, <1>3, <2>1
<1> QED BY <1>5, <1>6, <1>7, <1>8, StepIs

\* Calls are made, or dropped, in the order in which the script made them, once each, and
\* each one made is answered at most once, though callbacks append while py_do_all reads
\* (python-tg.c:761-1099).
THEOREM CallsInOrder == Spec => ImplementsCalls
<1>1. Init => Calls!Init
  BY FateInit
<1>2. IInv /\ IInv' /\ [Next]_vars => [Calls!Next]_Fate
  BY FateNext
<1> QED BY <1>1, <1>2, Inductive, PTL DEF Spec, ImplementsCalls, Calls!Spec

-----------------------------------------------------------------------------
(* The end.                                                                *)

LEMMA EndsEmpty == ASSUME QuitLosesNoCall, [Next]_vars PROVE QuitLosesNoCall'
<1>1. CASE UNCHANGED vars
  BY <1>1 DEF vars, control, array, reading, QuitLosesNoCall, Waiting, Unread
<1> SUFFICES ASSUME Next, run = "up", run' = "ended" PROVE Waiting' = {} /\ queries' = {}
  BY <1>1 DEF Next, QuitLosesNoCall
<1>2. CASE End
  <2>1. queue' = <<>> /\ queries' = {}
    BY <1>2 DEF End
  <2> QED BY <2>1 DEF Waiting, Unread
<1>3. ASSUME NEW e, NEW refs, Pushed(e, refs) PROVE FALSE
  BY <1>3 DEF Pushed, control
<1>4. ASSUME NEW f, NEW objs, NEW got, NEW sound, NEW cb, Push(f, objs, got, sound, cb)
      PROVE  FALSE
  BY <1>3, <1>4 DEF Push
<1>5. ASSUME NEW f, NEW cb, CallMethod(f, cb) PROVE FALSE
  BY <1>3, <1>5 DEF CallMethod, CallSend, CallBare, CallSendContact, CallChat, CallInfo, Pass
<1>6. ASSUME NEW o, Make(o) \/ MakeList(o) \/ Obtain(o) PROVE FALSE
  BY <1>6 DEF Make, MakeList, Obtain, control
<1>7. ASSUME NEW o, Forget(o) \/ SetHook(o) \/ ReadAttribute(o) PROVE FALSE
  BY <1>7 DEF Forget, SetHook, ReadAttribute, Becomes
<1>8. CASE SafeQuit \/ Overflow \/ Hook \/ Begin \/ Issue
  BY <1>8 DEF SafeQuit, Overflow, Hook, Begin, Issue
<1>9. CASE Return
  BY <1>9 DEF Return, Becomes
<1>10. CASE Tidy
  BY <1>10 DEF Tidy, Tidied, Becomes
<1>11. ASSUME NEW q, Answer(q) PROVE FALSE
  BY <1>11 DEF Answer
<1> QED BY <1>2, <1>4, <1>5, <1>6, <1>7, <1>8, <1>9, <1>10, <1>11 DEF Next

\* safe_quit ends the process with no call unmade and no query unanswered
\* (python-tg.c:1158-1171, loop.c:334-348).
THEOREM QuitLosesNone == Spec => []QuitLosesNoCall
<1>1. Init => QuitLosesNoCall
  BY DEF Init, QuitLosesNoCall
<1>2. QuitLosesNoCall /\ [Next]_vars => QuitLosesNoCall'
  BY EndsEmpty
<1> QED BY <1>1, <1>2, PTL DEF Spec

-----------------------------------------------------------------------------
(* Counting the references in sequences.                                   *)

LEMMA AtIs ==
  ASSUME NEW S, NEW s \in Seq(S), NEW o
  PROVE  /\ At(o, s) = {i \in 1..Len(s) : s[i] = o}
         /\ IsFiniteSet(At(o, s)) /\ Times(o, s) \in Nat
         /\ Times(o, s) = 0 <=> \A i \in 1..Len(s) : s[i] # o
<1>1. Len(s) \in Nat /\ DOMAIN s = 1..Len(s)
  BY LenProperties
<1>2. IsFiniteSet(1..Len(s)) /\ At(o, s) \in SUBSET (1..Len(s))
  BY <1>1, FS_Interval DEF At
<1>3. IsFiniteSet(At(o, s))
  BY <1>2, FS_Subset
<1>4. At(o, s) = {i \in 1..Len(s) : s[i] = o}
  BY <1>1 DEF At
<1>5. Times(o, s) = 0 <=> At(o, s) = {}
  BY <1>3, FS_EmptySet DEF Times
<1>6. Times(o, s) \in Nat
  BY <1>3, FS_CardinalityType DEF Times
<1> QED BY <1>3, <1>4, <1>5, <1>6

\* Two sets of places, one shifted against the other, have the same number.
LEMMA Shifted ==
  ASSUME NEW A \in SUBSET Int, IsFiniteSet(A), NEW B \in SUBSET Int, NEW k \in Int,
         \A i \in A : i + k \in B, \A j \in B : j - k \in A
  PROVE  IsFiniteSet(B) /\ Cardinality(B) = Cardinality(A)
<1> DEFINE f == [i \in A |-> i + k]
<1>1. f \in [A -> B]
  OBVIOUS
<1>2. \A i, j \in A : f[i] = f[j] => i = j
  OBVIOUS
<1>3. \A j \in B : j - k \in A /\ f[j - k] = j
  OBVIOUS
<1>4. f \in Bijection(A, B)
  <2> HIDE DEF f
  <2>1. f \in Injection(A, B)
    BY <1>1, <1>2 DEF Injection, IsInjective
  <2>2. \A j \in B : \E i \in A : f[i] = j
    BY <1>3
  <2>3. f \in Surjection(A, B)
    BY <1>1, <2>2 DEF Surjection
  <2> QED BY <2>1, <2>3 DEF Bijection
<1>5. ExistsBijection(A, B)
  BY <1>4 DEF ExistsBijection
<1> QED BY <1>5, FS_Bijection

LEMMA Parts ==
  ASSUME NEW A, IsFiniteSet(A), NEW B, IsFiniteSet(B), A \cap B = {}
  PROVE  IsFiniteSet(A \cup B) /\ Cardinality(A \cup B) = Cardinality(A) + Cardinality(B)
<1>1. Cardinality(A) \in Nat /\ Cardinality(B) \in Nat /\ Cardinality(A \cap B) = 0
  BY FS_CardinalityType, FS_EmptySet
<1>2. /\ IsFiniteSet(A \cup B)
      /\ Cardinality(A \cup B) = Cardinality(A) + Cardinality(B) - Cardinality(A \cap B)
  BY FS_Union, Zenon
<1> DEFINE a == Cardinality(A)
           b == Cardinality(B)
           c == Cardinality(A \cup B)
           d == Cardinality(A \cap B)
<1>3. a \in Nat /\ b \in Nat /\ d = 0 /\ c = a + b - d
  BY <1>1, <1>2
<1>4. c = a + b
  <2> HIDE DEF a, b, c, d
  <2> QED BY <1>3
<1> QED BY <1>2, <1>4

LEMMA TimesOfNone == ASSUME NEW o PROVE Times(o, <<>>) = 0
<1>1. At(o, <<>>) = {}
  BY DEF At
<1> QED BY <1>1, FS_EmptySet DEF Times

LEMMA TimesOfOne == ASSUME NEW o, NEW p PROVE Times(o, <<p>>) = Flag(o = p)
<1>1. CASE o = p
  <2>1. At(o, <<p>>) = {1}
    BY <1>1 DEF At
  <2> QED BY <1>1, <2>1, FS_Singleton DEF Times, Flag
<1>2. CASE o # p
  <2>1. At(o, <<p>>) = {}
    BY <1>2 DEF At
  <2> QED BY <1>2, <2>1, FS_EmptySet DEF Times, Flag
<1> QED BY <1>1, <1>2

LEMMA TimesOfBoth ==
  ASSUME NEW S, NEW s \in Seq(S), NEW t \in Seq(S), NEW o
  PROVE  Times(o, s \o t) = Times(o, s) + Times(o, t)
<1> DEFINE u == s \o t
           m == Len(s)
           n == Len(t)
           A == At(o, s)
           B == At(o, t)
           C == {j \in (m + 1)..(m + n) : t[j - m] = o}
<1>1. /\ u \in Seq(S) /\ Len(u) = m + n /\ m \in Nat /\ n \in Nat
      /\ \A i \in 1..(m + n) : u[i] = IF i <= m THEN s[i] ELSE t[i - m]
  BY ConcatProperties, LenProperties
<1>2. A = {i \in 1..m : s[i] = o} /\ B = {i \in 1..n : t[i] = o} /\ IsFiniteSet(A) /\ IsFiniteSet(B)
  BY AtIs
<1> HIDE DEF u, m, n, A, B
<1>3. At(o, u) = {i \in 1..(m + n) : u[i] = o}
  <2>1. At(o, u) = {i \in 1..Len(u) : u[i] = o}
    BY <1>1, AtIs
  <2> QED BY <1>1, <2>1
<1>4. At(o, u) = A \cup C /\ A \cap C = {}
  BY SMTT(60), <1>1, <1>2, <1>3
<1>5. IsFiniteSet(C) /\ Cardinality(C) = Cardinality(B)
  <2>1. B \in SUBSET Int /\ C \in SUBSET Int
    BY <1>1, <1>2
  <2>2. \A i \in B : i + m \in C
    BY SMTT(60), <1>1, <1>2
  <2>3. \A j \in C : j - m \in B
    BY <1>1, <1>2
  <2> HIDE DEF C
  <2>4. m \in Int /\ IsFiniteSet(B)
    BY <1>1, <1>2
  <2> QED BY <2>1, <2>2, <2>3, <2>4, Shifted
<1> HIDE DEF C
<1>6. Cardinality(A \cup C) = Cardinality(A) + Cardinality(C)
  BY <1>2, <1>4, <1>5, Parts
<1>7. Cardinality(At(o, u)) = Cardinality(A) + Cardinality(B)
  BY <1>4, <1>5, <1>6
<1> QED BY <1>7 DEF u, A, B, Times

LEMMA TimesOfTwo ==
  ASSUME NEW S, NEW s \in Seq(S), NEW n \in 0..Len(s), NEW o
  PROVE  Times(o, s) = Times(o, SubSeq(s, 1, n)) + Times(o, SubSeq(s, n + 1, Len(s)))
<1>1. Len(s) \in Nat /\ n \in Nat /\ \A i \in 1..Len(s) : s[i] \in S
  BY LenProperties
<1> DEFINE a == SubSeq(s, 1, n)
           b == SubSeq(s, n + 1, Len(s))
<1>2. a \in Seq(S) /\ Len(a) = n /\ \A i \in 1..n : a[i] = s[i]
  <2>1. \A i \in 1..n : s[i] \in S
    BY <1>1
  <2>2. n - 1 + 1 = n /\ (IF 1 <= n THEN n - 1 + 1 ELSE 0) = n /\ \A i \in 1..n : 1 + i - 1 = i
    BY <1>1
  <2> HIDE DEF a
  <2>3. /\ a \in Seq(S) /\ Len(a) = IF 1 <= n THEN n - 1 + 1 ELSE 0
        /\ \A i \in 1..(n - 1 + 1) : a[i] = s[1 + i - 1]
    BY SMTT(60), <1>1, <2>1, SubSeqProperties DEF a
  <2> QED BY <2>2, <2>3
<1>3. b \in Seq(S) /\ Len(b) = Len(s) - n /\ \A i \in 1..(Len(s) - n) : b[i] = s[n + i]
  <2>1. \A i \in (n + 1)..Len(s) : s[i] \in S
    BY <1>1
  <2>2. /\ Len(s) - (n + 1) + 1 = Len(s) - n
        /\ (IF n + 1 <= Len(s) THEN Len(s) - (n + 1) + 1 ELSE 0) = Len(s) - n
        /\ \A i \in Int : n + 1 + i - 1 = n + i
    BY <1>1
  <2> HIDE DEF b
  <2>3. /\ b \in Seq(S) /\ Len(b) = IF n + 1 <= Len(s) THEN Len(s) - (n + 1) + 1 ELSE 0
        /\ \A i \in 1..(Len(s) - (n + 1) + 1) : b[i] = s[n + 1 + i - 1]
    BY SMTT(60), <1>1, <2>1, SubSeqProperties DEF b
  <2>4. \A i \in 1..(Len(s) - n) : i \in 1..(Len(s) - (n + 1) + 1) /\ i \in Int
    BY <1>1
  <2>5. \A i \in 1..(Len(s) - n) : b[i] = s[n + i]
    BY <2>2, <2>3, <2>4
  <2> QED BY <2>2, <2>3, <2>5
<1> HIDE DEF a, b
<1>4. a \o b \in Seq(S) /\ Len(a \o b) = Len(s)
      /\ \A i \in 1..Len(s) : (a \o b)[i] = IF i <= n THEN a[i] ELSE b[i - n]
  <2>1. Len(a) + Len(b) = Len(s)
    BY <1>1, <1>2, <1>3
  <2> QED BY SMTT(60), <1>2, <1>3, <2>1, ConcatProperties
<1>5. \A i \in 1..Len(s) : (a \o b)[i] = s[i]
  BY <1>1, <1>2, <1>3, <1>4
<1>6. a \o b = s
  BY <1>4, <1>5, SeqEqual
<1> QED BY ZenonT(60), <1>2, <1>3, <1>6, TimesOfBoth DEF a, b

-----------------------------------------------------------------------------
(* Counting the references in many sequences: places of members of I.      *)

Places(I, F) == UNION {{i} \X F[i] : i \in I}

LEMMA PlacesFinite ==
  ASSUME NEW I, IsFiniteSet(I), NEW F, \A i \in I : IsFiniteSet(F[i])
  PROVE  IsFiniteSet(Places(I, F)) /\ Cardinality(Places(I, F)) \in Nat
<1> DEFINE W == {{i} \X F[i] : i \in I}
           f == [i \in I |-> {i} \X F[i]]
<1>1. f \in [I -> W] /\ \A w \in W : \E i \in I : f[i] = w
  OBVIOUS
<1>2. f \in Surjection(I, W)
  BY <1>1 DEF Surjection
<1>3. IsFiniteSet(W)
  BY <1>2, FS_Surjection
<1>4. \A i \in I : IsFiniteSet({i} \X F[i])
  BY FS_Singleton, FS_Product
<1>5. \A w \in W : IsFiniteSet(w)
  BY <1>4
<1>6. IsFiniteSet(UNION W)
  <2> HIDE DEF W
  <2> QED BY <1>3, <1>5, FS_UNION
<1> QED BY <1>6, FS_CardinalityType DEF Places

LEMMA PlacesOfNone == ASSUME NEW F PROVE Cardinality(Places({}, F)) = 0
<1>1. Places({}, F) = {}
  BY DEF Places
<1> QED BY <1>1, FS_EmptySet

LEMMA PlacesOfOne ==
  ASSUME NEW i, NEW F, IsFiniteSet(F[i])
  PROVE  Cardinality(Places({i}, F)) = Cardinality(F[i])
<1>1. Places({i}, F) = {i} \X F[i]
  BY DEF Places
<1>2. Cardinality({i} \X F[i]) = Cardinality({i}) * Cardinality(F[i])
  BY FS_Singleton, FS_Product
<1>3. Cardinality({i}) = 1 /\ Cardinality(F[i]) \in Nat
  BY FS_Singleton, FS_CardinalityType
<1> DEFINE a == Cardinality({i})
           b == Cardinality(F[i])
<1>4. a * b = b
  <2>1. a = 1 /\ b \in Nat
    BY <1>3
  <2> HIDE DEF a, b
  <2> QED BY <2>1
<1> QED BY <1>1, <1>2, <1>4

LEMMA PlacesOfBoth ==
  ASSUME NEW I, IsFiniteSet(I), NEW J, IsFiniteSet(J), I \cap J = {}, NEW F,
         \A i \in I \cup J : IsFiniteSet(F[i])
  PROVE  Cardinality(Places(I \cup J, F)) = Cardinality(Places(I, F)) + Cardinality(Places(J, F))
<1>1. Places(I \cup J, F) = Places(I, F) \cup Places(J, F)
  BY DEF Places
<1>2. Places(I, F) \cap Places(J, F) = {}
  <2>1. \A K : \A x \in Places(K, F) : x[1] \in K
    BY DEF Places
  <2> QED BY <2>1
<1>3. IsFiniteSet(Places(I, F)) /\ IsFiniteSet(Places(J, F))
  BY PlacesFinite
<1> QED BY <1>1, <1>2, <1>3, Parts

LEMMA PlacesAlike ==
  ASSUME NEW I, NEW F, NEW G, \A i \in I : F[i] = G[i]
  PROVE  Places(I, F) = Places(I, G)
<1>1. \A i \in I : {i} \X F[i] = {i} \X G[i]
  OBVIOUS
<1> QED BY <1>1 DEF Places

-----------------------------------------------------------------------------
(* The references to an object that no list has.                           *)

Living(r) == {l \in Lists : r[l] > 0}
Own(r, o) == r[o] - Cardinality(InLists(o, Living(r)))
OfLists(o) == [l \in Lists |-> At(o, Elements[l])]

LEMMA ElementsAre ==
  ASSUME NEW l \in Lists
  PROVE  /\ Elements[l] \in Seq(Peers) /\ Elements[l] # <<>> /\ Len(Elements[l]) \in Nat \ {0}
         /\ \A i \in 1..Len(Elements[l]) : Elements[l][i] \in Peers
<1>1. Elements[l] \in Seq(Peers) /\ Elements[l] # <<>>
  BY ObjectsAssumption
<1> QED BY <1>1, LenProperties, EmptySeq

LEMMA InListsIs ==
  ASSUME NEW o, NEW S \in SUBSET Lists
  PROVE  /\ InLists(o, S) = Places(S, OfLists(o))
         /\ IsFiniteSet(S) /\ \A l \in S : IsFiniteSet(OfLists(o)[l])
         /\ Cardinality(InLists(o, S)) \in Nat
         /\ o \notin Peers => Cardinality(InLists(o, S)) = 0
<1>1. InLists(o, S) = Places(S, OfLists(o))
  BY DEF InLists, Places, OfLists
<1>2. IsFiniteSet(S)
  BY ObjectsAssumption, FS_Subset
<1>3. \A l \in S : IsFiniteSet(OfLists(o)[l])
  BY ElementsAre, AtIs DEF OfLists
<1>4. Cardinality(InLists(o, S)) \in Nat
  BY <1>1, <1>2, <1>3, PlacesFinite
<1>5. ASSUME o \notin Peers PROVE Cardinality(InLists(o, S)) = 0
  <2>1. \A l \in S : At(o, Elements[l]) = {}
    <3> SUFFICES ASSUME NEW l \in S PROVE At(o, Elements[l]) = {}
      OBVIOUS
    <3>1. DOMAIN Elements[l] = 1..Len(Elements[l])
      BY ElementsAre, LenProperties
    <3> QED BY <1>5, <3>1, ElementsAre DEF At
  <2>2. InLists(o, S) = {}
    BY <2>1 DEF InLists
  <2> QED BY <2>2, FS_EmptySet
<1> QED BY <1>1, <1>2, <1>3, <1>4, <1>5

Counts == [Objects -> Int]

LEMMA OwnType == ASSUME NEW r \in Counts, NEW o \in Objects PROVE Own(r, o) \in Int
<1>1. Cardinality(InLists(o, Living(r))) \in Nat
  BY InListsIs DEF Living
<1> QED BY <1>1 DEF Own, Counts

LEMMA OwnAlike ==
  ASSUME NEW r \in Counts, NEW s \in Counts, \A l \in Lists : r[l] > 0 <=> s[l] > 0,
         NEW o \in Objects
  PROVE  Own(s, o) = Own(r, o) + s[o] - r[o]
<1>1. Living(s) = Living(r)
  BY DEF Living
<1>2. Cardinality(InLists(o, Living(r))) \in Nat /\ r[o] \in Int /\ s[o] \in Int
  BY InListsIs DEF Living, Counts
<1> QED BY <1>1, <1>2 DEF Own

\* References are taken to what is alive: a list does not come alive by it.
LEMMA OwnIncref ==
  ASSUME NEW r \in Counts, NEW n \in [Objects -> Nat],
         \A l \in Lists : n[l] > 0 => r[l] > 0
  PROVE  /\ Incref(r, n) \in Counts
         /\ \A o \in Objects : Own(Incref(r, n), o) = Own(r, o) + n[o]
<1> DEFINE s == Incref(r, n)
<1>1. s \in Counts /\ \A o \in Objects : s[o] = r[o] + n[o]
  BY DEF Incref, Counts
<1>2. \A l \in Lists : r[l] \in Int /\ n[l] \in Nat /\ s[l] = r[l] + n[l]
  BY <1>1 DEF Counts, Objects
<1> HIDE DEF s
<1>3. \A l \in Lists : r[l] > 0 <=> s[l] > 0
  BY <1>2
<1>4. ASSUME NEW o \in Objects PROVE Own(s, o) = Own(r, o) + n[o]
  <2>1. Own(s, o) = Own(r, o) + s[o] - r[o]
    BY <1>1, <1>3, OwnAlike
  <2>2. Own(r, o) \in Int /\ r[o] \in Int /\ n[o] \in Nat
    BY OwnType DEF Counts
  <2> QED BY <1>1, <2>1, <2>2
<1> QED BY <1>1, <1>4 DEF s

\* A list that goes takes the references with it which its elements lose.
LEMMA OwnDecref ==
  ASSUME NEW r \in Counts, NEW n \in [Objects -> Nat]
  PROVE  /\ Decref(r, n) \in Counts
         /\ \A o \in Objects : Own(Decref(r, n), o) = Own(r, o) - n[o]
<1> DEFINE s == Decref(r, n)
           gone == {l \in Lists : 0 < r[l] /\ r[l] <= n[l]}
           rest == Living(r) \ gone
<1>1. /\ s \in Counts
      /\ \A o \in Objects : s[o] = r[o] - n[o] - Cardinality(InLists(o, gone))
  <2>1. \A o \in Objects : Cardinality(InLists(o, gone)) \in Nat
    BY InListsIs
  <2> QED BY <2>1 DEF Decref, Counts
<1>2. \A l \in Lists : l \in Objects /\ l \notin Peers /\ r[l] \in Int /\ n[l] \in Nat
  BY ObjectsAssumption DEF Counts, Objects
<1>3. \A l \in Lists : s[l] = r[l] - n[l]
  <2> SUFFICES ASSUME NEW l \in Lists PROVE s[l] = r[l] - n[l]
    OBVIOUS
  <2>1. Cardinality(InLists(l, gone)) = 0
    BY <1>2, InListsIs
  <2>2. s[l] = r[l] - n[l] - Cardinality(InLists(l, gone)) /\ r[l] \in Int /\ n[l] \in Nat
    BY <1>1, <1>2
  <2> HIDE DEF s, gone
  <2> QED BY <2>1, <2>2
<1>4. Living(s) = rest
  <2> HIDE DEF s
  <2> QED BY <1>2, <1>3 DEF Living
<1>5. Living(r) = rest \cup gone /\ rest \cap gone = {}
  BY DEF Living
<1>6. ASSUME NEW o \in Objects PROVE Own(s, o) = Own(r, o) - n[o]
  <2> DEFINE F == OfLists(o)
  <2>1. /\ rest \in SUBSET Lists /\ gone \in SUBSET Lists
        /\ InLists(o, rest) = Places(rest, F) /\ InLists(o, gone) = Places(gone, F)
        /\ InLists(o, rest \cup gone) = Places(rest \cup gone, F)
    BY InListsIs DEF Living
  <2>2. /\ IsFiniteSet(rest) /\ IsFiniteSet(gone)
        /\ \A l \in rest \cup gone : IsFiniteSet(F[l])
    BY <2>1, InListsIs
  <2> DEFINE a == Cardinality(InLists(o, rest))
             b == Cardinality(InLists(o, gone))
             c == Cardinality(InLists(o, Living(r)))
  <2>3. c = a + b
    <3> HIDE DEF F, rest, gone
    <3> QED BY <1>5, <2>1, <2>2, PlacesOfBoth
  <2>4. a \in Nat /\ b \in Nat /\ r[o] \in Int /\ n[o] \in Nat /\ s[o] = r[o] - n[o] - b
    BY <1>1, <2>1, InListsIs DEF Counts
  <2>5. Own(s, o) = s[o] - a /\ Own(r, o) = r[o] - c
    BY <1>4 DEF Own
  <2> HIDE DEF s, a, b, c
  <2> QED BY <2>3, <2>4, <2>5
<1> QED BY <1>1, <1>6

-----------------------------------------------------------------------------
(* The invariant about references.                                         *)

\* The calls under way, of which back's callback is running.
Asked == queries \cup {back}
Pending == {q \in Asked : q.call = CurCall}

\* References that are not in rc's own lists: the tuples and the queries of calls.
Calling(o) ==
  Cardinality(InTuples(o)) + Cardinality(InQueries(o)) - Flag(early /\ queue[cur].cb = o)
Refs(o) == Flag(o \in held) + Flag(o = hook) + Calling(o)

Balanced == \A o \in Objects : Own(rc, o) + over[o] = Refs(o) + leak[o]

Heap ==
  /\ rc \in Counts /\ leak \in [Objects -> Nat] /\ over \in [Objects -> Nat]
  /\ held \subseteq born /\ born \subseteq Objects /\ hook \in Callables \cup {NoObject}
  /\ \A o \in Objects \ born : rc[o] = 0 /\ leak[o] = 0

EntryOK(e) ==
  /\ e.cb \in Callables \cup {NoObject}
  /\ e.objs \in Seq(Objects \ Callables) /\ e.got \in 0..Len(e.objs)
  /\ e.kind = "create_group_chat" => \E l \in Lists : e.objs = <<l>>
  /\ e.sound \in BOOLEAN /\ (e.sound => e.got = Len(e.objs))

\* Whatever the binding and the lists refer to has been made.
Known ==
  /\ \A i \in 1..Len(queue) : EntryOK(queue[i]) /\ ToSet(Tuple(queue[i])) \subseteq born
  /\ \A q \in Asked : q.cb \in (Callables \cap born) \cup {NoObject}
  /\ \A l \in Lists \cap born : ToSet(Elements[l]) \subseteq born
  /\ hook \in born \cup {NoObject}

\* The query of a call that is under way, once it has been made.
Query(e) == [call |-> e.call, cb |-> e.cb]

\* A callback is in the tuple of the call under way, and with its query until it has been
\* given back.
UnderWay ==
  /\ IsFiniteSet(queries)
  /\ ~script => back = NoQuery
  /\ back = NoQuery \/ back.call \in 1..made
  /\ back.call \notin Open
  /\ cur \in Nat /\ (cur # 0 => cur \in 1..Len(queue) /\ at = cur + 1)
  /\ early => cur # 0
  /\ cur # 0 =>
       LET e == queue[cur]
       IN /\ Pending \subseteq {Query(e)}
          /\ e.cb # NoObject => /\ Pending = IF Asks(e) /\ ~early THEN {Query(e)} ELSE {}
                                /\ early => Asks(e)

RInv == Balanced /\ Heap /\ Known /\ UnderWay

-----------------------------------------------------------------------------
(* The references of calls.                                                *)

InQueue(o, s) == [i \in 1..Len(s) |-> At(o, Tuple(s[i]))]

LEMMA OptionalIs ==
  ASSUME NEW o \in Callables \cup {NoObject}
  PROVE  /\ Optional(o) \in Seq(Objects)
         /\ \A p \in Objects : Times(p, Optional(o)) = Flag(p = o)
         /\ ToSet(Optional(o)) = IF o = NoObject THEN {} ELSE {o}
<1>1. CASE o = NoObject
  <2>1. Optional(o) = <<>>
    BY <1>1 DEF Optional
  <2>2. \A p \in Objects : p # o
    BY <1>1, ObjectsAssumption
  <2>3. ToSet(<<>>) = {}
    BY DEF ToSet
  <2> QED BY <1>1, <2>1, <2>2, <2>3, TimesOfNone DEF Flag
<1>2. CASE o # NoObject
  <2>1. Optional(o) = <<o>> /\ o \in Objects
    BY <1>2 DEF Optional, Objects
  <2>2. ToSet(<<o>>) = {o}
    BY DEF ToSet
  <2> QED BY <1>2, <2>1, <2>2, TimesOfOne
<1> QED BY <1>1, <1>2

LEMMA TupleIs ==
  ASSUME NEW e, e.cb \in Callables \cup {NoObject}, e.objs \in Seq(Objects \ Callables)
  PROVE  /\ e.objs \in Seq(Objects) /\ Tuple(e) \in Seq(Objects)
         /\ \A o \in Objects : /\ Times(o, Tuple(e)) = Times(o, e.objs) + Flag(o = e.cb)
                               /\ Times(o, e.objs) \in Nat /\ Times(o, Tuple(e)) \in Nat
                               /\ o \in Callables => Times(o, e.objs) = 0
<1>1. e.objs \in Seq(Objects)
  BY SeqMonotonic
<1>2. Tuple(e) \in Seq(Objects)
  BY <1>1, OptionalIs, ConcatProperties DEF Tuple
<1>3. ASSUME NEW o \in Objects PROVE Times(o, Tuple(e)) = Times(o, e.objs) + Flag(o = e.cb)
  BY <1>1, OptionalIs, TimesOfBoth DEF Tuple
<1>4. ASSUME NEW o \in Callables PROVE Times(o, e.objs) = 0
  <2>1. \A i \in 1..Len(e.objs) : e.objs[i] \in Objects \ Callables
    BY LenProperties
  <2> QED BY <2>1, AtIs
<1> QED BY <1>1, <1>2, <1>3, <1>4, AtIs

LEMMA InTuplesIs ==
  ASSUME IInv, Known, UnderWay, NEW o \in Objects
  PROVE  /\ InTuples(o) = Places(Tuples, InQueue(o, queue))
         /\ Tuples \in SUBSET (1..Len(queue)) /\ IsFiniteSet(Tuples)
         /\ \A i \in 1..Len(queue) : IsFiniteSet(InQueue(o, queue)[i])
         /\ \A i \in 1..Len(queue) : Cardinality(InQueue(o, queue)[i]) = Times(o, Tuple(queue[i]))
         /\ Cardinality(InTuples(o)) \in Nat
<1>1. DOMAIN queue = 1..Len(queue) /\ Len(queue) \in Nat
  BY LengthIs DEF IInv
<1>2. Tuples \in SUBSET (1..Len(queue))
  BY <1>1 DEF Tuples, Unread, UnderWay
<1>3. IsFiniteSet(Tuples)
  <2>1. IsFiniteSet(1..Len(queue))
    BY <1>1, FS_Interval
  <2> QED BY <1>2, <2>1, FS_Subset
<1>4. ASSUME NEW i \in 1..Len(queue)
      PROVE  /\ InQueue(o, queue)[i] = At(o, Tuple(queue[i]))
             /\ IsFiniteSet(At(o, Tuple(queue[i])))
  <2>1. Tuple(queue[i]) \in Seq(Objects)
    BY TupleIs DEF Known, EntryOK
  <2> QED BY <2>1, AtIs DEF InQueue
<1>5. InTuples(o) = Places(Tuples, InQueue(o, queue))
  <2>1. \A i \in Tuples : InQueue(o, queue)[i] = At(o, Tuple(queue[i]))
    BY <1>2, <1>4
  <2> QED BY <2>1 DEF InTuples, Places
<1>6. Cardinality(InTuples(o)) \in Nat
  BY <1>2, <1>3, <1>4, <1>5, PlacesFinite
<1> QED BY <1>2, <1>3, <1>4, <1>5, <1>6 DEF Times

LEMMA InQueriesIs ==
  ASSUME UnderWay, NEW o
  PROVE  /\ IsFiniteSet(Asked) /\ IsFiniteSet(InQueries(o))
         /\ InQueries(o) = {q \in Asked : q.cb = o /\ q.call # CurCall}
         /\ Cardinality(InQueries(o)) \in Nat
<1>1. IsFiniteSet(Asked)
  BY FS_Singleton, FS_Union DEF Asked, UnderWay
<1>2. InQueries(o) = {q \in Asked : q.cb = o /\ q.call # CurCall}
  BY DEF InQueries, Asked
<1>3. IsFiniteSet(InQueries(o))
  BY <1>1, <1>2, FS_Subset
<1> QED BY <1>1, <1>2, <1>3, FS_CardinalityType

\* The tuple of the call under way is among those that count.
LEMMA WithoutCur ==
  ASSUME IInv, Known, UnderWay, cur # 0, NEW o \in Objects
  PROVE  /\ cur \in Tuples /\ Tuples \ {cur} = Unread
         /\ Cardinality(InTuples(o)) =
              Cardinality(Places(Unread, InQueue(o, queue))) + Times(o, Tuple(queue[cur]))
         /\ Cardinality(Places(Unread, InQueue(o, queue))) \in Nat
<1>1. cur \in Nat /\ cur \in 1..Len(queue) /\ at = cur + 1
  BY DEF UnderWay
<1>2. cur \in Tuples /\ cur \notin Unread /\ Tuples = Unread \cup {cur}
  BY <1>1 DEF Tuples, Unread
<1> DEFINE F == InQueue(o, queue)
<1>3. /\ InTuples(o) = Places(Tuples, F) /\ IsFiniteSet(Tuples)
      /\ \A i \in Tuples : IsFiniteSet(F[i])
      /\ Cardinality(F[cur]) = Times(o, Tuple(queue[cur]))
  BY <1>1, InTuplesIs
<1>4. IsFiniteSet(Unread) /\ IsFiniteSet({cur}) /\ \A i \in Unread \cup {cur} : IsFiniteSet(F[i])
  BY <1>2, <1>3, FS_Subset, FS_Singleton
<1> HIDE DEF F
<1>5. Cardinality(Places(Unread \cup {cur}, F)) =
        Cardinality(Places(Unread, F)) + Cardinality(Places({cur}, F))
  <2>1. Unread \cap {cur} = {}
    BY <1>2
  <2> QED BY <1>4, <2>1, PlacesOfBoth
<1>6. Cardinality(Places({cur}, F)) = Cardinality(F[cur])
  BY <1>4, PlacesOfOne
<1>7. Cardinality(Places(Unread, F)) \in Nat
  BY <1>4, PlacesFinite
<1> QED BY <1>2, <1>3, <1>5, <1>6, <1>7 DEF F

LEMMA CallingType ==
  ASSUME IInv, Known, UnderWay, NEW o \in Objects
  PROVE  /\ Calling(o) \in Nat
         /\ Calling(o) >= Cardinality(InQueries(o))
         /\ \A q \in queries : q.cb = o => Calling(o) > 0
<1>1. Cardinality(InTuples(o)) \in Nat /\ Cardinality(InQueries(o)) \in Nat
      /\ IsFiniteSet(InQueries(o))
  BY InTuplesIs, InQueriesIs
<1>2. ASSUME cur # 0, queue[cur].cb = o PROVE Cardinality(InTuples(o)) >= 1
  <2>1. EntryOK(queue[cur])
    BY <1>2 DEF Known, UnderWay
  <2>2. Times(o, Tuple(queue[cur])) >= 1
    BY <1>2, <2>1, TupleIs DEF EntryOK, Flag
  <2>3. Times(o, Tuple(queue[cur])) \in Nat
    BY <2>1, TupleIs DEF EntryOK
  <2> QED BY <1>2, <2>2, <2>3, WithoutCur
<1>3. Calling(o) \in Nat /\ Calling(o) >= Cardinality(InQueries(o))
  BY SMTT(60), <1>1, <1>2 DEF Calling, Flag, UnderWay
<1>4. ASSUME NEW q \in queries, q.cb = o PROVE Calling(o) > 0
  <2>1. CASE q.call # CurCall
    <3>1. q \in InQueries(o)
      BY <1>4, <2>1 DEF InQueries
    <3>2. Cardinality(InQueries(o)) # 0
      BY <1>1, <3>1, FS_EmptySet
    <3> QED BY <1>1, <1>3, <3>2
  <2>2. CASE q.call = CurCall
    <3>1. q \in Pending /\ q.call \in 1..(Turn - 1)
      BY <2>2 DEF Pending, Asked, IInv, Past, Open
    <3>2. cur # 0
      BY <2>2, <3>1 DEF CurCall
    <3>3. queue[cur].cb = o /\ o # NoObject
      BY <1>4, <3>1, <3>2, ObjectsAssumption DEF UnderWay, Query
    <3>4. ~early
      BY <3>1, <3>2, <3>3 DEF UnderWay
    <3> QED BY <1>1, <1>2, <3>2, <3>3, <3>4 DEF Calling, Flag
  <2> QED BY <2>1, <2>2
<1> QED BY <1>3, <1>4

-----------------------------------------------------------------------------
(* What the steps do to the references of calls.                           *)

LEMMA CallingSame ==
  ASSUME UNCHANGED <<queue, at, cur, early, queries, back>>
  PROVE  \A o : Calling(o)' = Calling(o)
BY DEF Calling, InTuples, InQueries, Tuples, Unread, CurCall

LEMMA NotAnObject == \A o \in Objects : NoQuery.cb # o /\ NoQuery.call = 0
BY ObjectsAssumption DEF NoQuery

LEMMA OpenCalls ==
  ASSUME IInv
  PROVE  /\ Turn \in Nat \ {0} /\ \A q \in queries : q.call \in 1..(Turn - 1) /\ q.call # 0
         /\ \A i \in 1..Len(queue) : queue[i].call \in Nat \ {0}
         /\ (at # 0 /\ at <= Len(queue) => queue[at].call = Turn)
<1>1. Turn \in Nat \ {0} /\ \A q \in queries : q.call \in 1..(Turn - 1) /\ q.call # 0
  BY TurnIs DEF IInv, Past, Open
<1>2. \A i \in 1..Len(queue) : queue[i].call \in Nat \ {0}
  BY LengthIs DEF IInv, Numbered, Bounds
<1>3. ASSUME at # 0, at <= Len(queue) PROVE queue[at].call = Turn
  <2>1. at \in 1..Len(queue) /\ Start = at
    BY <1>3, LengthIs DEF IInv, Bounds, Start
  <2> QED BY <2>1 DEF IInv, Numbered, Turn
<1> QED BY <1>1, <1>2, <1>3

LEMMA CallingBegin ==
  ASSUME IInv, UnderWay, Begin, NEW o \in Objects
  PROVE  Calling(o)' = Calling(o)
<1>1. at = 0 /\ at' = 1 /\ UNCHANGED <<back, queue, cur, early, queries>>
  BY DEF Begin, array
<1>2. DOMAIN queue = 1..Len(queue) /\ Len(queue) \in Nat
  BY LengthIs DEF IInv
<1>3. Tuples' = Tuples
  BY <1>1, <1>2 DEF Tuples, Unread
<1>4. InTuples(o)' = InTuples(o) /\ InQueries(o)' = InQueries(o)
  BY <1>1, <1>3 DEF InTuples, InQueries, CurCall
<1> QED BY <1>1, <1>4 DEF Calling

LEMMA CallingGoesOut ==
  ASSUME IInv, UnderWay, ~script, cur = 0, at # 0, at <= Len(queue), cur' = at, at' = at + 1,
         \/ UNCHANGED queries
         \/ \E q : q.call = queue[at].call /\ queries' = queries \cup {q},
         UNCHANGED <<back, queue, early>>, NEW o \in Objects
  PROVE  Calling(o)' = Calling(o)
<1>1. DOMAIN queue = 1..Len(queue) /\ Len(queue) \in Nat /\ at \in Nat
  BY LengthIs DEF IInv, Bounds
<1>2. Tuples' = Tuples
  BY <1>1 DEF Tuples, Unread
<1>3. CurCall = 0 /\ CurCall' = Turn
  BY OpenCalls DEF CurCall
<1>4. back = NoQuery /\ back' = NoQuery /\ ~early /\ ~early'
  BY DEF UnderWay
<1>5. InQueries(o)' = InQueries(o)
  <2>1. \A q \in queries : q.call # 0 /\ q.call # Turn
    BY OpenCalls
  <2>2. \A q \in Asked' : q.cb = o /\ q.call # Turn => q \in queries
    BY <1>4, NotAnObject, OpenCalls DEF Asked
  <2>3. \A q \in Asked : q.cb = o => q \in queries
    BY <1>4, NotAnObject DEF Asked
  <2>4. queries \subseteq Asked /\ queries \subseteq Asked'
    BY DEF Asked
  <2> QED BY <1>3, <2>1, <2>2, <2>3, <2>4 DEF InQueries, Asked
<1>6. InTuples(o)' = InTuples(o)
  BY <1>2 DEF InTuples
<1> QED BY <1>4, <1>5, <1>6 DEF Calling

LEMMA CallingAnswer ==
  ASSUME UnderWay, NEW q \in queries, ~script, queries' = queries \ {q},
         \/ q.cb = NoObject /\ UNCHANGED back
         \/ q.cb # NoObject /\ back' = q,
         UNCHANGED <<queue, at, cur, early>>, NEW o \in Objects
  PROVE  Calling(o)' = Calling(o)
<1>1. back = NoQuery /\ CurCall' = CurCall
  BY DEF UnderWay, CurCall
<1>2. \A p : p.cb = o => (p \in queries \cup {back} <=> p \in queries' \cup {back'})
  BY <1>1, NotAnObject, ObjectsAssumption
<1>3. InQueries(o)' = InQueries(o)
  BY <1>1, <1>2 DEF InQueries
<1>4. InTuples(o)' = InTuples(o)
  BY DEF InTuples, Tuples, Unread
<1> QED BY <1>3, <1>4 DEF Calling

LEMMA CallingReturn ==
  ASSUME IInv, Known, UnderWay, back' = NoQuery,
         early' = (early \/ (back # NoQuery /\ back.call = CurCall)),
         UNCHANGED <<queue, at, cur, queries>>, NEW o \in Objects
  PROVE  Calling(o)' = Calling(o) - Flag(o = back.cb)
<1>1. InTuples(o)' = InTuples(o) /\ CurCall' = CurCall
  BY DEF InTuples, Tuples, Unread, CurCall
<1>2. Cardinality(InTuples(o)) \in Nat /\ Cardinality(InQueries(o)) \in Nat
      /\ IsFiniteSet(InQueries(o))
  BY InTuplesIs, InQueriesIs
<1>3. InQueries(o)' = {q \in queries : q.cb = o /\ q.call # CurCall}
  BY <1>1, NotAnObject DEF InQueries
<1>4. back \notin queries
  BY DEF UnderWay, Open
<1>5. CASE back.cb # o
  <2>1. InQueries(o)' = InQueries(o)
    BY <1>3, <1>5 DEF InQueries
  <2>2. (early' /\ queue[cur].cb = o) <=> (early /\ queue[cur].cb = o)
    <3> SUFFICES ASSUME back # NoQuery, back.call = CurCall PROVE queue[cur].cb # o
      OBVIOUS
    <3>1. back \in Pending /\ cur # 0
      BY DEF Pending, Asked, UnderWay, CurCall
    <3> QED BY <1>5, <3>1 DEF UnderWay, Query
  <2> QED BY <1>1, <1>2, <1>5, <2>1, <2>2 DEF Calling, Flag
<1>6. CASE back.cb = o
  <2>1. back # NoQuery
    BY <1>6, NotAnObject
  <2>2. CASE back.call = CurCall
    <3>1. InQueries(o)' = InQueries(o)
      BY <1>3, <2>2 DEF InQueries
    <3>2. back \in Pending /\ cur # 0
      BY <2>1, <2>2 DEF Pending, Asked, UnderWay, CurCall
    <3>3. queue[cur].cb = o /\ o # NoObject
      BY <1>6, <3>2, ObjectsAssumption DEF UnderWay, Query
    <3>4. ~early /\ early'
      BY <2>1, <2>2, <3>2, <3>3 DEF UnderWay
    <3> QED BY <1>1, <1>2, <1>6, <3>1, <3>3, <3>4 DEF Calling, Flag
  <2>3. CASE back.call # CurCall
    <3>1. back \in InQueries(o) /\ InQueries(o)' = InQueries(o) \ {back}
      BY <1>3, <1>4, <1>6, <2>3 DEF InQueries
    <3>2. Cardinality(InQueries(o)') = Cardinality(InQueries(o)) - 1
      BY <1>2, <3>1, FS_RemoveElement
    <3>3. early' <=> early
      BY <2>3
    <3>4. Flag(early /\ queue[cur].cb = o) \in Int
      BY DEF Flag
    <3> QED BY <1>1, <1>2, <1>6, <3>2, <3>3, <3>4 DEF Calling, Flag
  <2> QED BY <2>2, <2>3
<1> QED BY <1>5, <1>6

LEMMA CallingTidied ==
  ASSUME IInv, Known, UnderWay, ~script, cur # 0, cur' = 0, early' = FALSE,
         UNCHANGED <<queue, at, queries, back>>, NEW o \in Objects
  PROVE  Calling(o)' =
           Calling(o) - Times(o, Tuple(queue[cur])) + Flag(o = queue[cur].cb /\ Asks(queue[cur]))
<1> DEFINE e == queue[cur]
           t == Times(o, Tuple(e))
<1>1. cur \in 1..Len(queue) /\ back = NoQuery /\ EntryOK(e)
  BY DEF UnderWay, Known
<1>2. CurCall = e.call /\ CurCall' = 0 /\ e.call # 0
  BY <1>1, OpenCalls DEF CurCall
<1>3. Tuples' = Unread
  BY DEF Tuples, Unread
<1>4. InTuples(o)' = Places(Unread, InQueue(o, queue))
  <2>1. \A i \in Unread : i \in 1..Len(queue)
    BY LengthIs DEF Unread, IInv
  <2>2. \A i \in Unread : InQueue(o, queue)[i] = At(o, Tuple(queue[i]))
    BY <2>1 DEF InQueue
  <2> QED BY <1>3, <2>2 DEF InTuples, Places
<1>5. Cardinality(InTuples(o)') = Cardinality(InTuples(o)) - t
      /\ Cardinality(InTuples(o)) \in Nat /\ t \in Nat
  <2>1. t \in Nat
    BY <1>1, TupleIs DEF EntryOK
  <2> DEFINE a == Cardinality(Places(Unread, InQueue(o, queue)))
  <2>2. Cardinality(InTuples(o)) = a + t /\ a \in Nat /\ Cardinality(InTuples(o)') = a
    BY <1>4, WithoutCur
  <2> HIDE DEF a, t
  <2> QED BY <2>1, <2>2
<1> DEFINE A == {q \in Pending : q.cb = o}
<1>6. InQueries(o)' = InQueries(o) \cup A /\ InQueries(o) \cap A = {}
  <2>1. \A q \in Asked : q.cb = o => q.call # 0
    BY <1>1, NotAnObject, OpenCalls DEF Asked
  <2>2. InQueries(o)' = {q \in Asked : q.cb = o}
    BY <1>2, <2>1 DEF InQueries, Asked
  <2>3. InQueries(o) = {q \in Asked : q.cb = o /\ q.call # e.call}
    BY <1>2 DEF InQueries, Asked
  <2>4. A = {q \in Asked : q.cb = o /\ q.call = e.call}
    BY <1>2 DEF Pending
  <2> QED BY <2>2, <2>3, <2>4
<1>7. IsFiniteSet(A) /\ Cardinality(A) = Flag(o = e.cb /\ Asks(e) /\ ~early)
      /\ (early /\ o = e.cb => Asks(e))
  <2>1. CASE o = e.cb
    <3>1. e.cb # NoObject
      BY <2>1, ObjectsAssumption
    <3>2. Pending = IF Asks(e) /\ ~early THEN {Query(e)} ELSE {}
      BY <3>1 DEF UnderWay
    <3>3. A = Pending
      BY <2>1, <3>2 DEF Query
    <3>4. early => Asks(e)
      BY <3>1 DEF UnderWay
    <3>5. Cardinality({Query(e)}) = 1 /\ Cardinality({}) = 0
          /\ IsFiniteSet({Query(e)}) /\ IsFiniteSet({})
      BY FS_Singleton, FS_EmptySet
    <3> HIDE DEF A, e
    <3>6. CASE Asks(e) /\ ~early
      BY <2>1, <3>2, <3>3, <3>5, <3>6 DEF Flag
    <3>7. CASE ~(Asks(e) /\ ~early)
      BY <2>1, <3>2, <3>3, <3>4, <3>5, <3>7 DEF Flag
    <3> QED BY <3>6, <3>7
  <2>2. CASE o # e.cb
    <3>1. A = {}
      BY <2>2 DEF UnderWay, Query
    <3> QED BY <2>2, <3>1, FS_EmptySet DEF Flag
  <2> QED BY <2>1, <2>2
<1> DEFINE c == Cardinality(InQueries(o))
           d == Cardinality(A)
<1>8. Cardinality(InQueries(o)') = c + d /\ c \in Nat
  <2> HIDE DEF A
  <2> QED BY <1>6, <1>7, InQueriesIs, Parts
<1>9. Calling(o) = Cardinality(InTuples(o)) + c - Flag(early /\ e.cb = o)
      /\ Calling(o)' = Cardinality(InTuples(o)') + (c + d)
  <2>1. d \in Nat /\ Cardinality(InTuples(o)') \in Int
    BY <1>5, <1>7, FS_CardinalityType
  <2>2. Flag(early' /\ queue'[cur'].cb = o) = 0
    BY DEF Flag
  <2> HIDE DEF c, d
  <2> QED BY <1>8, <2>1, <2>2 DEF Calling, c
<1> DEFINE x == Cardinality(InTuples(o))
           y == Cardinality(InTuples(o)')
           f == Flag(early /\ e.cb = o)
           g == Flag(o = e.cb /\ Asks(e))
<1>10. f \in Int /\ g \in Int /\ d = g - f
  BY <1>7 DEF Flag
<1>11. y = x - t /\ x \in Nat /\ t \in Nat /\ c \in Nat /\ Calling(o) = x + c - f
       /\ Calling(o)' = y + (c + d)
  BY <1>5, <1>8, <1>9
<1>12. Calling(o)' = Calling(o) - t + g
  <2> HIDE DEF c, d, t, x, y, f, g
  <2> QED BY <1>10, <1>11
<1> QED BY <1>12

LEMMA CallingEnd ==
  ASSUME IInv, UnderWay, End, NEW o \in Objects
  PROVE  Calling(o)' = Calling(o)
<1>1. at > Len(queue) /\ cur = 0 /\ queue' = <<>> /\ UNCHANGED <<back, cur, early, queries>>
  BY DEF End, ReadAll
<1>2. DOMAIN queue = 1..Len(queue) /\ Len(queue) \in Nat /\ at \in Nat
  BY LengthIs DEF IInv, Bounds
<1>3. Tuples = {} /\ Tuples' = {}
  BY <1>1, <1>2 DEF Tuples, Unread
<1>4. InTuples(o)' = InTuples(o) /\ InQueries(o)' = InQueries(o)
  BY <1>1, <1>3 DEF InTuples, InQueries, CurCall
<1>5. ~early /\ ~early'
  BY <1>1 DEF UnderWay
<1> QED BY <1>4, <1>5 DEF Calling

LEMMA CallingPushed ==
  ASSUME IInv, Known, UnderWay, NEW e, queue' = Append(queue, e),
         e.cb \in Callables \cup {NoObject}, e.objs \in Seq(Objects \ Callables),
         UNCHANGED <<at, cur, early, queries, back>>, NEW o \in Objects
  PROVE  Calling(o)' = Calling(o) + Times(o, Tuple(e))
<1> DEFINE n == Len(queue)
           t == Times(o, Tuple(e))
           F == [i \in 1..(n + 1) |-> At(o, Tuple(queue'[i]))]
<1>1. PICK S : queue \in Seq(S)
  BY DEF IInv, IsSequence
<1>2. queue \in Seq(S \cup {e}) /\ n \in Nat
  BY <1>1, SeqMonotonic, LenProperties
<1>3. /\ DOMAIN queue = 1..n /\ DOMAIN queue' = 1..(n + 1)
      /\ \A i \in 1..n : queue'[i] = queue[i]
      /\ queue'[n + 1] = e
  <2>1. e \in S \cup {e}
    OBVIOUS
  <2>2. queue' \in Seq(S \cup {e}) /\ Len(queue') = n + 1
        /\ \A i \in 1..n : queue'[i] = queue[i]
        /\ queue'[n + 1] = e
    BY <1>2, <2>1, AppendProperties
  <2> QED BY <1>2, <2>2, LenProperties
<1>4. at \in Nat /\ at <= n + 1 /\ (cur # 0 => cur \in 1..n) /\ (early => cur # 0)
  BY DEF IInv, Bounds, UnderWay
<1>5. Tuples' = Tuples \cup {n + 1} /\ Tuples \cap {n + 1} = {} /\ Tuples \subseteq 1..n
  <2>1. Unread' = Unread \cup {n + 1}
    BY <1>2, <1>3, <1>4 DEF Unread
  <2> QED BY <1>2, <1>3, <1>4, <2>1 DEF Tuples, Unread
<1>6. \A i \in 1..n : F[i] = InQueue(o, queue)[i]
  BY <1>2, <1>3 DEF InQueue
<1>7. F[n + 1] = At(o, Tuple(e))
  BY <1>2, <1>3
<1>8. InTuples(o)' = Places(Tuples \cup {n + 1}, F)
  <2>1. \A i \in Tuples' : F[i] = At(o, Tuple(queue'[i]))
    BY <1>2, <1>5
  <2> QED BY <1>5, <2>1 DEF InTuples, Places
<1>9. t \in Nat /\ IsFiniteSet(At(o, Tuple(e)))
  BY TupleIs, AtIs
<1> HIDE DEF F
<1>10. /\ IsFiniteSet(Tuples) /\ IsFiniteSet({n + 1})
       /\ \A i \in Tuples \cup {n + 1} : IsFiniteSet(F[i])
  BY <1>5, <1>6, <1>7, <1>9, InTuplesIs, FS_Singleton
<1>11. Cardinality(Places(Tuples \cup {n + 1}, F)) =
         Cardinality(Places(Tuples, F)) + Cardinality(Places({n + 1}, F))
  <2> DEFINE I == Tuples
             J == {n + 1}
  <2>1. I \cap J = {} /\ IsFiniteSet(I) /\ IsFiniteSet(J) /\ \A i \in I \cup J : IsFiniteSet(F[i])
    BY <1>5, <1>10
  <2> HIDE DEF I, J
  <2>2. Cardinality(Places(I \cup J, F)) = Cardinality(Places(I, F)) + Cardinality(Places(J, F))
    BY <2>1, PlacesOfBoth
  <2> QED BY <2>2 DEF I, J
<1>12. Places(Tuples, F) = InTuples(o) /\ Cardinality(InTuples(o)) \in Nat
  <2>1. Places(Tuples, F) = Places(Tuples, InQueue(o, queue))
    BY <1>5, <1>6, PlacesAlike
  <2> QED BY <2>1, InTuplesIs
<1>13. Cardinality(Places({n + 1}, F)) = t
  <2>1. Cardinality(Places({n + 1}, F)) = Cardinality(F[n + 1])
    BY <1>10, PlacesOfOne
  <2> QED BY <1>7, <2>1 DEF Times
<1>14. Cardinality(InTuples(o)') = Cardinality(InTuples(o)) + t
  BY <1>8, <1>11, <1>12, <1>13
<1>15. CurCall' = CurCall /\ (early /\ queue[cur].cb = o <=> early' /\ queue'[cur'].cb = o)
  BY <1>3, <1>4 DEF CurCall
<1>16. InQueries(o)' = InQueries(o) /\ Cardinality(InQueries(o)) \in Nat
  BY <1>15, InQueriesIs DEF InQueries
<1>17. Calling(o)' = Cardinality(InTuples(o)) + t + Cardinality(InQueries(o))
                      - Flag(early /\ queue[cur].cb = o)
  BY <1>14, <1>15, <1>16 DEF Calling, Flag
<1> DEFINE x == Cardinality(InTuples(o))
           c == Cardinality(InQueries(o))
           f == Flag(early /\ queue[cur].cb = o)
<1>18. x \in Nat /\ c \in Nat /\ t \in Nat /\ f \in Int /\ Calling(o)' = x + t + c - f
       /\ Calling(o) = x + c - f
  <2>1. Calling(o) = x + c - f
    BY DEF Calling
  <2>2. f \in Int
    BY DEF Flag
  <2>3. Calling(o)' = x + t + c - f
    BY <1>17
  <2>4. x \in Nat /\ c \in Nat /\ t \in Nat
    BY <1>9, <1>12, <1>16
  <2> HIDE DEF f, x, c, t
  <2> QED BY <2>1, <2>2, <2>3, <2>4
<1>19. Calling(o)' = Calling(o) + t
  <2> HIDE DEF t, x, c, f
  <2> QED BY <1>18
<1> QED BY <1>19

-----------------------------------------------------------------------------
(* The script's own steps.                                                 *)

LEMMA Terms ==
  ASSUME IInv, RInv, NEW o \in Objects
  PROVE  /\ Own(rc, o) \in Int /\ rc[o] \in Int /\ over[o] \in Nat /\ leak[o] \in Nat
         /\ Calling(o) \in Nat
         /\ Flag(o \in held) \in {0, 1} /\ Flag(o = hook) \in {0, 1}
         /\ Own(rc, o) + over[o] = Flag(o \in held) + Flag(o = hook) + Calling(o) + leak[o]
<1>1. /\ Own(rc, o) \in Int /\ rc[o] \in Int /\ over[o] \in Nat /\ leak[o] \in Nat
  BY OwnType DEF RInv, Heap, Counts
<1>2. Calling(o) \in Nat
  BY CallingType DEF RInv
<1>3. Flag(o \in held) \in {0, 1} /\ Flag(o = hook) \in {0, 1}
  BY DEF Flag
<1> QED BY <1>1, <1>2, <1>3 DEF RInv, Balanced, Refs

LEMMA UnderWaySame ==
  ASSUME UnderWay, UNCHANGED <<queue, at, cur, early, queries, back, made>>,
         script' = script \/ script'
  PROVE  UnderWay'
BY DEF UnderWay, Pending, Asked, CurCall, Open

LEMMA KnownGrows ==
  ASSUME Known, UNCHANGED <<queue, queries, back, hook>>, born \subseteq born',
         \A l \in Lists \cap (born' \ born) : ToSet(Elements[l]) \subseteq born'
  PROVE  Known'
<1>1. \A i \in 1..Len(queue') :
        EntryOK(queue'[i]) /\ ToSet(Tuple(queue'[i])) \subseteq born'
  BY DEF Known
<1>2. \A q \in Asked' : q.cb \in (Callables \cap born') \cup {NoObject}
  BY DEF Known, Asked
<1>3. \A l \in Lists \cap born' : ToSet(Elements[l]) \subseteq born'
  BY DEF Known
<1>4. hook' \in born' \cup {NoObject}
  BY DEF Known
<1> QED BY <1>1, <1>2, <1>3, <1>4 DEF Known

LEMMA OfIs ==
  ASSUME NEW s \in Seq(Objects)
  PROVE  /\ Of(s) \in [Objects -> Nat]
         /\ \A o \in Objects : Of(s)[o] = Times(o, s)
         /\ \A o \in Objects : Times(o, s) > 0 => o \in ToSet(s)
<1>1. \A o \in Objects : Times(o, s) \in Nat /\ (Times(o, s) > 0 => o \in ToSet(s))
  BY AtIs, LenProperties DEF ToSet
<1> QED BY <1>1 DEF Of

LEMMA OnesAre ==
  ASSUME NEW o \in Objects
  PROVE  /\ <<o>> \in Seq(Objects) /\ Of(<<o>>) \in [Objects -> Nat]
         /\ \A p \in Objects : Of(<<o>>)[p] = Flag(p = o)
<1>1. <<o>> \in Seq(Objects)
  OBVIOUS
<1>2. Of(<<o>>) \in [Objects -> Nat] /\ \A p \in Objects : Of(<<o>>)[p] = Times(p, <<o>>)
  BY <1>1, OfIs
<1>3. \A p \in Objects : Times(p, <<o>>) = Flag(p = o)
  BY TimesOfOne
<1> QED BY <1>1, <1>2, <1>3

\* The objects that have not been made keep a count of zero.
LEMMA UnbornDecref ==
  ASSUME Heap, Known, NEW r \in Counts, \A o \in Objects \ born : r[o] = 0,
         NEW n \in [Objects -> Nat], \A o \in Objects \ born : n[o] = 0
  PROVE  \A o \in Objects \ born : Decref(r, n)[o] = 0
<1> DEFINE gone == {l \in Lists : 0 < r[l] /\ r[l] <= n[l]}
<1> SUFFICES ASSUME NEW o \in Objects \ born PROVE Decref(r, n)[o] = 0
  OBVIOUS
<1>1. \A l \in gone : l \in born
  BY DEF Objects
<1>2. \A l \in gone : At(o, Elements[l]) = {}
  <2> SUFFICES ASSUME NEW l \in gone PROVE At(o, Elements[l]) = {}
    OBVIOUS
  <2>1. ToSet(Elements[l]) \subseteq born
    BY <1>1 DEF Known
  <2> QED BY <2>1 DEF At, ToSet
<1>3. InLists(o, gone) = {}
  <2> HIDE DEF gone
  <2> QED BY <1>2 DEF InLists
<1>4. Decref(r, n)[o] = r[o] - n[o] - Cardinality(InLists(o, gone))
  BY DEF Decref
<1>5. Cardinality(InLists(o, gone)) = 0
  BY <1>3, FS_EmptySet
<1> QED BY <1>4, <1>5

LEMMA MakeKeeps ==
  ASSUME IInv, RInv, NEW o, Make(o) \/ Obtain(o)
  PROVE  RInv'
<1>1. /\ o \in Objects \ born /\ o \notin Lists
      /\ UNCHANGED <<queue, made, at, cur, early, queries, back, hook, over, script>>
      /\ born' = born \cup {o} /\ held' = held \cup {o}
  BY ObjectsAssumption DEF Make, Obtain, New, Objects, control, array, reading
<1>2. Heap /\ Known /\ UnderWay
  BY DEF RInv
<1>3. rc[o] = 0 /\ leak[o] = 0 /\ o \notin held /\ rc \in Counts /\ leak \in [Objects -> Nat]
  BY <1>1, <1>2 DEF Heap
<1>4. /\ rc' \in Counts /\ leak' \in [Objects -> Nat]
      /\ \A p \in Objects : p # o => rc'[p] = rc[p] /\ leak'[p] = leak[p]
      /\ rc'[o] - leak'[o] = 1
  BY <1>1, <1>3 DEF Make, Obtain, Counts
<1>5. ASSUME NEW p \in Objects PROVE (Own(rc, p) + over[p] = Refs(p) + leak[p])'
  <2>1. Own(rc', p) = Own(rc, p) + rc'[p] - rc[p]
    BY <1>1, <1>3, <1>4, OwnAlike DEF Objects
  <2>2. Calling(p)' = Calling(p)
    BY <1>1, CallingSame
  <2>3. Flag(p \in held') = IF p = o THEN 1 ELSE Flag(p \in held)
    BY <1>1 DEF Flag
  <2>4. Flag(o \in held) = 0 /\ rc'[p] \in Int /\ leak'[p] \in Nat
    BY <1>3, <1>4 DEF Flag, Counts
  <2>5. rc'[p] - rc[p] - (leak'[p] - leak[p]) = IF p = o THEN 1 ELSE 0
    <3>1. rc[p] \in Int /\ leak[p] \in Nat /\ rc'[p] \in Int /\ leak'[p] \in Nat
      BY <1>3, <1>4 DEF Counts
    <3> QED BY <1>3, <1>4, <3>1
  <2>6. /\ Own(rc', p) = Own(rc, p) + rc'[p] - rc[p]
        /\ Refs(p)' = Flag(p \in held') + Flag(p = hook) + Calling(p)
        /\ over'[p] = over[p]
    BY <1>1, <2>1, <2>2 DEF Refs
  <2>7. Own(rc', p) + over'[p] = Refs(p)' + leak'[p]
    <3> DEFINE f == Flag(p \in held)
               g == Flag(p = hook)
               c == Calling(p)
               d == Flag(p \in held')
    <3>1. /\ Own(rc, p) \in Int /\ rc[p] \in Int /\ over[p] \in Nat /\ leak[p] \in Nat
          /\ c \in Nat /\ f \in {0, 1} /\ g \in {0, 1}
          /\ Own(rc, p) + over[p] = f + g + c + leak[p]
      BY Terms
    <3>2. d = IF p = o THEN 1 ELSE f
      BY <2>3
    <3>3. p = o => f = 0
      BY <2>4
    <3>4. Refs(p)' = d + g + c
      BY <2>6
    <3> HIDE DEF f, g, c, d
    <3>5. CASE p = o
      BY <2>4, <2>5, <2>6, <3>1, <3>2, <3>3, <3>4, <3>5
    <3>6. CASE p # o
      <4>1. rc'[p] = rc[p] /\ leak'[p] = leak[p] /\ d = f
        BY <1>4, <3>2, <3>6
      <4>2. Own(rc', p) = Own(rc, p) /\ over'[p] = over[p]
        BY <2>6, <3>1, <4>1
      <4> QED BY <3>1, <3>4, <4>1, <4>2
    <3> QED BY <3>5, <3>6
  <2> QED BY <2>7
<1>6. Balanced'
  BY <1>5 DEF Balanced
<1>7. Heap'
  BY <1>1, <1>2, <1>4 DEF Heap
<1>8. Known'
  BY <1>1, <1>2, KnownGrows
<1>9. UnderWay'
  BY <1>1, <1>2, UnderWaySame
<1> QED BY <1>6, <1>7, <1>8, <1>9 DEF RInv

\* The new list has the references that are taken to its elements.
LEMMA OwnMakeList ==
  ASSUME NEW r \in Counts, NEW l \in Lists, r[l] = 0, NEW o \in Objects
  PROVE  /\ Incref(r, Of(<<l>> \o Elements[l])) \in Counts
         /\ Own(Incref(r, Of(<<l>> \o Elements[l])), o) = Own(r, o) + Flag(o = l)
<1> DEFINE n == Of(<<l>> \o Elements[l])
           s == Incref(r, n)
<1>1. /\ <<l>> \in Seq(Objects) /\ Elements[l] \in Seq(Objects)
      /\ <<l>> \o Elements[l] \in Seq(Objects)
  BY ElementsAre, SeqMonotonic, ConcatProperties DEF Objects
<1>2. n \in [Objects -> Nat] /\ \A p \in Objects : n[p] = Flag(p = l) + Times(p, Elements[l])
  <2>1. \A p \in Objects : Times(p, <<l>>) = Flag(p = l)
    BY TimesOfOne
  <2>2. \A p \in Objects :
          Times(p, <<l>> \o Elements[l]) = Times(p, <<l>>) + Times(p, Elements[l])
    BY <1>1, TimesOfBoth
  <2>3. n \in [Objects -> Nat] /\ \A p \in Objects : n[p] = Times(p, <<l>> \o Elements[l])
    BY <1>1, OfIs
  <2> HIDE DEF n
  <2> QED BY <2>1, <2>2, <2>3
<1>3. /\ s \in Counts /\ \A p \in Objects : s[p] = r[p] + n[p]
  BY <1>2 DEF Incref, Counts
<1>4. \A p \in Objects : Times(p, Elements[l]) \in Nat /\ (p \in Lists => Times(p, Elements[l]) = 0)
  <2>1. \A p \in Lists : p \notin Peers
    BY ObjectsAssumption
  <2> QED BY <1>1, <2>1, ElementsAre, AtIs
<1>5. Living(s) = Living(r) \cup {l} /\ l \notin Living(r)
  <2>1. \A p \in Lists : p \in Objects /\ r[p] \in Int /\ s[p] = r[p] + Flag(p = l)
    BY <1>2, <1>3, <1>4 DEF Counts, Objects, Flag
  <2> HIDE DEF s
  <2> QED BY <2>1 DEF Living, Flag
<1> DEFINE F == OfLists(o)
           a == Cardinality(InLists(o, Living(r)))
           t == Times(o, Elements[l])
<1>6. Cardinality(InLists(o, Living(s))) = a + t /\ a \in Nat
  <2>1. Living(r) \in SUBSET Lists /\ {l} \in SUBSET Lists /\ Living(r) \cup {l} \in SUBSET Lists
    BY DEF Living
  <2>2. /\ InLists(o, Living(r)) = Places(Living(r), F) /\ IsFiniteSet(Living(r))
        /\ InLists(o, Living(r) \cup {l}) = Places(Living(r) \cup {l}, F)
        /\ IsFiniteSet({l}) /\ \A m \in Living(r) \cup {l} : IsFiniteSet(F[m])
        /\ a \in Nat
    BY <2>1, InListsIs
  <2>3. Cardinality(Places({l}, F)) = t
    <3>1. F[l] = At(o, Elements[l])
      BY DEF OfLists
    <3> HIDE DEF F
    <3> QED BY <2>2, <3>1, PlacesOfOne DEF Times
  <2>4. Cardinality(Places(Living(r) \cup {l}, F)) =
          Cardinality(Places(Living(r), F)) + Cardinality(Places({l}, F))
    <3>1. Living(r) \cap {l} = {}
      BY <1>5
    <3> HIDE DEF F
    <3> QED BY <2>2, <3>1, PlacesOfBoth
  <2> QED BY <1>5, <2>2, <2>3, <2>4
<1>7. Own(s, o) = s[o] - (a + t) /\ Own(r, o) = r[o] - a
  BY <1>6 DEF Own
<1> DEFINE f == Flag(o = l)
<1>8. s[o] = r[o] + (f + t) /\ r[o] \in Int /\ t \in Nat /\ f \in Int
  BY <1>2, <1>3, <1>4 DEF Counts, Flag
<1> HIDE DEF s, a, t, f
<1>9. Own(s, o) = Own(r, o) + f
  BY <1>6, <1>7, <1>8
<1> QED BY <1>3, <1>9 DEF s, f

LEMMA MakeListKeeps ==
  ASSUME IInv, RInv, NEW l, MakeList(l)
  PROVE  RInv'
<1>1. /\ l \in Lists \ born /\ l \in Objects
      /\ UNCHANGED <<queue, made, at, cur, early, queries, back, hook, leak, over, script>>
      /\ born' = born \cup {l} /\ held' = held \cup {l}
      /\ ToSet(Elements[l]) \subseteq held
      /\ rc' = Incref(rc, Of(<<l>> \o Elements[l]))
  BY DEF MakeList, New, Objects, control, array, reading
<1>2. Heap /\ Known /\ UnderWay
  BY DEF RInv
<1>3. rc[l] = 0 /\ l \notin held /\ rc \in Counts /\ held \subseteq born /\ born \subseteq Objects
  BY <1>1, <1>2 DEF Heap
<1>4. rc' \in Counts
  BY <1>1, <1>3, OwnMakeList
<1>5. ASSUME NEW p \in Objects PROVE (Own(rc, p) + over[p] = Refs(p) + leak[p])'
  <2> DEFINE f == Flag(p \in held)
             g == Flag(p = hook)
             c == Calling(p)
             d == Flag(p \in held')
             x == Flag(p = l)
  <2>1. Own(rc', p) = Own(rc, p) + x
    BY <1>1, <1>3, OwnMakeList
  <2>2. Refs(p)' = d + g + c /\ over'[p] = over[p] /\ leak'[p] = leak[p]
    BY <1>1, CallingSame DEF Refs
  <2>3. d = f + x /\ x \in Int
    BY <1>1, <1>3 DEF Flag
  <2>4. /\ Own(rc, p) \in Int /\ over[p] \in Nat /\ leak[p] \in Nat
        /\ c \in Nat /\ f \in {0, 1} /\ g \in {0, 1}
        /\ Own(rc, p) + over[p] = f + g + c + leak[p]
    BY Terms
  <2> HIDE DEF f, g, c, d, x
  <2>5. Own(rc', p) + over'[p] = Refs(p)' + leak'[p]
    BY <2>1, <2>2, <2>3, <2>4
  <2> QED BY <2>5
<1>6. Balanced'
  BY <1>5 DEF Balanced
<1>7. Heap'
  <2>1. ASSUME NEW o \in Objects \ born' PROVE rc'[o] = 0 /\ leak'[o] = 0
    <3>1. o \notin born /\ o # l /\ rc[o] = 0 /\ leak[o] = 0
      BY <1>1, <1>2, <2>1 DEF Heap
    <3>2. <<l>> \in Seq(Objects) /\ Elements[l] \in Seq(Objects)
      BY <1>1, ElementsAre, SeqMonotonic DEF Objects
    <3>3. Times(o, Elements[l]) = 0
      <4>1. \A i \in 1..Len(Elements[l]) : Elements[l][i] \in ToSet(Elements[l])
        BY <3>2, LenProperties DEF ToSet
      <4>2. \A i \in 1..Len(Elements[l]) : Elements[l][i] # o
        BY <1>1, <1>3, <3>1, <4>1
      <4> QED BY <3>2, <4>2, AtIs
    <3>4. Times(o, <<l>> \o Elements[l]) = 0
      <4>1. Times(o, <<l>> \o Elements[l]) = Times(o, <<l>>) + Times(o, Elements[l])
        BY <3>2, TimesOfBoth
      <4>2. Times(o, <<l>>) = 0
        BY <3>1, TimesOfOne DEF Flag
      <4> QED BY <3>3, <4>1, <4>2
    <3> QED BY <1>1, <3>1, <3>4 DEF Incref, Of
  <2> QED BY <1>1, <1>2, <1>4, <2>1 DEF Heap
<1>8. Known'
  BY <1>1, <1>2, <1>3, KnownGrows
<1>9. UnderWay'
  BY <1>1, <1>2, UnderWaySame
<1> QED BY <1>6, <1>7, <1>8, <1>9 DEF RInv

LEMMA ForgetKeeps ==
  ASSUME IInv, RInv, NEW o \in Objects, Forget(o)
  PROVE  RInv'
<1> DEFINE n == Of(<<o>>)
<1>1. /\ o \in held /\ held' = held \ {o} /\ rc' = Decref(rc, n)
      /\ UNCHANGED <<queue, made, at, cur, early, queries, back, born, hook, leak, over, script>>
  BY DEF Forget, Becomes, array, reading
<1>2. Heap /\ Known /\ UnderWay /\ rc \in Counts /\ held \subseteq born
  BY DEF RInv, Heap
<1>3. n \in [Objects -> Nat] /\ \A p \in Objects : n[p] = Flag(p = o)
  BY OnesAre
<1> HIDE DEF n
<1>4. rc' \in Counts /\ \A p \in Objects : Own(rc', p) = Own(rc, p) - n[p]
  BY <1>1, <1>2, <1>3, OwnDecref
<1>5. ASSUME NEW p \in Objects PROVE (Own(rc, p) + over[p] = Refs(p) + leak[p])'
  <2> DEFINE f == Flag(p \in held)
             g == Flag(p = hook)
             c == Calling(p)
             d == Flag(p \in held')
             x == Flag(p = o)
  <2>1. Own(rc', p) = Own(rc, p) - x
    BY <1>3, <1>4
  <2>2. Refs(p)' = d + g + c /\ over'[p] = over[p] /\ leak'[p] = leak[p]
    BY <1>1, CallingSame DEF Refs
  <2>3. d = f - x /\ x \in Int
    BY <1>1 DEF Flag
  <2>4. /\ Own(rc, p) \in Int /\ over[p] \in Nat /\ leak[p] \in Nat
        /\ c \in Nat /\ f \in {0, 1} /\ g \in {0, 1}
        /\ Own(rc, p) + over[p] = f + g + c + leak[p]
    BY Terms
  <2> HIDE DEF f, g, c, d, x
  <2>5. Own(rc', p) + over'[p] = Refs(p)' + leak'[p]
    BY <2>1, <2>2, <2>3, <2>4
  <2> QED BY <2>5
<1>6. Balanced'
  BY <1>5 DEF Balanced
<1>7. Heap'
  <2>1. \A p \in Objects \ born : rc[p] = 0 /\ n[p] = 0
    BY <1>1, <1>2, <1>3 DEF Heap, Flag
  <2>2. \A p \in Objects \ born : rc'[p] = 0
    BY <1>1, <1>2, <1>3, <2>1, UnbornDecref
  <2> QED BY <1>1, <1>2, <1>4, <2>2 DEF Heap
<1>8. Known'
  BY <1>1, <1>2, KnownGrows
<1>9. UnderWay'
  BY <1>1, <1>2, UnderWaySame
<1> QED BY <1>6, <1>7, <1>8, <1>9 DEF RInv

LEMMA SetHookKeeps ==
  ASSUME IInv, RInv, NEW o \in Objects, SetHook(o)
  PROVE  RInv'
<1> DEFINE n == Of(<<o>>)
           m == Of(Optional(hook))
           r == Incref(rc, n)
<1>1. /\ o \in held \cap Callables /\ hook' = o /\ rc' = Decref(r, m)
      /\ UNCHANGED <<queue, made, at, cur, early, queries, back, born, held, leak, over, script>>
  BY DEF SetHook, Becomes, array, reading
<1>2. Heap /\ Known /\ UnderWay /\ rc \in Counts /\ held \subseteq born
      /\ hook \in (Callables \cap born) \cup {NoObject}
  BY DEF RInv, Heap, Known
<1>3. n \in [Objects -> Nat] /\ \A p \in Objects : n[p] = Flag(p = o)
  BY OnesAre
<1>4. m \in [Objects -> Nat] /\ \A p \in Objects : m[p] = Flag(p = hook)
  BY <1>2, OptionalIs, OfIs
<1> HIDE DEF n, m
<1>5. r \in Counts /\ \A p \in Objects : Own(r, p) = Own(rc, p) + n[p]
  <2>1. \A l \in Lists : n[l] = 0
    BY <1>1, <1>3, ObjectsAssumption DEF Flag, Objects
  <2> QED BY <1>2, <1>3, <2>1, OwnIncref
<1>6. \A p \in Objects \ born : r[p] = 0 /\ m[p] = 0
  BY <1>1, <1>2, <1>3, <1>4, ObjectsAssumption DEF Heap, Incref, Flag
<1> HIDE DEF r
<1>7. rc' \in Counts /\ \A p \in Objects : Own(rc', p) = Own(r, p) - m[p]
  BY <1>1, <1>4, <1>5, OwnDecref
<1>8. ASSUME NEW p \in Objects PROVE (Own(rc, p) + over[p] = Refs(p) + leak[p])'
  <2> DEFINE f == Flag(p \in held)
             g == Flag(p = hook)
             c == Calling(p)
             x == Flag(p = o)
  <2>1. Own(rc', p) = Own(rc, p) + x - g
    <3>1. Own(rc', p) = Own(r, p) - m[p] /\ Own(r, p) = Own(rc, p) + n[p]
      BY <1>5, <1>7
    <3>2. n[p] = x /\ m[p] = g
      BY <1>3, <1>4
    <3>3. x \in Int /\ g \in Int /\ Own(rc, p) \in Int
      BY Terms DEF Flag
    <3> HIDE DEF x, g
    <3> QED BY <3>1, <3>2, <3>3
  <2>2. Refs(p)' = f + x + c /\ over'[p] = over[p] /\ leak'[p] = leak[p]
    BY <1>1, CallingSame DEF Refs
  <2>3. x \in Int
    BY DEF Flag
  <2>4. /\ Own(rc, p) \in Int /\ over[p] \in Nat /\ leak[p] \in Nat
        /\ c \in Nat /\ f \in {0, 1} /\ g \in {0, 1}
        /\ Own(rc, p) + over[p] = f + g + c + leak[p]
    BY Terms
  <2> HIDE DEF f, g, c, x
  <2>5. Own(rc', p) + over'[p] = Refs(p)' + leak'[p]
    BY <2>1, <2>2, <2>3, <2>4
  <2> QED BY <2>5
<1>9. Balanced'
  BY <1>8 DEF Balanced
<1>10. Heap'
  <2>1. \A p \in Objects \ born : rc'[p] = 0
    BY <1>1, <1>2, <1>4, <1>5, <1>6, UnbornDecref
  <2> QED BY <1>1, <1>2, <1>7, <2>1 DEF Heap
<1>11. Known'
  <2>1. Asked' = Asked
    BY <1>1 DEF Asked
  <2> QED BY <1>1, <1>2, <2>1 DEF Known
<1>12. UnderWay'
  BY <1>1, <1>2, UnderWaySame
<1> QED BY <1>9, <1>10, <1>11, <1>12 DEF RInv

\* Steps that leave the references as they are.
LEMMA QuietKeeps ==
  ASSUME IInv, RInv, UNCHANGED <<back, queue, made, at, cur, early, queries, heap>>,
         script' = script \/ script'
  PROVE  RInv'
<1>1. UNCHANGED <<born, held, hook, rc, leak, over>>
  BY DEF heap
<1>2. Balanced'
  BY <1>1, CallingSame DEF RInv, Balanced, Refs
<1>3. Heap'
  BY <1>1 DEF RInv, Heap
<1>4. Known'
  BY <1>1, KnownGrows DEF RInv
<1>5. UnderWay'
  BY UnderWaySame DEF RInv
<1> QED BY <1>2, <1>3, <1>4, <1>5 DEF RInv

\* Steps of py_do_all and of Telegram that leave the counts as they are.
LEMMA HeapSame ==
  ASSUME IInv, RInv, UNCHANGED heap, \A o \in Objects : Calling(o)' = Calling(o)
  PROVE  Balanced' /\ Heap'
<1>1. UNCHANGED <<born, held, hook, rc, leak, over>>
  BY DEF heap
<1>2. Balanced'
  BY <1>1 DEF RInv, Balanced, Refs
<1>3. Heap'
  BY <1>1 DEF RInv, Heap
<1> QED BY <1>2, <1>3

-----------------------------------------------------------------------------
(* A call is accepted.                                                     *)

\* What an entry of the array refers to, and the references that it leaves behind.
LEMMA PushedKeeps ==
  ASSUME IInv, RInv, NEW e, NEW refs \in Seq(Objects), Pushed(e, refs),
         EntryOK(e), ToSet(Tuple(e)) \subseteq born,
         \A o \in ToSet(refs) : o \in held /\ Alive(o),
         leak' \in [Objects -> Nat],
         \A o \in Objects : leak'[o] = leak[o] + Times(o, refs) - Times(o, Tuple(e))
  PROVE  RInv'
<1> DEFINE n == Of(refs)
<1>1. /\ queue' = Append(queue, e) /\ made' = made + 1 /\ rc' = Incref(rc, n)
      /\ UNCHANGED <<script, back, at, cur, early, queries, born, held, hook, over>>
  BY DEF Pushed, control, reading
<1>2. Heap /\ Known /\ UnderWay /\ rc \in Counts /\ held \subseteq born
  BY DEF RInv, Heap
<1>3. /\ n \in [Objects -> Nat] /\ \A o \in Objects : n[o] = Times(o, refs)
      /\ \A o \in Objects : n[o] > 0 => o \in held /\ rc[o] > 0
  BY OfIs DEF Alive
<1> HIDE DEF n
<1>4. rc' \in Counts /\ \A o \in Objects : Own(rc', o) = Own(rc, o) + n[o]
  <2>1. \A l \in Lists : n[l] > 0 => rc[l] > 0
    BY <1>3 DEF Objects
  <2> QED BY <1>1, <1>2, <1>3, <2>1, OwnIncref
<1>5. e.cb \in Callables \cup {NoObject} /\ e.objs \in Seq(Objects \ Callables)
  BY DEF EntryOK
<1>6. ASSUME NEW p \in Objects PROVE (Own(rc, p) + over[p] = Refs(p) + leak[p])'
  <2> DEFINE f == Flag(p \in held)
             g == Flag(p = hook)
             c == Calling(p)
             t == Times(p, Tuple(e))
             x == Times(p, refs)
  <2>1. Own(rc', p) = Own(rc, p) + x
    BY <1>3, <1>4
  <2>2. Refs(p)' = f + g + (c + t) /\ over'[p] = over[p] /\ leak'[p] = leak[p] + x - t
    BY <1>1, <1>2, <1>5, CallingPushed DEF Refs
  <2>3. x \in Nat /\ t \in Nat
    BY <1>5, TupleIs, AtIs
  <2>4. /\ Own(rc, p) \in Int /\ over[p] \in Nat /\ leak[p] \in Nat
        /\ c \in Nat /\ f \in {0, 1} /\ g \in {0, 1}
        /\ Own(rc, p) + over[p] = f + g + c + leak[p]
    BY Terms
  <2> HIDE DEF f, g, c, x, t
  <2>5. Own(rc', p) + over'[p] = f + g + c + leak[p] + x
    BY SMTT(60), <2>1, <2>2, <2>3, <2>4
  <2>6. Refs(p)' + leak'[p] = f + g + c + leak[p] + x
    <3>1. Refs(p)' + leak'[p] = f + g + (c + t) + (leak[p] + x - t)
      BY <2>2
    <3> QED BY <2>3, <2>4, <3>1
  <2> QED BY <2>5, <2>6
<1>7. Balanced'
  BY <1>6 DEF Balanced
<1>8. Heap'
  <2>1. ASSUME NEW o \in Objects \ born PROVE rc'[o] = 0 /\ leak'[o] = 0
    <3>1. rc[o] = 0 /\ leak[o] = 0 /\ o \notin held
      BY <1>2 DEF Heap
    <3>2. n[o] = 0 /\ Times(o, refs) = 0
      BY <1>3, <3>1
    <3>3. Times(o, Tuple(e)) = 0
      <4>1. Tuple(e) \in Seq(Objects) /\ Times(o, Tuple(e)) \in Nat
        BY <1>5, TupleIs
      <4>2. Times(o, Tuple(e)) > 0 => o \in ToSet(Tuple(e))
        BY <4>1, OfIs
      <4> QED BY <4>1, <4>2
    <3> QED BY <1>1, <3>1, <3>2, <3>3 DEF Incref
  <2> QED BY <1>1, <1>2, <1>4, <2>1 DEF Heap
<1>9. PICK S : queue \in Seq(S)
  BY DEF IInv, IsSequence
<1>10. /\ Len(queue) \in Nat /\ Len(queue') = Len(queue) + 1
       /\ \A i \in 1..Len(queue) : queue'[i] = queue[i]
       /\ queue'[Len(queue) + 1] = e
  <2>1. queue \in Seq(S \cup {e}) /\ e \in S \cup {e}
    BY <1>9, SeqMonotonic
  <2> QED BY <1>1, <2>1, AppendProperties, LenProperties
<1>11. Known'
  <2>1. ASSUME NEW i \in 1..Len(queue')
        PROVE  EntryOK(queue'[i]) /\ ToSet(Tuple(queue'[i])) \subseteq born
    <3>1. i \in 1..Len(queue) \/ i = Len(queue) + 1
      BY <1>10
    <3> QED BY <1>2, <1>10, <3>1 DEF Known
  <2>2. Asked' = Asked
    BY <1>1 DEF Asked
  <2> QED BY <1>1, <1>2, <2>1, <2>2 DEF Known
<1>12. UnderWay'
  <2>1. made \in Nat /\ \A k \in 1..made : k \in 1..(made + 1)
    BY DEF IInv, Bounds
  <2>2. cur # 0 => cur \in 1..Len(queue) /\ cur \in 1..Len(queue') /\ queue'[cur] = queue[cur]
    BY <1>2, <1>10 DEF UnderWay
  <2>3. Asked' = Asked /\ Open' = Open /\ CurCall' = CurCall
    BY <1>1, <2>2 DEF Asked, Open, CurCall
  <2>4. Pending' = Pending
    BY <2>3 DEF Pending
  <2> QED BY <1>1, <1>2, <2>1, <2>2, <2>3, <2>4 DEF UnderWay
<1> QED BY <1>7, <1>8, <1>11, <1>12 DEF RInv

LEMMA ArgumentsAre ==
  ASSUME NEW f, NEW objs \in Arguments(f)
  PROVE  /\ objs \in Seq(Objects \ Callables)
         /\ f = "create_group_chat" => \E l \in Lists : objs = <<l>>
<1>1. PICK n \in 0..2 : objs \in [1..n -> Objects \ Callables]
  BY DEF Arguments
<1>2. objs \in Seq(Objects \ Callables)
  BY <1>1
<1>3. ASSUME f = "create_group_chat" PROVE \E l \in Lists : objs = <<l>>
  <2>1. Params(f) = <<Lists>>
    BY <1>3 DEF Params
  <2>2. Len(objs) = 1 /\ \A i \in DOMAIN objs : objs[i] \in Params(f)[i]
    BY <2>1 DEF Arguments
  <2>3. DOMAIN objs = 1..1 /\ objs[1] \in Lists
    BY <1>2, <2>1, <2>2, LenProperties
  <2>4. objs = <<objs[1]>>
    BY <1>2, <2>2, <2>3
  <2> QED BY <2>3, <2>4
<1> QED BY <1>2, <1>3

\* The tuple of a call refers to its arguments and its callback, all of them held.
LEMMA TupleKeeps ==
  ASSUME IInv, RInv, NEW e, CanPush(e.objs, e.cb), EntryOK(e), Pushed(e, Tuple(e)),
         UNCHANGED leak
  PROVE  RInv'
<1>1. e.cb \in Callables \cup {NoObject} /\ e.objs \in Seq(Objects \ Callables)
  BY DEF EntryOK
<1>2. Tuple(e) \in Seq(Objects) /\ \A o \in Objects : Times(o, Tuple(e)) \in Nat
  BY <1>1, TupleIs
<1>3. \A o \in ToSet(Tuple(e)) : o \in held /\ Alive(o)
  BY DEF CanPush, Tuple
<1>4. held \subseteq born /\ leak \in [Objects -> Nat]
  BY DEF RInv, Heap
<1>5. \A o \in Objects : leak'[o] = leak[o] + Times(o, Tuple(e)) - Times(o, Tuple(e))
  BY <1>2, <1>4
<1> QED BY <1>2, <1>3, <1>4, <1>5, PushedKeeps

LEMMA EntryIs ==
  ASSUME NEW f, NEW objs, NEW got, NEW sound, NEW cb, NEW e,
         e = Entry(f, objs, got, sound, cb)
  PROVE  /\ e.objs = objs /\ e.got = got /\ e.sound = sound /\ e.cb = cb
         /\ e.kind = "create_group_chat" => f = "create_group_chat"
BY DEF Entry, Kind

LEMMA PushKeeps ==
  ASSUME IInv, RInv, NEW f, NEW objs \in Arguments(f), NEW got \in 0..Len(objs),
         NEW sound \in BOOLEAN, NEW cb \in Callables \cup {NoObject},
         Push(f, objs, got, sound, cb)
  PROVE  RInv'
<1> DEFINE e == Entry(f, objs, got, sound, cb)
<1>1. /\ e.objs = objs /\ e.got = got /\ e.sound = sound /\ e.cb = cb
      /\ e.kind = "create_group_chat" => f = "create_group_chat"
  BY EntryIs
<1>2. Pushed(e, objs \o Optional(cb)) /\ CanPush(objs, cb) /\ UNCHANGED leak
      /\ (sound => got = Len(objs))
  BY DEF Push
<1> HIDE DEF e
<1>3. EntryOK(e)
  BY <1>1, <1>2, ArgumentsAre DEF EntryOK
<1>4. Tuple(e) = objs \o Optional(cb)
  BY <1>1 DEF Tuple
<1> QED BY <1>1, <1>2, <1>3, <1>4, TupleKeeps

LEMMA PassKeeps ==
  ASSUME IInv, RInv, NEW f, f # "create_group_chat", NEW objs \in Seq(Objects \ Callables),
         NEW cb \in Callables \cup {NoObject}, Pass(f, objs, cb)
  PROVE  RInv'
<1> DEFINE e == Sound(f, objs, cb)
<1>1. /\ e.objs = objs /\ e.got = Len(objs) /\ e.sound = TRUE /\ e.cb = cb
      /\ e.kind # "create_group_chat"
  <2>1. e = Entry(f, objs, Len(objs), TRUE, cb)
    BY DEF Sound
  <2> HIDE DEF e
  <2> QED BY <2>1 DEF Entry, Kind
<1>2. Pushed(e, objs \o Optional(cb)) /\ CanPush(objs, cb) /\ UNCHANGED leak
  BY DEF Pass
<1>3. Len(objs) \in 0..Len(objs)
  BY LenProperties
<1> HIDE DEF e
<1>4. EntryOK(e)
  BY <1>1, <1>3 DEF EntryOK
<1>5. Tuple(e) = objs \o Optional(cb)
  BY <1>1 DEF Tuple
<1> QED BY <1>1, <1>2, <1>4, <1>5, TupleKeeps

\* The references that are left behind when a peer is pushed in the place of a tuple.
LEMMA BareKeeps ==
  ASSUME IInv, RInv, NEW f, f # "create_group_chat", NEW peer \in Peers,
         CanPush(<<peer>>, NoObject),
         Pushed(Entry(f, <<>>, 0, FALSE, NoObject), <<peer, peer, peer>>),
         leak' = Incref(leak, Of(<<peer, peer, peer>>))
  PROVE  RInv'
<1> DEFINE e == Entry(f, <<>>, 0, FALSE, NoObject)
           refs == <<peer, peer, peer>>
<1>1. /\ e.objs = <<>> /\ e.got = 0 /\ e.sound = FALSE /\ e.cb = NoObject
      /\ e.kind # "create_group_chat"
  <2>1. e = Entry(f, <<>>, 0, FALSE, NoObject)
    OBVIOUS
  <2> HIDE DEF e
  <2> QED BY <2>1 DEF Entry, Kind
<1>2. EntryOK(e)
  <2>1. e.objs \in Seq(Objects \ Callables) /\ Len(e.objs) = 0
    BY <1>1, EmptySeq
  <2> HIDE DEF e
  <2>2. e.got \in 0..Len(e.objs)
    <3>1. e.got = 0
      BY <1>1
    <3> QED BY <2>1, <3>1
  <2>3. e.cb \in Callables \cup {NoObject} /\ e.sound = FALSE /\ e.kind # "create_group_chat"
    BY <1>1
  <2> QED BY <2>1, <2>2, <2>3 DEF EntryOK
<1>3. Tuple(e) = <<>>
  <2> HIDE DEF e
  <2> QED BY <1>1 DEF Tuple, Optional
<1>4. refs \in Seq(Objects) /\ ToSet(refs) = {peer}
  BY DEF Objects, ToSet
<1>5. peer \in held /\ Alive(peer)
  <2>1. <<peer>> \o Optional(NoObject) = <<peer>>
    BY DEF Optional
  <2>2. ToSet(<<peer>>) = {peer}
    BY DEF ToSet
  <2> QED BY <2>1, <2>2 DEF CanPush
<1>6. leak \in [Objects -> Nat]
  BY DEF RInv, Heap
<1> HIDE DEF refs
<1>7. Of(refs) \in [Objects -> Nat] /\ \A o \in Objects : Of(refs)[o] = Times(o, refs)
  BY <1>4, OfIs
<1>8. leak' \in [Objects -> Nat] /\ \A o \in Objects : leak'[o] = leak[o] + Times(o, refs)
  <2>1. leak' = Incref(leak, Of(refs))
    BY DEF refs
  <2>2. \A o \in Objects : leak[o] \in Nat /\ Of(refs)[o] \in Nat /\ Of(refs)[o] = Times(o, refs)
    BY <1>6, <1>7
  <2> DEFINE n == Of(refs)
  <2>3. leak' = [o \in Objects |-> leak[o] + n[o]]
    BY <2>1 DEF Incref
  <2> HIDE DEF n
  <2>4. \A o \in Objects : leak[o] \in Nat /\ n[o] \in Nat /\ n[o] = Times(o, refs)
    BY <2>2 DEF n
  <2> HIDE DEF refs
  <2>5. \A o \in Objects : leak[o] + n[o] \in Nat
    BY <2>4
  <2>6. leak' \in [Objects -> Nat] /\ \A o \in Objects : leak'[o] = leak[o] + n[o]
    BY <2>3, <2>5
  <2> QED BY <2>4, <2>6
<1>9. \A o \in Objects : leak'[o] = leak[o] + Times(o, refs) - Times(o, Tuple(e))
  <2>1. \A o \in Objects : Times(o, Tuple(e)) = 0
    BY <1>3, TimesOfNone, Zenon
  <2>2. \A o \in Objects : leak[o] \in Nat /\ Times(o, refs) \in Nat
    BY <1>6, <1>7
  <2> HIDE DEF e, refs
  <2> SUFFICES ASSUME NEW o \in Objects
               PROVE  leak'[o] = leak[o] + Times(o, refs) - Times(o, Tuple(e))
    OBVIOUS
  <2>3. /\ leak'[o] = leak[o] + Times(o, refs) /\ Times(o, Tuple(e)) = 0
        /\ leak[o] \in Nat /\ Times(o, refs) \in Nat
    BY <1>8, <2>1, <2>2
  <2> QED BY <2>3
<1>10. ToSet(Tuple(e)) \subseteq born
  <2>1. ToSet(<<>>) = {}
    BY DEF ToSet
  <2> HIDE DEF e
  <2> QED BY <1>3, <2>1
<1>11. Pushed(e, refs)
  BY DEF refs
<1> HIDE DEF e
<1> QED BY <1>2, <1>4, <1>5, <1>8, <1>9, <1>10, <1>11, PushedKeeps

LEMMA ContactKeeps ==
  ASSUME IInv, RInv, NEW peer \in Peers, NEW cb \in Callables \cup {NoObject}, NEW f,
         CallSendContact(f, peer, cb)
  PROVE  RInv'
<1> DEFINE e == Entry(f, <<peer>>, Flag(cb # NoObject), cb # NoObject, NoObject)
<1>1. f = "send_contact" /\ CanPush(<<peer>>, cb) /\ Pushed(e, <<peer>>) /\ UNCHANGED leak
  BY DEF CallSendContact
<1>2. /\ e.objs = <<peer>> /\ e.got = Flag(cb # NoObject) /\ e.sound = (cb # NoObject)
      /\ e.cb = NoObject /\ e.kind # "create_group_chat"
  <2>1. e = Entry(f, <<peer>>, Flag(cb # NoObject), cb # NoObject, NoObject)
    OBVIOUS
  <2> HIDE DEF e
  <2> QED BY <1>1, <2>1, EntryIs
<1> HIDE DEF e
<1>3. <<peer>> \in Seq(Objects \ Callables) /\ Len(<<peer>>) = 1
  BY ObjectsAssumption DEF Objects
<1>4. EntryOK(e)
  <2>1. e.got \in 0..1 /\ (e.sound => e.got = 1)
    <3>1. Flag(cb # NoObject) \in 0..1 /\ (cb # NoObject => Flag(cb # NoObject) = 1)
      BY DEF Flag
    <3>2. e.sound => cb # NoObject
      BY Zenon, <1>2
    <3>3. e.got = Flag(cb # NoObject)
      BY <1>2
    <3> HIDE DEF e
    <3> QED BY Zenon, <3>1, <3>2, <3>3
  <2>2. Len(e.objs) = 1 /\ e.objs \in Seq(Objects \ Callables)
    BY <1>2, <1>3
  <2>3. e.sound \in BOOLEAN /\ e.cb \in Callables \cup {NoObject}
    BY <1>2
  <2>4. e.got \in 0..Len(e.objs) /\ (e.sound => e.got = Len(e.objs))
    BY <2>1, <2>2
  <2>5. e.kind = "create_group_chat" => \E l \in Lists : e.objs = <<l>>
    BY <1>2
  <2> QED BY <2>2, <2>3, <2>4, <2>5 DEF EntryOK
<1>5. Tuple(e) = <<peer>>
  BY <1>2 DEF Tuple, Optional
<1>6. peer \in held /\ Alive(peer)
  <2>1. <<peer>> \in Seq(Objects) /\ Optional(cb) \in Seq(Objects)
    BY OptionalIs DEF Objects
  <2>2. (<<peer>> \o Optional(cb))[1] = peer /\ 1 \in DOMAIN (<<peer>> \o Optional(cb))
    <3>1. Len(<<peer>>) = 1 /\ Len(Optional(cb)) \in Nat
      BY <2>1, LenProperties
    <3>2. 1 \in 1..(Len(<<peer>>) + Len(Optional(cb))) /\ 1 <= Len(<<peer>>) /\ <<peer>>[1] = peer
      BY <3>1
    <3>3. /\ (<<peer>> \o Optional(cb)) \in Seq(Objects)
          /\ Len(<<peer>> \o Optional(cb)) = Len(<<peer>>) + Len(Optional(cb))
          /\ (<<peer>> \o Optional(cb))[1] = peer
      BY <2>1, <3>2, ConcatProperties
    <3> QED BY <3>2, <3>3, LenProperties
  <2> QED BY <1>1, <2>2 DEF CanPush, ToSet
<1>7. CanPush(e.objs, e.cb)
  <2>1. <<peer>> \o Optional(NoObject) = <<peer>> /\ ToSet(<<peer>>) = {peer}
    BY DEF Optional, ToSet
  <2> QED BY <1>1, <1>2, <1>6, <2>1 DEF CanPush
<1> QED BY <1>1, <1>4, <1>5, <1>7, TupleKeeps

LEMMA MethodKeeps ==
  ASSUME IInv, RInv, NEW f, NEW cb \in Callables \cup {NoObject}, CallMethod(f, cb)
  PROVE  RInv'
<1>1. \A o \in Peers \cup Msgs : <<o>> \in Seq(Objects \ Callables)
  BY ObjectsAssumption DEF Objects
<1>2. ASSUME NEW p \in Peers, CallSend(f, p, cb) PROVE RInv'
  BY <1>1, <1>2, PassKeeps DEF CallSend
<1>3. ASSUME NEW p \in Peers, CallBare(f, p, cb) PROVE RInv'
  <2>1. CASE Pass(f, <<p>>, cb)
    BY <1>1, <1>3, <2>1, PassKeeps DEF CallBare
  <2>2. CASE cb = NoObject
    <3>1. f # "create_group_chat"
      BY <1>3 DEF CallBare
    <3> QED BY <1>3, <2>1, <2>2, <3>1, BareKeeps DEF CallBare
  <2> QED BY <1>3, <2>1, <2>2 DEF CallBare
<1>4. ASSUME NEW p \in Peers, CallSendContact(f, p, cb) PROVE RInv'
  BY <1>4, ContactKeeps
<1>5. ASSUME NEW objs \in Arguments(f), CallChat(f, objs, cb) PROVE RInv'
  BY <1>5, ArgumentsAre, PassKeeps DEF CallChat
<1>6. ASSUME NEW o \in Peers \cup Msgs, CallInfo(f, o, cb) PROVE RInv'
  BY <1>1, <1>6, PassKeeps DEF CallInfo
<1> QED BY <1>2, <1>3, <1>4, <1>5, <1>6 DEF CallMethod

-----------------------------------------------------------------------------
(* py_do_all and Telegram.                                                 *)

LEMMA BeginKeeps == ASSUME IInv, RInv, Begin PROVE RInv'
<1>1. /\ at = 0 /\ UNCHANGED <<back, queue, made, cur, early, queries>> /\ UNCHANGED heap
      /\ UNCHANGED <<born, hook>> /\ ~script
  BY DEF Begin, array, heap
<1>2. Balanced' /\ Heap'
  BY <1>1, CallingBegin, HeapSame DEF RInv
<1>3. Known'
  BY <1>1, KnownGrows DEF RInv
<1>4. cur = 0
  BY <1>1 DEF RInv, UnderWay
<1>5. UnderWay'
  BY <1>1, <1>4 DEF RInv, UnderWay, Open
<1> QED BY <1>2, <1>3, <1>5 DEF RInv

LEMMA EndKeeps == ASSUME IInv, RInv, End PROVE RInv'
<1>1. /\ cur = 0 /\ queue' = <<>> /\ UNCHANGED <<script, back, made, cur, early, queries>>
      /\ UNCHANGED heap /\ UNCHANGED <<born, hook>>
  BY DEF End, heap
<1>2. Balanced' /\ Heap'
  BY <1>1, CallingEnd, HeapSame DEF RInv
<1>3. Known'
  <2>1. Asked' = Asked /\ Len(queue') = 0
    BY <1>1, EmptySeq DEF Asked
  <2> QED BY <1>1, <2>1 DEF RInv, Known
<1>4. UnderWay'
  BY <1>1 DEF RInv, UnderWay, Open
<1> QED BY <1>2, <1>3, <1>4 DEF RInv

LEMMA CbIsBorn ==
  ASSUME NEW e, EntryOK(e), e.cb # NoObject
  PROVE  e.cb \in Callables /\ e.cb \in ToSet(Tuple(e))
<1>1. e.cb \in Callables /\ e.cb \in Objects /\ e.objs \in Seq(Objects \ Callables)
  BY DEF EntryOK, Objects
<1>2. Tuple(e) \in Seq(Objects) /\ Times(e.cb, Tuple(e)) = Times(e.cb, e.objs) + Flag(e.cb = e.cb)
      /\ Times(e.cb, e.objs) \in Nat
  BY <1>1, TupleIs
<1>3. Times(e.cb, Tuple(e)) > 0
  BY <1>2 DEF Flag
<1> QED BY <1>1, <1>2, <1>3, OfIs

LEMMA IssueKeeps == ASSUME IInv, RInv, Issue, run' = run, run = "up" PROVE RInv'
<1> DEFINE e == queue[at]
<1>1. /\ ~script /\ at # 0 /\ cur = 0 /\ at <= Len(queue) /\ cur' = at /\ at' = at + 1
      /\ queries' = queries \cup (IF Asks(e) THEN {Query(e)} ELSE {})
      /\ UNCHANGED <<script, back, queue, made, early>> /\ UNCHANGED heap
      /\ UNCHANGED <<born, hook>>
  BY DEF Issue, array, heap, Query
<1>2. Heap /\ Known /\ UnderWay
  BY DEF RInv
<1>3. at \in 1..Len(queue)
  BY <1>1, LengthIs DEF IInv, Bounds
<1>4. Balanced' /\ Heap'
  <2>1. \/ UNCHANGED queries
        \/ \E q : q.call = queue[at].call /\ queries' = queries \cup {q}
    <3>1. Query(e).call = queue[at].call
      BY DEF Query
    <3> QED BY <1>1, <3>1
  <2>2. \A o \in Objects : Calling(o)' = Calling(o)
    BY <1>1, <1>2, <2>1, CallingGoesOut
  <2> QED BY <1>1, <2>2, HeapSame
<1>5. EntryOK(e) /\ ToSet(Tuple(e)) \subseteq born
  BY <1>2, <1>3 DEF Known
<1>6. Known'
  <2>1. Query(e).cb \in (Callables \cap born) \cup {NoObject}
    BY <1>5, CbIsBorn DEF Query
  <2>2. \A q \in Asked' : q.cb \in (Callables \cap born) \cup {NoObject}
    BY <1>1, <1>2, <2>1 DEF Known, Asked
  <2> QED BY <1>1, <1>2, <2>2 DEF Known
<1>7. UnderWay'
  <2>1. e.call = Turn /\ Turn # 0 /\ \A q \in queries : q.call # Turn /\ q.call # 0
    BY <1>1, OpenCalls
  <2>2. back = NoQuery /\ back' = NoQuery /\ NoQuery.call = 0 /\ ~early'
    BY <1>1, <1>2 DEF UnderWay, NoQuery
  <2>3. IsFiniteSet(queries')
    <3>1. IsFiniteSet(IF Asks(e) THEN {Query(e)} ELSE {})
      BY FS_Singleton, FS_EmptySet
    <3> QED BY <1>1, <1>2, <3>1, FS_Union DEF UnderWay
  <2>4. back'.call \notin Open'
    BY <1>1, <2>1, <2>2 DEF Open, Query
  <2>5. CurCall' = Turn
    BY <1>1, <2>1 DEF CurCall
  <2>6. Pending' = IF Asks(e) THEN {Query(e)} ELSE {}
    <3>1. Query(e).call = Turn
      BY <2>1 DEF Query
    <3>2. Asked' = queries \cup (IF Asks(e) THEN {Query(e)} ELSE {}) \cup {NoQuery}
      BY <1>1, <2>2 DEF Asked
    <3> QED BY <2>1, <2>2, <2>5, <3>1, <3>2 DEF Pending
  <2>7. queue'[cur'] = e
    BY <1>1
  <2> HIDE DEF e
  <2> QED BY <1>1, <1>3, <2>2, <2>3, <2>4, <2>6, <2>7 DEF UnderWay
<1> QED BY <1>4, <1>6, <1>7 DEF RInv

LEMMA AnswerKeeps ==
  ASSUME IInv, RInv, NEW q \in queries, Answer(q), run' = run, run = "up"
  PROVE  RInv'
<1>1. /\ ~script /\ queries' = queries \ {q}
      /\ \/ q.cb = NoObject /\ UNCHANGED <<script, back>>
         \/ q.cb # NoObject /\ script' = TRUE /\ back' = q
      /\ UNCHANGED <<queue, made, at, cur, early>> /\ UNCHANGED heap
      /\ UNCHANGED <<born, hook>>
  BY DEF Answer, array, reading, heap
<1>2. Heap /\ Known /\ UnderWay
  BY DEF RInv
<1>3. Balanced' /\ Heap'
  <2>1. \A o \in Objects : Calling(o)' = Calling(o)
    BY <1>1, <1>2, CallingAnswer
  <2> QED BY <1>1, <2>1, HeapSame
<1>4. Asked' \subseteq Asked
  BY <1>1 DEF Asked
<1>5. Known'
  BY <1>1, <1>2, <1>4 DEF Known
<1>6. UnderWay'
  <2>1. q.call \in 1..made /\ q.call # 0 /\ \A p \in queries \ {q} : p.call # q.call /\ p.call # 0
    BY OpenCalls, TurnIs DEF IInv, Past, Bounds
  <2>2. back = NoQuery /\ NoQuery.call = 0
    BY <1>1, <1>2 DEF UnderWay, NoQuery
  <2>3. IsFiniteSet(queries')
    BY <1>1, <1>2, FS_Subset DEF UnderWay
  <2>4. back'.call \notin Open'
    BY <1>1, <2>1, <2>2 DEF Open
  <2>5. back' = NoQuery \/ back'.call \in 1..made'
    BY <1>1, <2>1, <2>2
  <2>6. CurCall' = CurCall
    BY <1>1 DEF CurCall
  <2>7. ASSUME cur # 0
        PROVE  /\ Pending' \subseteq Pending
               /\ queue[cur].cb # NoObject => Pending' = Pending
    <3>1. Pending' \subseteq Pending
      BY <1>4, <2>6 DEF Pending
    <3>2. ASSUME queue[cur].cb # NoObject PROVE Pending \subseteq Pending'
      <4>1. cur \in 1..Len(queue)
        BY <1>2, <2>7 DEF UnderWay
      <4>2. CurCall # 0
        BY <2>7, <4>1, OpenCalls DEF CurCall
      <4>3. \A p \in Pending : p.cb = queue[cur].cb /\ p \in queries
        BY <1>2, <2>2, <2>7, <4>2 DEF UnderWay, Query, Pending, Asked
      <4>4. \A p \in Pending : p \in Asked'
        BY <1>1, <3>2, <4>3 DEF Asked
      <4> QED BY <2>6, <4>4 DEF Pending
    <3> QED BY <3>1, <3>2
  <2> QED BY <1>1, <1>2, <2>2, <2>3, <2>4, <2>5, <2>7 DEF UnderWay
<1> QED BY <1>3, <1>5, <1>6 DEF RInv

LEMMA ReturnKeeps == ASSUME IInv, RInv, Return PROVE RInv'
<1> DEFINE n == Of(Optional(back.cb))
<1>1. /\ script' = FALSE /\ back' = NoQuery /\ rc' = Decref(rc, n)
      /\ early' = (early \/ (back # NoQuery /\ back.call = CurCall))
      /\ UNCHANGED <<queue, made, at, cur, queries, born, held, hook, leak, over>>
  BY DEF Return, Becomes, array
<1>2. Heap /\ Known /\ UnderWay /\ rc \in Counts
      /\ back.cb \in (Callables \cap born) \cup {NoObject}
  BY DEF RInv, Heap, Known, Asked
<1>3. n \in [Objects -> Nat] /\ \A p \in Objects : n[p] = Flag(p = back.cb)
  BY <1>2, OptionalIs, OfIs
<1> HIDE DEF n
<1>4. rc' \in Counts /\ \A p \in Objects : Own(rc', p) = Own(rc, p) - n[p]
  BY <1>1, <1>2, <1>3, OwnDecref
<1>5. ASSUME NEW p \in Objects PROVE (Own(rc, p) + over[p] = Refs(p) + leak[p])'
  <2> DEFINE f == Flag(p \in held)
             g == Flag(p = hook)
             c == Calling(p)
             x == Flag(p = back.cb)
  <2>1. Own(rc', p) = Own(rc, p) - x
    BY <1>3, <1>4
  <2>2. Refs(p)' = f + g + (c - x) /\ over'[p] = over[p] /\ leak'[p] = leak[p]
    BY <1>1, <1>2, CallingReturn DEF Refs
  <2>3. x \in Int
    BY DEF Flag
  <2>4. /\ Own(rc, p) \in Int /\ over[p] \in Nat /\ leak[p] \in Nat
        /\ c \in Nat /\ f \in {0, 1} /\ g \in {0, 1}
        /\ Own(rc, p) + over[p] = f + g + c + leak[p]
    BY Terms
  <2> HIDE DEF f, g, c, x
  <2>5. Own(rc', p) + over'[p] = Refs(p)' + leak'[p]
    BY <2>1, <2>2, <2>3, <2>4
  <2> QED BY <2>5
<1>6. Balanced'
  BY <1>5 DEF Balanced
<1>7. Heap'
  <2>1. \A p \in Objects \ born : rc[p] = 0 /\ n[p] = 0
    BY <1>2, <1>3, ObjectsAssumption DEF Heap, Flag
  <2>2. \A p \in Objects \ born : rc'[p] = 0
    BY <1>1, <1>2, <1>3, <2>1, UnbornDecref
  <2> QED BY <1>1, <1>2, <1>4, <2>2 DEF Heap
<1>8. Known'
  <2>1. \A q \in Asked' : q.cb \in (Callables \cap born) \cup {NoObject}
    BY <1>1, <1>2 DEF Known, Asked, NoQuery
  <2> QED BY <1>1, <1>2, <2>1 DEF Known
<1>9. UnderWay'
  <2>1. CurCall' = CurCall /\ NoQuery.call = 0 /\ Open' = Open
    BY <1>1 DEF CurCall, NoQuery, Open
  <2>2. 0 \notin Open
    BY OpenCalls DEF Open
  <2>3. early' => cur # 0
    <3>1. back # NoQuery => back.call # 0
      BY <1>2 DEF UnderWay, IInv, Bounds
    <3>2. back # NoQuery /\ back.call = CurCall => cur # 0
      BY <3>1 DEF CurCall
    <3> QED BY <1>1, <1>2, <3>2 DEF UnderWay
  <2>4. ASSUME cur # 0 PROVE CurCall # 0 /\ Pending' = Pending \ {back}
    <3>1. CurCall # 0
      <4>1. cur \in 1..Len(queue)
        BY <1>2, <2>4 DEF UnderWay
      <4> QED BY <2>4, <4>1, OpenCalls DEF CurCall
    <3>2. back \notin queries
      BY <1>2 DEF UnderWay, Open
    <3>3. Pending' = {q \in queries : q.call = CurCall}
      BY <1>1, <2>1, <3>1 DEF Pending, Asked
    <3> QED BY <3>1, <3>2, <3>3 DEF Pending, Asked
  <2>5. ASSUME cur # 0, queue[cur].cb # NoObject
        PROVE  LET e == queue[cur]
               IN  /\ Pending' = IF Asks(e) /\ ~early' THEN {Query(e)} ELSE {}
                   /\ early' => Asks(e)
    <3> DEFINE e == queue[cur]
    <3>1. Pending = (IF Asks(e) /\ ~early THEN {Query(e)} ELSE {}) /\ (early => Asks(e))
      BY <1>2, <2>5 DEF UnderWay
    <3>2. CASE back \in Pending
      <4>1. back # NoQuery /\ back.call = CurCall
        BY <2>1, <2>4, <2>5, <3>2 DEF Pending
      <4>2. early' /\ Asks(e) /\ Pending = {back}
        BY <1>1, <3>1, <3>2, <4>1
      <4>3. Pending' = {}
        BY <2>4, <2>5, <4>2
      <4> QED BY <4>2, <4>3
    <3>3. CASE back \notin Pending
      <4>1. early' <=> early
        BY <1>1, <3>3 DEF Pending, Asked
      <4>2. Pending' = Pending
        BY <2>4, <2>5, <3>3
      <4> HIDE DEF e
      <4> QED BY <3>1, <4>1, <4>2 DEF e
    <3> QED BY <3>2, <3>3
  <2> QED BY <1>1, <1>2, <2>1, <2>2, <2>3, <2>4, <2>5 DEF UnderWay
<1> QED BY <1>6, <1>7, <1>8, <1>9 DEF RInv

-----------------------------------------------------------------------------
(* A call has been made: what is given back, and what is not.              *)

IsGroup(e) == e.kind = "create_group_chat" /\ Asks(e)

\* The references of an entry's arguments that PyArg_ParseTuple has taken, and the others.
LEMMA PartsOf ==
  ASSUME NEW e, EntryOK(e)
  PROVE  /\ Parsed(e) \in [Objects -> Nat] /\ Unparsed(e) \in [Objects -> Nat]
         /\ \A o \in Objects : Times(o, e.objs) = Parsed(e)[o] + Unparsed(e)[o]
         /\ \A o \in Callables : Parsed(e)[o] = 0
         /\ IsGroup(e) => \A o \in Peers : Parsed(e)[o] = 0
<1> DEFINE s == SubSeq(e.objs, 1, e.got)
           t == SubSeq(e.objs, e.got + 1, Len(e.objs))
<1>1. e.objs \in Seq(Objects \ Callables) /\ e.got \in 0..Len(e.objs)
      /\ e.cb \in Callables \cup {NoObject}
  BY DEF EntryOK
<1>2. /\ e.objs \in Seq(Objects) /\ Len(e.objs) \in Nat
      /\ \A i \in 1..Len(e.objs) : e.objs[i] \in Objects
  BY <1>1, SeqMonotonic, LenProperties
<1>3. s \in Seq(Objects) /\ t \in Seq(Objects)
  <2>1. \A i \in 1..e.got : e.objs[i] \in Objects
    BY <1>1, <1>2
  <2>2. \A i \in (e.got + 1)..Len(e.objs) : e.objs[i] \in Objects
    BY <1>1, <1>2
  <2>3. e.got \in Int /\ e.got + 1 \in Int /\ Len(e.objs) \in Int
    BY <1>1, <1>2
  <2> QED BY <2>1, <2>2, <2>3, SubSeqProperties
<1>4. \A o \in Objects : Times(o, e.objs) = Times(o, s) + Times(o, t)
  BY <1>1, <1>2, TimesOfTwo
<1> HIDE DEF s, t
<1>5. /\ Of(s) \in [Objects -> Nat] /\ \A o \in Objects : Of(s)[o] = Times(o, s)
      /\ Of(t) \in [Objects -> Nat] /\ \A o \in Objects : Of(t)[o] = Times(o, t)
  BY <1>3, OfIs
<1>6. Parsed(e) = Of(s) /\ Unparsed(e) = Of(t)
  BY DEF Parsed, Unparsed, s, t
<1>7. \A o \in Objects : Times(o, e.objs) = Parsed(e)[o] + Unparsed(e)[o]
  BY <1>4, <1>5, <1>6
<1>8. ASSUME NEW o \in Objects, Times(o, e.objs) = 0 PROVE Parsed(e)[o] = 0
  <2>1. Parsed(e)[o] \in Nat /\ Unparsed(e)[o] \in Nat
    BY <1>5, <1>6
  <2> QED BY <1>7, <1>8, <2>1
<1>9. \A o \in Callables : o \in Objects /\ Times(o, e.objs) = 0
  BY <1>1, TupleIs DEF Objects
<1>10. ASSUME IsGroup(e), NEW o \in Peers PROVE Times(o, e.objs) = 0 /\ o \in Objects
  <2>1. PICK l \in Lists : e.objs = <<l>>
    BY <1>10 DEF EntryOK, IsGroup
  <2>2. o # l
    BY <2>1, ObjectsAssumption
  <2> QED BY <2>1, <2>2, TimesOfOne DEF Flag, Objects
<1> QED BY <1>5, <1>6, <1>7, <1>8, <1>9, <1>10

LEMMA BackIs ==
  ASSUME NEW e, EntryOK(e)
  PROVE  /\ BackInCase(e) \in [Objects -> Nat] /\ BackAfter(e) \in [Objects -> Nat]
         /\ \A o \in Objects : BackInCase(e)[o] = IF o \in Lists THEN Parsed(e)[o] ELSE 0
         /\ ~IsGroup(e) =>
              \A o \in Objects : BackAfter(e)[o] = IF o \in Peers THEN Parsed(e)[o] ELSE 0
         /\ IsGroup(e) => \A o \in Objects :
              BackAfter(e)[o] > 0 => \E l \in Lists : e.objs = <<l>> /\ o \in ToSet(Elements[l])
<1>1. Parsed(e) \in [Objects -> Nat]
  BY PartsOf
<1>2. /\ BackInCase(e) \in [Objects -> Nat]
      /\ \A o \in Objects : BackInCase(e)[o] = IF o \in Lists THEN Parsed(e)[o] ELSE 0
  BY <1>1 DEF BackInCase, Only
<1>3. ASSUME ~IsGroup(e)
      PROVE  /\ BackAfter(e) \in [Objects -> Nat]
             /\ \A o \in Objects : BackAfter(e)[o] = IF o \in Peers THEN Parsed(e)[o] ELSE 0
  <2>1. BackAfter(e) = Only(Peers, Parsed(e))
    BY <1>3 DEF BackAfter, IsGroup
  <2> QED BY <1>1, <2>1 DEF Only
<1>4. ASSUME IsGroup(e)
      PROVE  /\ BackAfter(e) \in [Objects -> Nat]
             /\ \A o \in Objects :
                  BackAfter(e)[o] > 0 => \E l \in Lists : e.objs = <<l>> /\ o \in ToSet(Elements[l])
  <2>1. PICK l \in Lists : e.objs = <<l>>
    BY <1>4 DEF EntryOK, IsGroup
  <2> DEFINE p == Elements[l][Len(Elements[l])]
  <2>2. p \in Peers /\ p \in Objects /\ p \in ToSet(Elements[l])
    <3>1. Len(Elements[l]) \in 1..Len(Elements[l]) /\ DOMAIN Elements[l] = 1..Len(Elements[l])
      BY ElementsAre, LenProperties
    <3> QED BY <3>1, ElementsAre DEF Objects, ToSet
  <2>3. BackAfter(e) = Of(<<p>>)
    BY <1>4, <2>1 DEF BackAfter, IsGroup, Last
  <2> HIDE DEF p
  <2>4. BackAfter(e) \in [Objects -> Nat] /\ \A o \in Objects : BackAfter(e)[o] = Flag(o = p)
    BY <2>2, <2>3, OnesAre
  <2>5. \A o \in Objects : BackAfter(e)[o] > 0 => o = p
    BY <2>4 DEF Flag
  <2> QED BY <2>1, <2>2, <2>4, <2>5
<1> QED BY <1>2, <1>3, <1>4

LEMMA KeptIs ==
  ASSUME NEW e, EntryOK(e)
  PROVE  /\ Kept(e) \in [Objects -> Nat]
         /\ \A o \in Objects :
              Kept(e)[o] = Unparsed(e)[o] + (IF o \in Msgs THEN Parsed(e)[o] ELSE 0)
                             + Flag(o = e.cb) + Flag(o = e.cb /\ e.sound /\ ~Asks(e))
<1> DEFINE cb == Of(Optional(e.cb))
           lost == IF e.sound /\ ~Asks(e) THEN Incref(cb, cb) ELSE cb
           msgs == Only(Msgs, Parsed(e))
<1>1. cb \in [Objects -> Nat] /\ \A o \in Objects : cb[o] = Flag(o = e.cb)
  <2>1. e.cb \in Callables \cup {NoObject}
    BY DEF EntryOK
  <2> QED BY <2>1, OptionalIs, OfIs
<1> HIDE DEF cb
<1>2. /\ lost \in [Objects -> Nat]
      /\ \A o \in Objects : lost[o] = Flag(o = e.cb) + Flag(o = e.cb /\ e.sound /\ ~Asks(e))
  <2>1. CASE e.sound /\ ~Asks(e)
    <3>1. lost = [o \in Objects |-> cb[o] + cb[o]]
      BY <2>1 DEF Incref
    <3>2. \A o \in Objects : cb[o] \in Nat /\ cb[o] = Flag(o = e.cb)
      BY <1>1
    <3>3. \A o \in Objects : Flag(o = e.cb /\ e.sound /\ ~Asks(e)) = Flag(o = e.cb)
      BY <2>1 DEF Flag
    <3> HIDE DEF lost
    <3> QED BY <3>1, <3>2, <3>3
  <2>2. CASE ~(e.sound /\ ~Asks(e))
    <3>1. lost = cb
      BY <2>2
    <3>2. \A o \in Objects : Flag(o = e.cb /\ e.sound /\ ~Asks(e)) = 0
      BY <2>2 DEF Flag
    <3>3. \A o \in Objects : cb[o] \in Nat /\ cb[o] = Flag(o = e.cb)
      BY <1>1
    <3> HIDE DEF lost
    <3> QED BY <1>1, <3>1, <3>2, <3>3
  <2> QED BY <2>1, <2>2
<1>3. Parsed(e) \in [Objects -> Nat] /\ Unparsed(e) \in [Objects -> Nat]
  BY PartsOf
<1>4. msgs \in [Objects -> Nat]
      /\ \A o \in Objects : msgs[o] = IF o \in Msgs THEN Parsed(e)[o] ELSE 0
  BY <1>3 DEF Only
<1>5. Kept(e) = Incref(Incref(Unparsed(e), msgs), lost)
  BY DEF Kept, cb
<1> HIDE DEF lost, msgs
<1>6. Kept(e) = [o \in Objects |-> Unparsed(e)[o] + msgs[o] + lost[o]]
  BY <1>5 DEF Incref
<1>7. \A o \in Objects : Unparsed(e)[o] \in Nat /\ msgs[o] \in Nat /\ lost[o] \in Nat
  BY <1>2, <1>3, <1>4
<1>8. Kept(e) \in [Objects -> Nat]
      /\ \A o \in Objects : Kept(e)[o] = Unparsed(e)[o] + msgs[o] + lost[o]
  BY <1>6, <1>7
<1> SUFFICES ASSUME NEW o \in Objects
             PROVE  Kept(e)[o] = Unparsed(e)[o] + (IF o \in Msgs THEN Parsed(e)[o] ELSE 0)
                                   + Flag(o = e.cb) + Flag(o = e.cb /\ e.sound /\ ~Asks(e))
  BY <1>8
<1> DEFINE f == Flag(o = e.cb)
           g == Flag(o = e.cb /\ e.sound /\ ~Asks(e))
           m == IF o \in Msgs THEN Parsed(e)[o] ELSE 0
<1>9. f \in Int /\ g \in Int /\ lost[o] = f + g /\ msgs[o] = m
      /\ Kept(e)[o] = Unparsed(e)[o] + msgs[o] + lost[o]
  BY <1>2, <1>4, <1>8 DEF Flag
<1>10. Kept(e)[o] = Unparsed(e)[o] + m + f + g
  <2>1. Unparsed(e)[o] \in Nat /\ msgs[o] \in Nat
    BY <1>7
  <2> HIDE DEF f, g, m
  <2> QED BY <1>9, <2>1
<1> QED BY <1>10

\* What is given back and left behind accounts for the tuple of the call.
LEMMA TidyBalance ==
  ASSUME NEW e, EntryOK(e), NEW o \in Objects
  PROVE  LET given == BackInCase(e)[o] + (IF IsGroup(e) THEN 0 ELSE BackAfter(e)[o])
         IN  Flag(e.sound /\ o = e.cb) - given =
               Kept(e)[o] - Times(o, Tuple(e)) + Flag(o = e.cb /\ Asks(e))
<1> DEFINE P == Parsed(e)[o]
           U == Unparsed(e)[o]
           f == Flag(o = e.cb)
           g == Flag(o = e.cb /\ e.sound /\ ~Asks(e))
           h == Flag(o = e.cb /\ Asks(e))
           s == Flag(e.sound /\ o = e.cb)
           m == IF o \in Msgs THEN P ELSE 0
           given == BackInCase(e)[o] + (IF IsGroup(e) THEN 0 ELSE BackAfter(e)[o])
<1>1. /\ e.cb \in Callables \cup {NoObject} /\ e.objs \in Seq(Objects \ Callables)
      /\ e.sound \in BOOLEAN
  BY DEF EntryOK
<1>2. Times(o, Tuple(e)) = Times(o, e.objs) + f /\ Times(o, e.objs) \in Nat
  BY <1>1, TupleIs
<1>3. Times(o, e.objs) = P + U /\ P \in Nat /\ U \in Nat
  BY PartsOf
<1>4. Kept(e)[o] = U + m + f + g
  BY KeptIs
<1>5. f \in Int /\ g \in Int /\ h \in Int /\ s \in Int /\ s = g + h
  BY <1>1 DEF Flag, Asks
<1>6. given = P - m
  <2>1. o \in Peers \/ o \in Msgs \/ o \in Lists \/ o \in Callables
    BY DEF Objects
  <2>2. BackInCase(e)[o] = IF o \in Lists THEN P ELSE 0
    BY BackIs
  <2>3. ~IsGroup(e) => BackAfter(e)[o] = IF o \in Peers THEN P ELSE 0
    BY BackIs
  <2>4. o \in Callables => P = 0
    BY PartsOf
  <2>5. IsGroup(e) /\ o \in Peers => P = 0
    BY PartsOf
  <2>6. /\ o \in Msgs => o \notin Lists /\ o \notin Peers /\ o \notin Callables
        /\ o \in Lists => o \notin Peers /\ o \notin Callables
        /\ o \in Callables => o \notin Peers
    BY ObjectsAssumption
  <2> HIDE DEF P
  <2> QED BY <1>3, <2>1, <2>2, <2>3, <2>4, <2>5, <2>6
<1>7. s - given = Kept(e)[o] - Times(o, Tuple(e)) + h
  <2>1. m \in Int
    BY <1>3
  <2> HIDE DEF P, U, f, g, h, s, m, given
  <2> QED BY <1>2, <1>3, <1>4, <1>5, <1>6, <2>1
<1> QED BY <1>7

LEMMA TidyKeeps == ASSUME IInv, RInv, Tidy, run = "up", run' = "up" PROVE RInv'
<1> DEFINE e == queue[cur]
           r == Decref(rc, BackInCase(e))
           cb == IF e.sound THEN Optional(e.cb) ELSE <<>>
           n == Of(cb)
           k == Incref(BackAfter(e), Of(<<>>))
           u == Incref(r, n)
<1>1. Heap /\ Known /\ UnderWay /\ rc \in Counts /\ born \subseteq Objects
      /\ leak \in [Objects -> Nat] /\ over \in [Objects -> Nat]
  BY DEF RInv, Heap
<1>2. /\ ~script /\ cur # 0 /\ cur' = 0 /\ early' = FALSE /\ rc' = Decref(u, k)
      /\ leak' = Incref(leak, Kept(e))
      /\ over' = IF IsGroup(e) THEN Incref(over, BackAfter(e)) ELSE over
      /\ UNCHANGED <<script, back, queue, made, at, queries, born, held, hook>>
  BY DEF Tidy, Tidied, Becomes, array, IsGroup
<1>3. EntryOK(e) /\ ToSet(Tuple(e)) \subseteq born
      /\ e.cb \in Callables \cup {NoObject} /\ e.objs \in Seq(Objects \ Callables)
      /\ e.sound \in BOOLEAN
  BY <1>1, <1>2 DEF Known, UnderWay, EntryOK
<1> HIDE DEF e
<1>4. n \in [Objects -> Nat] /\ \A o \in Objects : n[o] = Flag(e.sound /\ o = e.cb)
  <2>1. CASE e.sound
    <3>1. cb = Optional(e.cb)
      BY <2>1
    <3>2. Of(Optional(e.cb)) \in [Objects -> Nat]
          /\ \A o \in Objects : Of(Optional(e.cb))[o] = Flag(o = e.cb)
      BY <1>3, OptionalIs, OfIs
    <3>3. \A o \in Objects : Flag(e.sound /\ o = e.cb) = Flag(o = e.cb)
      BY <2>1 DEF Flag
    <3> QED BY <3>1, <3>2, <3>3
  <2>2. CASE ~e.sound
    <3>1. cb = <<>> /\ <<>> \in Seq(Objects)
      BY <2>2
    <3>2. Of(<<>>) \in [Objects -> Nat] /\ \A o \in Objects : Of(<<>>)[o] = 0
      BY <3>1, OfIs, TimesOfNone
    <3>3. \A o \in Objects : Flag(e.sound /\ o = e.cb) = 0
      BY <2>2 DEF Flag
    <3> QED BY <3>1, <3>2, <3>3
  <2> QED BY <2>1, <2>2
<1>5. k \in [Objects -> Nat] /\ \A o \in Objects : k[o] = BackAfter(e)[o]
  <2>1. <<>> \in Seq(Objects)
    OBVIOUS
  <2>2. Of(<<>>) \in [Objects -> Nat] /\ \A o \in Objects : Of(<<>>)[o] = 0
    BY <2>1, OfIs, TimesOfNone
  <2>3. BackAfter(e) \in [Objects -> Nat]
    BY <1>3, BackIs
  <2>4. \A o \in Objects : BackAfter(e)[o] + Of(<<>>)[o] = BackAfter(e)[o]
    BY <2>2, <2>3
  <2> QED BY <2>3, <2>4 DEF Incref
<1> HIDE DEF cb, n, k
<1>6. BackInCase(e) \in [Objects -> Nat]
  BY <1>3, BackIs
<1>7. r \in Counts /\ \A o \in Objects : Own(r, o) = Own(rc, o) - BackInCase(e)[o]
  BY <1>1, <1>6, OwnDecref
<1> HIDE DEF r
<1>8. u \in Counts /\ \A o \in Objects : Own(u, o) = Own(r, o) + n[o]
  <2>1. \A l \in Lists : n[l] = 0
    <3>1. \A l \in Lists : l \in Objects /\ l # e.cb
      BY <1>3, ObjectsAssumption DEF Objects
    <3> QED BY <1>4, <3>1 DEF Flag
  <2> QED BY <1>4, <1>7, <2>1, OwnIncref
<1> HIDE DEF u
<1>9. rc' \in Counts /\ \A o \in Objects : Own(rc', o) = Own(u, o) - k[o]
  BY <1>2, <1>5, <1>8, OwnDecref
<1>10. Kept(e) \in [Objects -> Nat] /\ BackAfter(e) \in [Objects -> Nat]
  BY <1>3, KeptIs, BackIs
<1>11. leak' \in [Objects -> Nat] /\ \A o \in Objects : leak'[o] = leak[o] + Kept(e)[o]
  <2>1. leak' = [o \in Objects |-> leak[o] + Kept(e)[o]]
    BY <1>2 DEF Incref
  <2>2. \A o \in Objects : leak[o] + Kept(e)[o] \in Nat
    BY <1>1, <1>10
  <2> QED BY <2>1, <2>2
<1>12. /\ over' \in [Objects -> Nat]
       /\ \A o \in Objects : over'[o] = over[o] + (IF IsGroup(e) THEN BackAfter(e)[o] ELSE 0)
  <2>1. CASE IsGroup(e)
    <3>1. over' = [o \in Objects |-> over[o] + BackAfter(e)[o]]
      BY <1>2, <2>1 DEF Incref
    <3>2. \A o \in Objects : over[o] + BackAfter(e)[o] \in Nat
      BY <1>1, <1>10
    <3> QED BY <2>1, <3>1, <3>2
  <2>2. CASE ~IsGroup(e)
    BY <1>1, <1>2, <2>2
  <2> QED BY <2>1, <2>2
<1>13. ASSUME NEW o \in Objects PROVE (Own(rc, o) + over[o] = Refs(o) + leak[o])'
  <2> DEFINE f == Flag(o \in held)
             g == Flag(o = hook)
             c == Calling(o)
             t == Times(o, Tuple(e))
             h == Flag(o = e.cb /\ Asks(e))
             s == Flag(e.sound /\ o = e.cb)
             b == BackInCase(e)[o]
             a == BackAfter(e)[o]
             d == IF IsGroup(e) THEN a ELSE 0
             z == IF IsGroup(e) THEN 0 ELSE a
             x == Kept(e)[o]
  <2>1. Own(rc', o) = Own(rc, o) - b + s - a
    <3>1. /\ Own(rc', o) = Own(u, o) - k[o] /\ Own(u, o) = Own(r, o) + n[o]
          /\ Own(r, o) = Own(rc, o) - b /\ k[o] = a /\ n[o] = s
      BY <1>4, <1>5, <1>7, <1>8, <1>9
    <3>2. Own(rc, o) \in Int /\ b \in Nat /\ a \in Nat /\ n[o] \in Nat
      BY <1>4, <1>6, <1>10, Terms
    <3> HIDE DEF a, b, s
    <3> QED BY <3>1, <3>2
  <2>2. Refs(o)' = f + g + (c - t + h)
    <3>1. Calling(o)' = c - t + h
      BY <1>1, <1>2, CallingTidied DEF e
    <3> HIDE DEF c, t, h
    <3> QED BY <1>2, <3>1 DEF Refs
  <2>3. over'[o] = over[o] + d /\ leak'[o] = leak[o] + x
    BY <1>11, <1>12
  <2>4. /\ Own(rc, o) \in Int /\ over[o] \in Nat /\ leak[o] \in Nat
        /\ c \in Nat /\ f \in {0, 1} /\ g \in {0, 1}
        /\ Own(rc, o) + over[o] = f + g + c + leak[o]
    BY Terms
  <2>5. s - (b + z) = x - t + h
    BY <1>3, TidyBalance
  <2>6. s \in Int /\ h \in Int
    BY DEF Flag
  <2>7. b \in Nat /\ a \in Nat /\ x \in Nat /\ t \in Nat
    BY <1>3, <1>6, <1>10, TupleIs
  <2>8. z + d = a /\ z \in Nat /\ d \in Nat
    BY <2>7
  <2> HIDE DEF f, g, c, t, h, s, b, a, d, z, x
  <2>9. Own(rc', o) + over'[o] = f + g + c + leak[o] + x - t + h
    <3>1. Own(rc', o) + over'[o] = Own(rc, o) + over[o] + (s - (b + z))
      BY <2>1, <2>3, <2>4, <2>6, <2>7, <2>8
    <3>2. Own(rc', o) + over'[o] = f + g + c + leak[o] + (x - t + h)
      BY <2>4, <2>5, <3>1
    <3> QED BY <2>4, <2>6, <2>7, <3>2
  <2>10. Refs(o)' + leak'[o] = f + g + c + leak[o] + x - t + h
    BY <2>2, <2>3, <2>4, <2>6, <2>7
  <2> QED BY <2>9, <2>10
<1>14. Balanced'
  BY <1>13 DEF Balanced
<1>15. Heap'
  <2>1. ASSUME NEW o \in Objects \ born
        PROVE  /\ rc[o] = 0 /\ leak[o] = 0 /\ BackInCase(e)[o] = 0
               /\ n[o] = 0 /\ k[o] = 0 /\ Kept(e)[o] = 0
    <3>1. rc[o] = 0 /\ leak[o] = 0
      BY <1>1 DEF Heap
    <3>2. o # e.cb
      BY <1>3, CbIsBorn, ObjectsAssumption
    <3>3. Times(o, Tuple(e)) = 0
      <4>1. Tuple(e) \in Seq(Objects) /\ Times(o, Tuple(e)) \in Nat
        BY <1>3, TupleIs
      <4>2. Times(o, Tuple(e)) > 0 => o \in ToSet(Tuple(e))
        BY <4>1, OfIs
      <4> QED BY <1>3, <4>1, <4>2
    <3>4. Parsed(e)[o] = 0 /\ Unparsed(e)[o] = 0
      <4>1. Times(o, Tuple(e)) = Times(o, e.objs) + Flag(o = e.cb) /\ Flag(o = e.cb) = 0
        BY <1>3, <3>2, TupleIs DEF Flag
      <4>2. /\ Times(o, e.objs) = Parsed(e)[o] + Unparsed(e)[o]
            /\ Parsed(e)[o] \in Nat /\ Unparsed(e)[o] \in Nat
        BY <1>3, PartsOf
      <4> QED BY <3>3, <4>1, <4>2
    <3>5. n[o] = 0
      BY <1>4, <3>2 DEF Flag
    <3>6. BackInCase(e)[o] = 0
      BY <1>3, <3>4, BackIs
    <3>7. Kept(e)[o] = 0
      <4>1. Flag(o = e.cb) = 0 /\ Flag(o = e.cb /\ e.sound /\ ~Asks(e)) = 0
        BY <3>2 DEF Flag
      <4>2. Kept(e)[o] = Unparsed(e)[o] + (IF o \in Msgs THEN Parsed(e)[o] ELSE 0)
                           + Flag(o = e.cb) + Flag(o = e.cb /\ e.sound /\ ~Asks(e))
        BY <1>3, KeptIs
      <4> QED BY <3>4, <4>1, <4>2
    <3>8. BackAfter(e)[o] = 0
      <4>1. CASE ~IsGroup(e)
        BY <1>3, <3>4, <4>1, BackIs
      <4>2. CASE IsGroup(e)
        <5>1. BackAfter(e)[o] \in Nat
          BY <1>10
        <5>2. ASSUME BackAfter(e)[o] > 0 PROVE FALSE
          <6>1. PICK l \in Lists : e.objs = <<l>> /\ o \in ToSet(Elements[l])
            BY <1>3, <4>2, <5>2, BackIs
          <6>2. l \in Objects /\ Times(l, e.objs) = 1
            BY <6>1, TimesOfOne DEF Flag, Objects
          <6>3. Tuple(e) \in Seq(Objects) /\ Times(l, Tuple(e)) > 0
            BY <1>3, <6>2, TupleIs DEF Flag
          <6>4. l \in born
            BY <1>3, <6>2, <6>3, OfIs
          <6> QED BY <1>1, <6>1, <6>4 DEF Known
        <5> QED BY <5>1, <5>2
      <4> QED BY <4>1, <4>2
    <3> QED BY <1>5, <3>1, <3>5, <3>6, <3>7, <3>8
  <2>2. \A o \in Objects \ born : r[o] = 0
    BY <1>1, <1>6, <2>1, UnbornDecref DEF r
  <2>3. \A o \in Objects \ born : u[o] = 0
    BY <2>1, <2>2 DEF u, Incref
  <2>4. \A o \in Objects \ born : rc'[o] = 0
    BY <1>1, <1>2, <1>5, <1>8, <2>1, <2>3, UnbornDecref
  <2>5. \A o \in Objects \ born : leak'[o] = 0
    BY <1>11, <2>1
  <2> QED BY <1>1, <1>2, <1>9, <1>11, <1>12, <2>4, <2>5 DEF Heap
<1>16. Known'
  <2>1. UNCHANGED <<queue, queries, back, hook, born>>
    BY <1>2
  <2> QED BY <1>1, <2>1, KnownGrows
<1>17. UnderWay'
  BY <1>1, <1>2 DEF UnderWay, Open
<1> QED BY <1>14, <1>15, <1>16, <1>17 DEF RInv

-----------------------------------------------------------------------------
(* The references are accounted for.                                       *)

UpInv == run = "up" => RInv

LEMMA InitUp == Init => UpInv
<1> SUFFICES ASSUME Init PROVE RInv
  BY DEF UpInv
<1>1. /\ queue = <<>> /\ at = 0 /\ cur = 0 /\ early = FALSE /\ queries = {} /\ back = NoQuery
      /\ born = {} /\ held = {} /\ hook = NoObject
      /\ rc = [o \in Objects |-> 0] /\ leak = rc /\ over = rc
  BY DEF Init
<1>2. Len(queue) = 0 /\ DOMAIN queue = {} /\ NoQuery.call = 0 /\ NoQuery.cb = NoObject
  BY <1>1 DEF NoQuery
<1>3. Heap
  BY <1>1 DEF Heap, Counts
<1>4. Known
  BY <1>1, <1>2 DEF Known, Asked
<1>5. UnderWay
  BY <1>1, FS_EmptySet DEF UnderWay, Open
<1>6. ASSUME NEW o \in Objects PROVE Own(rc, o) + over[o] = Refs(o) + leak[o]
  <2>1. Living(rc) = {}
    BY <1>1 DEF Living, Objects
  <2>2. InLists(o, {}) = {}
    BY DEF InLists
  <2>3. Cardinality({}) = 0
    BY FS_EmptySet
  <2>4. Own(rc, o) = 0
    <3>1. Cardinality(InLists(o, Living(rc))) = 0
      BY <2>1, <2>2, <2>3
    <3>2. rc[o] = 0
      BY <1>1
    <3> QED BY <3>1, <3>2 DEF Own
  <2>5. Tuples = {}
    BY <1>1, <1>2 DEF Tuples, Unread
  <2>6. InTuples(o) = {}
    BY <2>5 DEF InTuples
  <2>7. InQueries(o) = {}
    BY <1>1, NotAnObject DEF InQueries
  <2>8. Calling(o) = 0
    BY <1>1, <2>3, <2>6, <2>7 DEF Calling, Flag
  <2>9. Refs(o) = 0
    BY <1>1, <2>8, ObjectsAssumption DEF Refs, Flag
  <2> QED BY <1>1, <2>4, <2>9
<1> QED BY <1>3, <1>4, <1>5, <1>6 DEF RInv, Balanced

LEMMA NextUp == IInv /\ UpInv /\ [Next]_vars => UpInv'
<1> SUFFICES ASSUME IInv, UpInv, [Next]_vars, run' = "up" PROVE RInv'
  BY DEF UpInv
<1>1. CASE UNCHANGED vars
  <2>1. UNCHANGED <<run, script, back, queue, made, at, cur, early, queries, heap>>
    BY <1>1 DEF vars, control, array, reading
  <2>2. RInv
    BY <2>1 DEF UpInv
  <2> QED BY <2>1, <2>2, QuietKeeps
<1> SUFFICES ASSUME Next, run = "up", RInv PROVE RInv'
  BY <1>1 DEF Next, UpInv
<1>2. ASSUME NEW o \in Objects, Make(o) \/ Obtain(o) PROVE RInv'
  BY <1>2, MakeKeeps
<1>3. ASSUME NEW o \in Objects, MakeList(o) PROVE RInv'
  BY <1>3, MakeListKeeps
<1>4. ASSUME NEW o \in Objects, Forget(o) \/ SetHook(o) PROVE RInv'
  BY <1>4, ForgetKeeps, SetHookKeeps
<1>5. ASSUME (\E o \in Objects : ReadAttribute(o)) \/ SafeQuit \/ Overflow \/ Hook PROVE RInv'
  <2>1. UNCHANGED <<back, queue, made, at, cur, early, queries, heap>>
        /\ (script' = script \/ script')
    BY <1>5 DEF ReadAttribute, SafeQuit, Overflow, Hook, array, reading
  <2> QED BY <2>1, QuietKeeps
<1>6. ASSUME NEW cb \in Callables \cup {NoObject}, NEW f \in Functions, NEW objs \in Arguments(f),
             NEW got \in 0..Len(objs), NEW sound \in BOOLEAN, Push(f, objs, got, sound, cb)
      PROVE  RInv'
  BY <1>6, PushKeeps
<1>7. ASSUME NEW cb \in Callables \cup {NoObject}, NEW f \in Methods, CallMethod(f, cb)
      PROVE  RInv'
  BY <1>7, MethodKeeps
<1>8. ASSUME NEW q \in queries, Answer(q) PROVE RInv'
  BY <1>8, AnswerKeeps
<1>9. CASE Return
  BY <1>9, ReturnKeeps
<1>10. CASE Begin \/ End
  BY <1>10, BeginKeeps, EndKeeps
<1>11. CASE Issue
  BY <1>11, IssueKeeps
<1>12. CASE Tidy
  BY <1>12, TidyKeeps
<1> QED BY <1>2, <1>3, <1>4, <1>5, <1>6, <1>7, <1>8, <1>9, <1>10, <1>11, <1>12 DEF Next

LEMMA InductiveUp == Spec => [](IInv /\ UpInv)
<1>1. Init => UpInv
  BY InitUp
<1>2. IInv /\ UpInv /\ [Next]_vars => UpInv'
  BY NextUp
<1> QED BY <1>1, <1>2, Inductive, PTL DEF Spec

LEMMA HoldersAre ==
  ASSUME IInv, RInv, NEW o \in Objects
  PROVE  /\ rc[o] + over[o] = Holders(o) + leak[o]
         /\ Holders(o) = Refs(o) + Cardinality(InLists(o, Live))
<1>1. Live = Living(rc)
  BY DEF Live, Living, Alive
<1> DEFINE a == Cardinality(InLists(o, Living(rc)))
           f == Flag(o \in held)
           g == Flag(o = hook)
           x == Cardinality(InTuples(o))
           y == Cardinality(InQueries(o))
           z == Flag(early /\ queue[cur].cb = o)
<1>2. a \in Nat
  BY InListsIs DEF Living
<1>3. x \in Nat /\ y \in Nat
  BY InTuplesIs, InQueriesIs DEF RInv
<1>4. f \in Nat /\ g \in Nat /\ z \in Nat
  BY DEF Flag
<1>5. Holders(o) = f + g + a + x + y - z
  BY <1>1 DEF Holders
<1>6. Refs(o) = f + g + (x + y - z) /\ Own(rc, o) = rc[o] - a
  BY DEF Refs, Calling, Own
<1>7. Own(rc, o) + over[o] = Refs(o) + leak[o]
  BY DEF RInv, Balanced
<1>8. rc[o] \in Int /\ over[o] \in Nat /\ leak[o] \in Nat
  BY Terms
<1>9. Cardinality(InLists(o, Live)) = a
  BY <1>1
<1> HIDE DEF a, f, g, x, y, z
<1>10. Holders(o) = Refs(o) + a /\ Refs(o) \in Int
  BY SMTT(60), <1>2, <1>3, <1>4, <1>5, <1>6
<1>11. rc[o] + over[o] = Refs(o) + a + leak[o]
  BY SMTT(60), <1>2, <1>6, <1>7, <1>8, <1>10
<1> QED BY SMTT(60), <1>2, <1>8, <1>9, <1>10, <1>11

\* The count of an object is the number of those who refer to it, plus what the binding
\* forgot to give back, less what it gave back without having it, whatever the script
\* makes, forgets and calls (python-tg.c:53-69, 474-757, 1087-1096; python-types.c:375-940).
THEOREM CountsAccounted == Spec => []CountsAreHolders
<1>1. IInv /\ UpInv => CountsAreHolders
  <2> SUFFICES ASSUME IInv, RInv PROVE \A o \in born : rc[o] + over[o] = Holders(o) + leak[o]
    BY DEF UpInv, CountsAreHolders
  <2>1. born \subseteq Objects
    BY DEF RInv, Heap
  <2> QED BY <2>1, HoldersAre
<1> QED BY <1>1, InductiveUp, PTL

LEMMA InListOfThem ==
  ASSUME NEW l \in Live, NEW o \in ToSet(Elements[l])
  PROVE  o \in Peers /\ Cardinality(InLists(o, Live)) > 0
<1>1. l \in Lists /\ Live \subseteq Lists
  BY DEF Live
<1>2. PICK i \in DOMAIN Elements[l] : o = Elements[l][i]
  BY DEF ToSet
<1>3. o \in Peers
  BY <1>1, <1>2, ElementsAre, LenProperties
<1>4. <<l, i>> \in InLists(o, Live)
  BY <1>2 DEF InLists, At
<1>5. IsFiniteSet(InLists(o, Live)) /\ Cardinality(InLists(o, Live)) \in Nat
  BY <1>1, InListsIs, PlacesFinite
<1>6. Cardinality(InLists(o, Live)) # 0
  BY <1>4, <1>5, FS_EmptySet
<1> QED BY <1>3, <1>5, <1>6

\* What the script, a list that is there, the hook or a query refers to has not been
\* freed, unless create_group_chat has given it back more often than the binding leaked
\* it (python-tg.c:1016-1031, 1087-1096).
THEOREM UsedStaysAlive == Spec => []UsedIsAlive
<1>1. IInv /\ UpInv => UsedIsAlive
  <2> SUFFICES ASSUME IInv, RInv, NEW o \in InUse, over[o] <= leak[o]
               PROVE  rc[o] > 0
    BY DEF UpInv, UsedIsAlive, Alive
  <2>1. CASE \E l \in Live : o \in ToSet(Elements[l])
    <3>1. o \in Peers /\ Cardinality(InLists(o, Live)) > 0
      BY <2>1, InListOfThem
    <3>2. o \in Objects
      BY <3>1 DEF Objects
    <3>3. /\ rc[o] \in Int /\ over[o] \in Nat /\ leak[o] \in Nat /\ Refs(o) \in Nat
          /\ Cardinality(InLists(o, Live)) \in Nat
      BY <3>2, Terms, InListsIs DEF Refs, Live
    <3>4. /\ rc[o] + over[o] = Holders(o) + leak[o]
          /\ Holders(o) = Refs(o) + Cardinality(InLists(o, Live))
      BY <3>2, HoldersAre
    <3> QED BY <3>1, <3>3, <3>4
  <2>2. CASE o \in held \cup ({hook} \ {NoObject}) \cup ({q.cb : q \in queries} \ {NoObject})
    <3>1. o \in Objects
      BY <2>2 DEF RInv, Heap, Known, Asked, Objects
    <3>2. /\ rc[o] \in Int /\ over[o] \in Nat /\ leak[o] \in Nat /\ Calling(o) \in Nat
          /\ Flag(o \in held) \in {0, 1} /\ Flag(o = hook) \in {0, 1}
      BY <3>1, Terms
    <3>3. Refs(o) = Flag(o \in held) + Flag(o = hook) + Calling(o)
      BY DEF Refs
    <3>4. Refs(o) > 0 /\ Refs(o) \in Int
      <4>1. CASE o \in held
        BY <3>2, <3>3, <4>1 DEF Flag
      <4>2. CASE o = hook
        BY <3>2, <3>3, <4>2 DEF Flag
      <4>3. CASE \E q \in queries : q.cb = o
        <5>1. Calling(o) > 0
          BY <3>1, <4>3, CallingType DEF RInv
        <5> QED BY <3>2, <3>3, <5>1
      <4> QED BY <2>2, <4>1, <4>2, <4>3
    <3>5. Cardinality(InLists(o, Live)) \in Nat
      BY InListsIs DEF Live
    <3>6. /\ rc[o] + over[o] = Holders(o) + leak[o]
          /\ Holders(o) = Refs(o) + Cardinality(InLists(o, Live))
      BY <3>1, HoldersAre
    <3> QED BY <3>2, <3>4, <3>5, <3>6
  <2> QED BY <2>1, <2>2 DEF InUse
<1> QED BY <1>1, InductiveUp, PTL
=============================================================================
