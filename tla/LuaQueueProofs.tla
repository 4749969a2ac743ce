--------------------------- MODULE LuaQueueProofs ---------------------------
(***************************************************************************)
(* Proofs about LuaQueue, for any functions of the table, any room in the  *)
(* array and any number of calls: what lua_do_all has still to read is one *)
(* entry after another, whatever is refused and appended while it reads;   *)
(* hence copied strings and registry entries have one owner each, and the  *)
(* calls are made in the order in which the script made them.              *)
(***************************************************************************)
EXTENDS LuaQueue, SequenceTheorems, WellFoundedInduction, TLAPS

\* An argument of call c to f, as it is in the array.
Argument(f, c, k) ==
  IF k \in Strings(f) THEN [is |-> "str", of |-> c, arg |-> k] ELSE [is |-> "value"]

\* The entry of call c begins at slot i of q.
IsEntry(q, c, i) ==
  /\ q[i + 1] = [is |-> "type", type |-> q[i + 1].type] /\ q[i + 1].type \in Functions
  /\ q[i] = [is |-> "num", num |-> 1 + Len(Params(q[i + 1].type))]
  /\ q[i + 2] = [is |-> "extra", of |-> c]
  /\ \A k \in Args(q[i + 1].type) : q[i + 2 + k] = Argument(q[i + 1].type, c, k)

Size(q, i) == 3 + Len(Params(q[i + 1].type))

\* The entries of calls b to e - 1 are all there is in q from slot s on, and pos
\* says where each of them begins.
Framed(q, pos, b, e, s) ==
  /\ pos \in [Nat -> Nat]
  /\ pos[b] = s /\ pos[e] = Len(q) + 1
  /\ \A c \in b..(e - 1) : IsEntry(q, c, pos[c]) /\ pos[c + 1] = pos[c] + Size(q, pos[c])
  /\ \A c, d \in b..e : c < d => pos[c] + 3 <= pos[d]
  /\ \A j \in s..Len(q) : \E c \in b..(e - 1) : pos[c] <= j /\ j < pos[c + 1]

-----------------------------------------------------------------------------
(* Entries.                                                                *)

\* The arguments of a function are numbered from 1.
LEMMA ArgsAre ==
  ASSUME NEW f \in Functions
  PROVE  /\ Len(Params(f)) \in Nat
         /\ Args(f) = 1..Len(Params(f))
         /\ \A k : k \in Args(f) <=> k \in Nat /\ 1 <= k /\ k <= Len(Params(f))
<1>1. Params(f) \in Seq({"id", "str", "num", "any"})
  BY TableAssumption
<1>2. Len(Params(f)) \in Nat /\ DOMAIN Params(f) = 1..Len(Params(f))
  BY <1>1, LenProperties
<1> QED BY <1>2 DEF Args

Cat(r, q, e) == r = q \o e

LEMMA Concatenated ==
  ASSUME NEW q \in Seq(Items), NEW e \in Seq(Items), NEW r, Cat(r, q, e)
  PROVE  /\ r \in Seq(Items) /\ Len(r) = Len(q) + Len(e)
         /\ Len(q) \in Nat /\ Len(e) \in Nat
         /\ \A i \in 1..Len(q) : r[i] = q[i]
         /\ \A i \in 1..Len(e) : r[Len(q) + i] = e[i]
<1>1. /\ q \o e \in Seq(Items)
      /\ Len(q \o e) = Len(q) + Len(e)
      /\ \A i \in 1 .. Len(q) + Len(e) : (q \o e)[i] =
           IF i <= Len(q) THEN q[i] ELSE e[i - Len(q)]
  BY ConcatProperties
<1>2. Len(q) \in Nat /\ Len(e) \in Nat
  BY LenProperties
<1>3. \A i \in 1..Len(q) : i \in 1 .. Len(q) + Len(e) /\ i <= Len(q)
  BY <1>2
<1>4. \A i \in 1..Len(e) : /\ Len(q) + i \in 1 .. Len(q) + Len(e) /\ ~(Len(q) + i <= Len(q))
                           /\ (Len(q) + i) - Len(q) = i
  BY <1>2
<1>5. \A i \in 1..Len(e) : (q \o e)[Len(q) + i] = e[i]
  BY <1>1, <1>4
<1>6. r = q \o e
  BY DEF Cat
<1> QED BY <1>1, <1>2, <1>3, <1>5, <1>6

\* The entry a call puts into the array.
LEMMA EntryShape ==
  ASSUME NEW f \in Functions, NEW c \in 1..MaxCalls
  PROVE  /\ Entry(f, c) \in Seq(Items) /\ Len(Entry(f, c)) = 3 + Len(Params(f))
         /\ Entry(f, c)[1] = [is |-> "num", num |-> 1 + Len(Params(f))]
         /\ Entry(f, c)[2] = [is |-> "type", type |-> f]
         /\ Entry(f, c)[3] = [is |-> "extra", of |-> c]
         /\ \A k \in Args(f) : Entry(f, c)[3 + k] = Argument(f, c, k)
<1> DEFINE n == Len(Params(f))
           t == [i \in Args(f) |-> Argument(f, c, i)]
           h == Header(f, c)
<1>1. n \in Nat /\ Args(f) = 1..n
  BY ArgsAre
<1>2. \A i \in Args(f) : Argument(f, c, i) \in Items
  BY <1>1 DEF Argument, Items
<1>3. t \in [1..n -> Items]
  BY <1>1, <1>2
<1>4. \A k \in 1..n : t[k] = Argument(f, c, k)
  BY <1>1
<1>5. t \in Seq(Items) /\ Len(t) = n
  <2> HIDE DEF t, n
  <2> QED BY <1>1, <1>3
<1>6. h \in Seq(Items) /\ Len(h) = 3 /\ h[1] = [is |-> "num", num |-> 1 + n]
      /\ h[2] = [is |-> "type", type |-> f]
      /\ h[3] = [is |-> "extra", of |-> c]
  <2>1. /\ [is |-> "num", num |-> 1 + n] \in Items
        /\ [is |-> "type", type |-> f] \in Items /\ [is |-> "extra", of |-> c] \in Items
    BY <1>1 DEF Items
  <2> QED BY <2>1 DEF Header
<1>7. Cat(Entry(f, c), h, t)
  BY DEF Entry, Argument, Cat
<1> HIDE DEF h, t, n
<1>8. /\ Entry(f, c) \in Seq(Items) /\ Len(Entry(f, c)) = 3 + n
      /\ \A i \in 1..3 : Entry(f, c)[i] = h[i]
      /\ \A i \in 1..n : Entry(f, c)[3 + i] = t[i]
  <2> DEFINE e == Entry(f, c)
  <2>1. h \in Seq(Items) /\ t \in Seq(Items) /\ Cat(e, h, t)
    BY <1>5, <1>6, <1>7
  <2>2. Len(h) = 3 /\ Len(t) = n
    BY <1>5, <1>6
  <2> HIDE DEF e
  <2>3. /\ e \in Seq(Items) /\ Len(e) = Len(h) + Len(t)
        /\ \A i \in 1..Len(h) : e[i] = h[i]
        /\ \A i \in 1..Len(t) : e[Len(h) + i] = t[i]
    BY <2>1, Concatenated
  <2> QED BY <2>2, <2>3 DEF e
<1>9. \A k \in Args(f) : Entry(f, c)[3 + k] = Argument(f, c, k)
  BY <1>1, <1>4, <1>8
<1>10. Entry(f, c)[1] = h[1] /\ Entry(f, c)[2] = h[2] /\ Entry(f, c)[3] = h[3]
  BY <1>8
<1> QED BY <1>6, <1>8, <1>9, <1>10 DEF n

\* A call is appended: the array is as it was, and then its entry.
LEMMA Appended ==
  ASSUME NEW f \in Functions, NEW c \in 1..MaxCalls, NEW q \in Seq(Items),
         NEW r, Cat(r, q, Entry(f, c))
  PROVE  /\ r \in Seq(Items) /\ Len(r) = Len(q) + 3 + Len(Params(f)) /\ Len(q) \in Nat
         /\ \A i \in 1..Len(q) : r[i] = q[i]
         /\ IsEntry(r, c, Len(q) + 1) /\ Size(r, Len(q) + 1) = 3 + Len(Params(f))
         /\ r[(Len(q) + 1) + 1].type = f
<1> DEFINE n == Len(q)
           e == Entry(f, c)
           m == Len(Params(f))
<1>1. /\ e \in Seq(Items) /\ Len(e) = 3 + m
      /\ e[1] = [is |-> "num", num |-> 1 + m] /\ e[2] = [is |-> "type", type |-> f]
      /\ e[3] = [is |-> "extra", of |-> c]
      /\ \A k \in Args(f) : e[3 + k] = Argument(f, c, k)
  BY EntryShape
<1>2. m \in Nat /\ \A k : k \in Args(f) <=> k \in Nat /\ 1 <= k /\ k <= m
  BY ArgsAre
<1>3. Cat(r, q, e)
  OBVIOUS
<1> HIDE DEF e, m, n
<1>4. /\ r \in Seq(Items) /\ Len(r) = n + Len(e) /\ n \in Nat
      /\ \A i \in 1..n : r[i] = q[i]
      /\ \A i \in 1..Len(e) : r[n + i] = e[i]
  BY SMTT(60), <1>1, <1>3, Concatenated DEF n
<1>5. \A k \in Args(f) : r[(n + 1) + 2 + k] = Argument(f, c, k)
  <2>0. Len(e) = 3 + m /\ n \in Nat
    BY <1>1, <1>4
  <2>1. \A k \in Args(f) : 3 + k \in 1..Len(e) /\ n + (3 + k) = (n + 1) + 2 + k
    BY <1>2, <2>0
  <2> QED BY SMTT(60), <1>1, <1>4, <2>1
<1>6. r[n + 1] = e[1] /\ r[(n + 1) + 1] = e[2] /\ r[(n + 1) + 2] = e[3]
  <2>1. 1 \in 1..Len(e) /\ 2 \in 1..Len(e) /\ 3 \in 1..Len(e)
    BY <1>1, <1>2
  <2>2. n + 2 = (n + 1) + 1 /\ n + 3 = (n + 1) + 2
    BY <1>4
  <2>3. r[n + 1] = e[1] /\ r[n + 2] = e[2] /\ r[n + 3] = e[3]
    BY <1>4, <2>1
  <2> QED BY <2>2, <2>3
<1>7. r[(n + 1) + 1].type = f /\ r[(n + 1) + 1].is = "type"
  BY <1>1, <1>6
<1>8. IsEntry(r, c, n + 1)
  <2> QED BY <1>1, <1>5, <1>6, <1>7 DEF IsEntry, m
<1>9. Size(r, n + 1) = 3 + m
  BY <1>7 DEF Size, m
<1> QED BY <1>1, <1>2, <1>4, <1>7, <1>8, <1>9 DEF m, n

\* What slot j holds, if it is part of the entry of call c.
PartOf(q, pos, j, c) ==
  /\ q[j].is = "extra" => q[j].of = c /\ j = pos[c] + 2
  /\ q[j].is = "str" => q[j].of = c /\ q[j].arg \in Nat

\* Each slot that is read belongs to the entry of a call.
LEMMA SlotOf ==
  ASSUME NEW q \in Seq(Items), NEW pos, NEW b \in Nat, NEW e \in Nat, NEW s \in Nat \ {0},
         Framed(q, pos, b, e, s), NEW j \in s..Len(q)
  PROVE  \E c \in b..(e - 1) : PartOf(q, pos, j, c)
<1>1. PICK c \in b..(e - 1) : pos[c] <= j /\ j < pos[c + 1]
  BY DEF Framed
<1> DEFINE i == pos[c]
           f == q[i + 1].type
           m == Len(Params(f))
<1>2. /\ i \in Nat /\ j \in Nat /\ IsEntry(q, c, i) /\ pos[c + 1] = i + Size(q, i)
  BY <1>1 DEF Framed
<1>3. m \in Nat /\ \A k : k \in Args(f) <=> k \in Nat /\ 1 <= k /\ k <= m
  <2>1. f \in Functions
    BY <1>2 DEF IsEntry
  <2> HIDE DEF f
  <2> QED BY <2>1, ArgsAre
<1>4. pos[c + 1] = i + (3 + m)
  BY <1>2 DEF Size
<1>5. /\ q[i].is = "num" /\ q[i + 1].is = "type" /\ q[i + 2] = [is |-> "extra", of |-> c]
      /\ \A k \in Args(f) : q[i + 2 + k] = Argument(f, c, k)
  BY SMTT(60), <1>2 DEF IsEntry
<1>6. i <= j /\ j < i + (3 + m)
  BY <1>1, <1>4
<1>7. i = pos[c]
  OBVIOUS
<1> HIDE DEF i, f, m
<1>8. CASE j >= i + 3
  <2> DEFINE k == j - (i + 2)
  <2>1. k \in Args(f) /\ j = i + 2 + k /\ k \in Nat
    BY <1>2, <1>3, <1>6, <1>8
  <2> HIDE DEF k
  <2>2. q[j] = Argument(f, c, k)
    BY <1>5, <2>1
  <2>3. \/ q[j] = [is |-> "str", of |-> c, arg |-> k]
        \/ q[j] = [is |-> "value"]
    BY <2>2 DEF Argument
  <2> QED BY SMTT(60), <1>1, <2>1, <2>3 DEF PartOf
<1>9. CASE ~(j >= i + 3)
  <2>1. j = i \/ j = i + 1 \/ j = i + 2
    BY <1>2, <1>6, <1>9
  <2> QED BY SMTT(60), <1>1, <1>5, <1>7, <2>1 DEF PartOf
<1> QED BY <1>8, <1>9

\* An entry stays where it is when more comes behind it.
LEMMA EntryStays ==
  ASSUME NEW q \in Seq(Items), NEW r, \A i \in 1..Len(q) : r[i] = q[i],
         NEW c, NEW i \in Nat \ {0}, IsEntry(q, c, i), i + Size(q, i) <= Len(q) + 1
  PROVE  IsEntry(r, c, i) /\ Size(r, i) = Size(q, i) /\ Size(q, i) \in Nat /\ Size(q, i) >= 3
<1> DEFINE f == q[i + 1].type
           m == Len(Params(f))
<1>1. f \in Functions
  BY DEF IsEntry
<1>2. m \in Nat /\ \A k : k \in Args(f) <=> k \in Nat /\ 1 <= k /\ k <= m
  <2> HIDE DEF f
  <2> QED BY <1>1, ArgsAre
<1>3. Size(q, i) = 3 + m /\ Len(q) \in Nat
  BY DEF Size
<1>4. \A k \in Args(f) : i + 2 + k \in 1..Len(q)
  <2> HIDE DEF m, f
  <2> QED BY <1>2, <1>3
<1>5. i \in 1..Len(q) /\ i + 1 \in 1..Len(q) /\ i + 2 \in 1..Len(q)
  <2> HIDE DEF m, f
  <2> QED BY <1>2, <1>3
<1>6. r[i] = q[i] /\ r[i + 1] = q[i + 1] /\ r[i + 2] = q[i + 2]
  BY <1>5
<1>7. \A k \in Args(f) : r[i + 2 + k] = q[i + 2 + k]
  BY <1>4
<1>8. IsEntry(r, c, i)
  BY <1>6, <1>7 DEF IsEntry
<1>9. Size(r, i) = Size(q, i)
  BY <1>6 DEF Size
<1> HIDE DEF m, f
<1> QED BY <1>2, <1>3, <1>8, <1>9

\* Entries one after another, and one more.
LEMMA FramedAppends ==
  ASSUME NEW q \in Seq(Items), NEW pos, NEW b \in Nat, NEW e \in 1..MaxCalls, b <= e,
         NEW s \in Nat \ {0}, Framed(q, pos, b, e, s),
         NEW f \in Functions, NEW r, Cat(r, q, Entry(f, e))
  PROVE  \E new : Framed(r, new, b, e + 1, s)
<1>1. e \in Nat /\ e + 1 \in Nat /\ b \in b..e /\ e \in b..e
  BY BoundsAssumption
<1>18. /\ r \in Seq(Items) /\ \A i \in 1..Len(q) : r[i] = q[i]
      /\ IsEntry(r, e, Len(q) + 1)
  BY Appended
<1>19. /\ Len(q) \in Nat /\ Len(r) = Len(q) + Size(r, Len(q) + 1) /\ Len(r) \in Nat
      /\ Size(r, Len(q) + 1) \in Nat /\ Size(r, Len(q) + 1) >= 3
  <2>1. Len(Params(f)) \in Nat
    BY ArgsAre
  <2>2. /\ Len(r) = Len(q) + 3 + Len(Params(f)) /\ Len(q) \in Nat
        /\ Size(r, Len(q) + 1) = 3 + Len(Params(f))
    BY Appended
  <2> QED BY <2>1, <2>2
<1> DEFINE n == Len(q)
           l == Len(r)
           m == Size(r, n + 1)
           new == [c \in Nat |-> IF c = e + 1 THEN l + 1 ELSE pos[c]]
<1>2. (\A i \in 1..n : r[i] = q[i]) /\ IsEntry(r, e, n + 1)
  BY <1>18
<1>3. n \in Nat /\ l = n + m /\ m \in Nat /\ m >= 3 /\ l \in Nat
  BY <1>19
<1>4. pos[b] = s /\ pos[e] = n + 1
  BY DEF Framed
<1>0. pos \in [Nat -> Nat]
  BY DEF Framed
<1>5. \A c \in b..(e - 1) : IsEntry(q, c, pos[c]) /\ pos[c + 1] = pos[c] + Size(q, pos[c])
  BY DEF Framed
<1>6. \A c, d \in b..e : c < d => pos[c] + 3 <= pos[d]
  BY DEF Framed
<1>7. \A j \in s..n : \E c \in b..(e - 1) : pos[c] <= j /\ j < pos[c + 1]
  BY DEF Framed
<1>8. new \in [Nat -> Nat]
  <2>1. l + 1 \in Nat
    BY <1>3
  <2> HIDE DEF n, m, l
  <2> QED BY <1>0, <2>1
<1>9. \A c \in Nat : new[c] = IF c = e + 1 THEN l + 1 ELSE pos[c]
  OBVIOUS
<1> HIDE DEF n, m, l, new
<1>10. new[e + 1] = l + 1 /\ \A c \in b..e : new[c] = pos[c]
  BY <1>1, <1>9
<1>11. \A c \in b..(e - 1) : c \in b..e /\ c + 1 \in b..e /\ c \in Nat
  BY <1>1
<1>12. ASSUME NEW c \in b..e PROVE pos[c] \in Nat /\ s <= pos[c] /\ pos[c] <= n + 1
  <2>1. c \in Nat /\ b <= c /\ c <= e
    BY <1>1
  <2>2. pos[c] \in Nat
    BY <1>0, <2>1
  <2>3. b < c => s + 3 <= pos[c]
    BY <1>1, <1>4, <1>6
  <2>4. c < e => pos[c] + 3 <= n + 1
    BY <1>1, <1>4, <1>6
  <2>5. c = b => pos[c] = s
    BY <1>4
  <2>6. c = e => pos[c] = n + 1
    BY <1>4
  <2> QED BY SMTT(60), <1>1, <1>3, <2>1, <2>2, <2>3, <2>4, <2>5, <2>6
<1>13. ASSUME NEW c \in b..(e - 1)
       PROVE  IsEntry(r, c, pos[c]) /\ pos[c + 1] = pos[c] + Size(r, pos[c])
  <2>1. c \in b..e /\ c + 1 \in b..e
    BY <1>11
  <2>2. pos[c] \in Nat /\ s <= pos[c] /\ pos[c + 1] <= n + 1
    BY <1>12, <2>1
  <2>3. pos[c] \in Nat \ {0} /\ IsEntry(q, c, pos[c]) /\ pos[c + 1] = pos[c] + Size(q, pos[c])
    BY <1>5, <2>2
  <2>4. pos[c] + Size(q, pos[c]) <= Len(q) + 1
    BY <2>2, <2>3 DEF n
  <2>5. \A i \in 1..Len(q) : r[i] = q[i]
    BY <1>2 DEF n
  <2>6. IsEntry(r, c, pos[c]) /\ Size(r, pos[c]) = Size(q, pos[c])
    BY <2>3, <2>4, <2>5, EntryStays
  <2> QED BY <2>3, <2>6
<1>14. ASSUME NEW c \in b..((e + 1) - 1)
       PROVE  IsEntry(r, c, new[c]) /\ new[c + 1] = new[c] + Size(r, new[c])
  <2>1. CASE c \in b..(e - 1)
    <3>1. new[c] = pos[c] /\ new[c + 1] = pos[c + 1]
      BY <1>10, <1>11, <2>1
    <3> QED BY <1>13, <2>1, <3>1
  <2>2. CASE c = e
    <3>1. new[c] = n + 1 /\ new[c + 1] = l + 1
      BY <1>1, <1>4, <1>10, <2>2
    <3>2. IsEntry(r, c, new[c]) /\ Size(r, new[c]) = m
      BY <1>2, <2>2, <3>1 DEF m
    <3> QED BY <1>3, <3>1, <3>2
  <2>3. c \in b..(e - 1) \/ c = e
    BY <1>1
  <2> QED BY <2>1, <2>2, <2>3
<1>15. ASSUME NEW c \in b..(e + 1), NEW d \in b..(e + 1), c < d
       PROVE  new[c] + 3 <= new[d]
  <2>1. c \in b..e
    BY <1>1, <1>15
  <2>2. CASE d \in b..e
    BY <1>6, <1>10, <1>15, <2>1, <2>2
  <2>3. CASE d = e + 1
    <3>1. new[d] = l + 1 /\ new[c] = pos[c] /\ pos[c] \in Nat /\ pos[c] <= n + 1
      BY <1>10, <1>12, <2>1, <2>3
    <3> QED BY SMTT(60), <1>3, <3>1
  <2>4. d \in b..e \/ d = e + 1
    BY <1>1
  <2> QED BY <2>2, <2>3, <2>4
<1>16. ASSUME NEW j \in s..l
       PROVE  \E c \in b..((e + 1) - 1) : new[c] <= j /\ j < new[c + 1]
  <2>1. CASE j \in s..n
    <3>1. PICK c \in b..(e - 1) : pos[c] <= j /\ j < pos[c + 1]
      BY <1>7, <2>1
    <3>2. new[c] = pos[c] /\ new[c + 1] = pos[c + 1]
      BY <1>10, <1>11
    <3>3. c \in b..((e + 1) - 1)
      BY <1>1
    <3> QED BY <3>1, <3>2, <3>3
  <2>2. CASE j \notin s..n
    <3>1. new[e] = n + 1 /\ new[e + 1] = l + 1
      BY <1>1, <1>4, <1>10
    <3>2. e \in b..((e + 1) - 1)
      BY <1>1
    <3>3. n + 1 <= j /\ j < l + 1
      BY <1>3, <2>2
    <3> QED BY <3>1, <3>2, <3>3
  <2> QED BY <2>1, <2>2
<1>17. new[b] = s /\ new[e + 1] = l + 1
  BY <1>1, <1>4, <1>10
<1>20. Framed(r, new, b, e + 1, s)
  BY <1>8, <1>14, <1>15, <1>16, <1>17 DEF Framed, l
<1> QED BY <1>20

\* The first of them is read.
LEMMA FramedAdvances ==
  ASSUME NEW q \in Seq(Items), NEW pos, NEW b \in Nat, NEW e \in Nat, b < e,
         NEW s \in Nat \ {0}, Framed(q, pos, b, e, s)
  PROVE  /\ IsEntry(q, b, s) /\ s + Size(q, s) <= Len(q) + 1
         /\ s + Size(q, s) \in Nat \ {0}
         /\ Framed(q, pos, b + 1, e, s + Size(q, s))
<1> DEFINE n == Len(q)
           t == pos[b + 1]
<1>0. pos \in [Nat -> Nat]
  BY DEF Framed
<1>1. pos[b] = s /\ pos[e] = n + 1
  BY DEF Framed
<1>11. n \in Nat
  BY LenProperties
<1>2. \A c \in b..(e - 1) : IsEntry(q, c, pos[c]) /\ pos[c + 1] = pos[c] + Size(q, pos[c])
  BY DEF Framed
<1>3. \A c, d \in b..e : c < d => pos[c] + 3 <= pos[d]
  BY DEF Framed
<1>4. \A j \in s..n : \E c \in b..(e - 1) : pos[c] <= j /\ j < pos[c + 1]
  BY DEF Framed
<1>5. b \in b..(e - 1) /\ b + 1 \in b..e /\ e \in b..e /\ b \in b..e
  OBVIOUS
<1>6. IsEntry(q, b, s) /\ t = s + Size(q, s)
  BY <1>1, <1>2, <1>5
<1> HIDE DEF n
<1>7. t \in Nat /\ s + 3 <= t /\ t <= n + 1
  <2>0. b + 1 \in Nat
    OBVIOUS
  <2>1. t \in Nat
    BY <1>0, <2>0
  <2>2. pos[b] + 3 <= t
    BY <1>3, <1>5
  <2>3. b + 1 < e => t + 3 <= pos[e]
    BY <1>3, <1>5
  <2>4. b + 1 = e => t = pos[e]
    OBVIOUS
  <2> HIDE DEF t
  <2> QED BY <1>1, <1>11, <2>1, <2>2, <2>3, <2>4
<1>8. ASSUME NEW j \in t..n
      PROVE  \E c \in (b + 1)..(e - 1) : pos[c] <= j /\ j < pos[c + 1]
  <2>1. j \in s..n /\ t <= j /\ j \in Nat
    <3> HIDE DEF t
    <3> QED BY <1>11, <1>7
  <2>2. PICK c \in b..(e - 1) : pos[c] <= j /\ j < pos[c + 1]
    BY <1>4, <2>1
  <2>3. c # b
    <3> SUFFICES ASSUME c = b PROVE FALSE
      OBVIOUS
    <3>1. j < t
      BY <2>2
    <3> HIDE DEF t
    <3> QED BY <1>11, <1>7, <2>1, <3>1
  <2>4. c \in (b + 1)..(e - 1)
    BY <2>3
  <2> QED BY <2>2, <2>4
<1>9. Framed(q, pos, b + 1, e, t)
  <2>1. \A c \in (b + 1)..(e - 1) : c \in b..(e - 1)
    OBVIOUS
  <2>2. \A c \in (b + 1)..e : c \in b..e
    OBVIOUS
  <2> QED BY <1>0, <1>1, <1>2, <1>3, <1>8, <2>1, <2>2 DEF Framed, n
<1>10. t \in Nat \ {0} /\ t <= Len(q) + 1
  <2> HIDE DEF t
  <2> QED BY <1>11, <1>7 DEF n
<1> QED BY <1>6, <1>9, <1>10

\* If nothing is left to read, the calls have all been made.
LEMMA FramedEnds ==
  ASSUME NEW q \in Seq(Items), NEW pos, NEW b \in Nat, NEW e \in Nat, b <= e,
         NEW s \in Nat \ {0}, Framed(q, pos, b, e, s)
  PROVE  s > Len(q) <=> b = e
<1>1. pos[b] = s /\ pos[e] = Len(q) + 1 /\ Len(q) \in Nat
      /\ \A c, d \in b..e : c < d => pos[c] + 3 <= pos[d]
  BY DEF Framed
<1>2. b \in b..e /\ e \in b..e
  OBVIOUS
<1> QED BY <1>1, <1>2

LEMMA FramedEmpty ==
  ASSUME NEW b \in Nat, NEW e \in Nat, b = e
  PROVE  \E pos : Framed(<<>>, pos, b, e, 1)
<1> DEFINE p == [c \in Nat |-> 1]
<1>1. Framed(<<>>, p, b, e, 1)
  BY DEF Framed
<1> QED BY <1>1

-----------------------------------------------------------------------------
(* Strings and flags.                                                      *)

\* The slots of q from lo on that hold an argument have their flags right.
Flagged(q, fl, lo) ==
  \A i \in lo..Len(q) : q[i].is \in {"str", "value"} => (i \in fl <=> q[i].is = "str")

\* The strings in these slots.
StringsIn(q, lo) ==
  {<<q[i].of, q[i].arg>> : i \in {j \in 1..Len(q) : q[j].is = "str" /\ j >= lo}}

\* The slots a call is appended in.
LEMMA NewSlots ==
  ASSUME NEW f \in Functions, NEW c \in 1..MaxCalls, NEW q \in Seq(Items),
         NEW r, Cat(r, q, Entry(f, c)), NEW i \in (Len(q) + 1)..Len(r)
  PROVE  \/ r[i].is \notin {"str", "value"} /\ i <= Len(q) + 3
         \/ \E k \in Args(f) : i = Len(q) + 3 + k /\ r[i] = Argument(f, c, k)
<1>1. /\ Len(r) = Len(q) + 3 + Len(Params(f)) /\ Len(q) \in Nat
      /\ IsEntry(r, c, Len(q) + 1) /\ r[(Len(q) + 1) + 1].type = f
  BY Appended
<1>2. /\ Len(Params(f)) \in Nat
      /\ \A k : k \in Args(f) <=> k \in Nat /\ 1 <= k /\ k <= Len(Params(f))
  BY ArgsAre
<1> DEFINE n == Len(q)
           m == Len(Params(f))
<1>3. /\ r[n + 1].is = "num" /\ r[(n + 1) + 1].is = "type" /\ r[(n + 1) + 2].is = "extra"
      /\ \A k \in Args(f) : r[(n + 1) + 2 + k] = Argument(f, c, k)
  BY <1>1 DEF IsEntry
<1>4. n \in Nat /\ m \in Nat /\ i \in (n + 1)..(n + 3 + m)
      /\ \A k : k \in Args(f) <=> k \in Nat /\ 1 <= k /\ k <= m
  BY <1>1, <1>2
<1>5. n + 3 = Len(q) + 3
  OBVIOUS
<1> HIDE DEF n, m
<1>6. CASE i <= n + 3
  <2>1. i = n + 1 \/ i = (n + 1) + 1 \/ i = (n + 1) + 2
    BY <1>4, <1>6
  <2>2. r[i].is \notin {"str", "value"}
    BY <1>3, <2>1
  <2> QED BY <1>6, <2>2 DEF n
<1>7. CASE ~(i <= n + 3)
  <2> DEFINE k == i - (n + 3)
  <2>1. k \in Args(f) /\ i = n + 3 + k /\ i = (n + 1) + 2 + k
    BY <1>4, <1>7
  <2> HIDE DEF k
  <2>2. r[i] = Argument(f, c, k)
    BY <1>3, <2>1
  <2> QED BY <2>1, <2>2 DEF n
<1> QED BY <1>6, <1>7

\* The flags of a call that is appended, or of one that is refused.
LEMMA FlagsAppend ==
  ASSUME NEW f \in Functions, NEW c \in 1..MaxCalls, NEW q \in Seq(Items),
         NEW r, Cat(r, q, Entry(f, c)), NEW lo \in Nat \ {0}, NEW fl, Flagged(q, fl, lo)
  PROVE  Flagged(r, (fl \ {Len(q) + 3 + i : i \in Args(f)}) \cup
                       {Len(q) + 3 + i : i \in Strings(f)}, lo)
<1> DEFINE n == Len(q)
           new == (fl \ {n + 3 + i : i \in Args(f)}) \cup {n + 3 + i : i \in Strings(f)}
<1>1. n \in Nat /\ Strings(f) \subseteq Args(f) /\ \A k \in Args(f) : k \in Nat /\ k >= 1
  BY ArgsAre, LenProperties DEF Strings
<1>2. \A i \in 1..n : r[i] = q[i]
  BY Appended
<1>3. ASSUME NEW i \in lo..Len(r), r[i].is \in {"str", "value"}
      PROVE  i \in new <=> r[i].is = "str"
  <2>1. CASE i \in 1..n
    <3>1. \A k \in Args(f) : i # n + 3 + k
      <4> HIDE DEF n, new
      <4> QED BY <1>1, <2>1
    <3>2. i \in new <=> i \in fl
      <4> HIDE DEF n
      <4> QED BY <1>1, <3>1
    <3>3. r[i] = q[i] /\ i \in lo..Len(q)
      BY <1>1, <1>2, <2>1
    <3> HIDE DEF new
    <3> QED BY <1>3, <3>2, <3>3 DEF Flagged
  <2>2. CASE i \notin 1..n
    <3>1. i \in (Len(q) + 1)..Len(r)
      BY <1>1, <2>2
    <3>2. PICK k \in Args(f) : i = Len(q) + 3 + k /\ r[i] = Argument(f, c, k)
      <4> HIDE DEF new
      <4> QED BY <1>3, <3>1, NewSlots
    <3>3. i = n + 3 + k
      BY <3>2
    <3>4. r[i].is = "str" <=> k \in Strings(f)
      BY <3>2 DEF Argument
    <3>5. i \in new <=> k \in Strings(f)
      <4>1. \A j \in Args(f) : i = n + 3 + j => j = k
        <5> HIDE DEF n, new
        <5> QED BY <1>1, <3>3
      <4> HIDE DEF n
      <4> QED BY <1>1, <3>3, <4>1
    <3> HIDE DEF n, new
    <3> QED BY <3>4, <3>5
  <2> QED BY <2>1, <2>2
<1> QED BY <1>3 DEF Flagged

LEMMA StringsAppend ==
  ASSUME NEW f \in Functions, NEW c \in 1..MaxCalls, NEW q \in Seq(Items),
         NEW r, Cat(r, q, Entry(f, c)), NEW lo \in Nat, lo <= Len(q) + 1
  PROVE  StringsIn(r, lo) = StringsIn(q, lo) \cup {<<c, k>> : k \in Strings(f)}
<1>1. Len(q) \in Nat /\ Strings(f) \subseteq Args(f)
  BY LenProperties DEF Strings
<1>2. /\ \A i \in 1..Len(q) : r[i] = q[i] /\ i \in 1..Len(r)
      /\ \A k \in Args(f) : Len(q) + 3 + k \in (Len(q) + 1)..Len(r)
                            /\ r[Len(q) + 3 + k] = Argument(f, c, k)
  <2>1. /\ Len(r) = Len(q) + 3 + Len(Params(f)) /\ Len(q) \in Nat
        /\ \A i \in 1..Len(q) : r[i] = q[i]
        /\ IsEntry(r, c, Len(q) + 1) /\ r[(Len(q) + 1) + 1].type = f
    BY Appended
  <2>2. /\ Len(Params(f)) \in Nat
        /\ \A k \in Args(f) : k \in Nat /\ 1 <= k /\ k <= Len(Params(f))
    BY ArgsAre
  <2>3. \A k \in Args(f) : r[(Len(q) + 1) + 2 + k] = Argument(f, c, k)
    BY <2>1 DEF IsEntry
  <2>4. \A k \in Args(f) : (Len(q) + 1) + 2 + k = Len(q) + 3 + k
                           /\ Len(q) + 3 + k \in (Len(q) + 1)..Len(r)
    BY <2>1, <2>2
  <2>5. \A i \in 1..Len(q) : i \in 1..Len(r)
    BY <2>1, <2>2
  <2> QED BY <2>1, <2>3, <2>4, <2>5
<1>3. ASSUME NEW i \in 1..Len(r), r[i].is = "str", i >= lo
      PROVE  <<r[i].of, r[i].arg>> \in StringsIn(q, lo) \cup {<<c, k>> : k \in Strings(f)}
  <2>1. CASE i \in 1..Len(q)
    BY <1>2, <1>3, <2>1 DEF StringsIn
  <2>2. CASE i \notin 1..Len(q)
    <3>1. i \in (Len(q) + 1)..Len(r)
      BY <1>1, <2>2
    <3>2. PICK k \in Args(f) : r[i] = Argument(f, c, k)
      BY <1>3, <3>1, NewSlots
    <3>3. k \in Strings(f) /\ r[i] = [is |-> "str", of |-> c, arg |-> k]
      BY <1>3, <3>2 DEF Argument
    <3> QED BY <3>3
  <2> QED BY <2>1, <2>2
<1>4. StringsIn(q, lo) \subseteq StringsIn(r, lo)
  BY <1>2 DEF StringsIn
<1>5. ASSUME NEW k \in Strings(f) PROVE <<c, k>> \in StringsIn(r, lo)
  <2>1. /\ Len(q) + 3 + k \in (Len(q) + 1)..Len(r)
        /\ r[Len(q) + 3 + k] = [is |-> "str", of |-> c, arg |-> k]
    BY <1>1, <1>2 DEF Argument
  <2>2. Len(q) + 3 + k \in 1..Len(r) /\ Len(q) + 3 + k >= lo
    BY <1>1, <2>1
  <2> QED BY <2>1, <2>2 DEF StringsIn
<1>6. StringsIn(r, lo) \subseteq StringsIn(q, lo) \cup {<<c, k>> : k \in Strings(f)}
  BY <1>3 DEF StringsIn
<1> QED BY <1>4, <1>5, <1>6

-----------------------------------------------------------------------------
(* The invariant.                                                          *)

Types ==
  /\ script \in BOOLEAN
  /\ queue \in Seq(Items)
  /\ at \in Nat /\ at <= Len(queue) + 1 /\ cur \in Nat
  /\ made \in 0..MaxCalls /\ issued \in 0..made
  /\ cb \in 0..issued /\ (~script => cb = 0)
  /\ queries \subseteq 1..issued /\ cb \notin queries

\* What is still to be read is the entries of the calls not yet made.
Frames == \E pos : Framed(queue, pos, issued + 1, made + 1, Start)

\* While a call is made, its extra and its arguments are still there.
Current ==
  cur # 0 =>
    /\ at # 0 /\ cur < at /\ cur <= Len(queue) /\ issued # 0
    /\ queue[cur] = [is |-> "extra", of |-> issued]
    /\ \A i \in (cur + 1)..(at - 1) : \/ queue[i].is = "str" /\ queue[i].of = issued
                                      \/ queue[i].is = "value"

Lo == IF cur # 0 THEN cur ELSE Start

Flags == Flagged(queue, flagged, Lo)

Strs == copies = StringsIn(queue, Lo)

\* malloc's memory; what is beyond the calls made is free.
Memory ==
  /\ addr \in [1..MaxCalls -> 0..MaxCalls] /\ mem \in [1..MaxCalls -> 0..MaxCalls]
  /\ \A c \in 1..made : addr[c] \in 1..made
  /\ \A a \in 1..MaxCalls : a > made => mem[a] = 0

Extras ==
  strayed = {} =>
    /\ refs = Waiting \cup queries \cup ({cb} \ {0})
    /\ \A c \in refs : mem[addr[c]] = c

IInv == run = "up" => Types /\ Frames /\ Current /\ Flags /\ Strs /\ Memory /\ Extras

-----------------------------------------------------------------------------
LEMMA InitIInv == Init => IInv
<1> SUFFICES ASSUME Init PROVE IInv
  OBVIOUS
<1>1. Types
  <2>1. queue = <<>> /\ <<>> \in Seq(Items) /\ Len(<<>>) = 0
    BY EmptySeq DEF Init
  <2>2. queue \in Seq(Items) /\ Len(queue) = 0
    BY <2>1
  <2>3. MaxCalls \in Nat
    BY BoundsAssumption
  <2>4. script = FALSE /\ at = 0 /\ cur = 0 /\ made = 0 /\ issued = 0 /\ cb = 0 /\ queries = {}
    BY DEF Init
  <2>5. made \in 0..MaxCalls /\ issued \in 0..made /\ cb \in 0..issued
    BY <2>3, <2>4
  <2>6. at \in Nat /\ at <= Len(queue) + 1 /\ cur \in Nat
    BY <2>2, <2>4
  <2>7. queries \subseteq 1..issued /\ cb \notin queries
    BY <2>4
  <2> QED BY <2>2, <2>4, <2>5, <2>6, <2>7 DEF Types
<1>2. Frames
  <2>1. queue = <<>> /\ Start = 1 /\ issued + 1 = made + 1 /\ issued + 1 \in Nat
    BY DEF Init, Start
  <2>2. \E pos : Framed(<<>>, pos, issued + 1, made + 1, 1)
    BY <2>1, FramedEmpty
  <2> QED BY <2>1, <2>2 DEF Frames
<1>3. Current
  BY DEF Init, Current
<1>4. Flags /\ Strs
  <2>1. queue = <<>> /\ Len(<<>>) = 0 /\ Lo = 1 /\ copies = {}
    BY EmptySeq DEF Init, Lo, Start
  <2>2. Flagged(<<>>, flagged, 1)
    BY DEF Flagged
  <2>3. StringsIn(<<>>, 1) = {}
    BY DEF StringsIn
  <2> QED BY <2>1, <2>2, <2>3 DEF Flags, Strs
<1>5. Memory
  BY BoundsAssumption DEF Init, Memory
<1>6. Extras
  BY DEF Init, Extras, Waiting
<1> QED BY <1>1, <1>2, <1>3, <1>4, <1>5, <1>6 DEF IInv

\* Nothing of what is read changes.
LEMMA ReadingStays ==
  ASSUME Types, Frames, Current, UNCHANGED <<queue, at, cur, made, issued>>
  PROVE  /\ Frames' /\ Current' /\ Lo' = Lo
         /\ Flagged(queue, flagged', Lo) => Flags'
         /\ UNCHANGED copies /\ Strs => Strs'
BY DEF Types, Frames, Current, Lo, Start, Flags, Strs

LEMMA LoIsIn == ASSUME Types, Current PROVE Lo \in Nat \ {0} /\ Lo <= Len(queue) + 1
<1>1. Len(queue) \in Nat
  BY LenProperties DEF Types
<1> QED BY <1>1 DEF Types, Current, Lo, Start

-----------------------------------------------------------------------------
(* The script.                                                             *)

LEMMA AcceptedKeeps ==
  ASSUME IInv, run = "up", NEW f \in Functions, Accepted(f)
  PROVE  IInv'
<1> DEFINE c == made + 1
<1>1. /\ Types /\ Frames /\ Current /\ Flags /\ Strs /\ Memory /\ Extras
  BY DEF IInv
<1>2. /\ script /\ made < MaxCalls /\ made' = c
      /\ Cat(queue', queue, Entry(f, c))
      /\ flagged' = (flagged \ Slots(Args(f))) \cup Slots(Strings(f))
      /\ copies' = copies \cup {<<c, i>> : i \in Strings(f)}
      /\ refs' = refs \cup {c}
      /\ UNCHANGED <<run, script, cb, at, cur, issued, queries, strayed>>
  BY DEF Accepted, Cat, control, reading
<1>3. PICK a \in Malloced(c) : addr' = [addr EXCEPT ![c] = a] /\ mem' = [mem EXCEPT ![a] = c]
  BY DEF Accepted
<1>4. /\ c \in 1..MaxCalls /\ made \in Nat /\ issued \in Nat /\ issued <= made
      /\ MaxCalls \in Nat
  BY <1>1, <1>2, BoundsAssumption DEF Types
<1>5. queue \in Seq(Items) /\ Len(queue) \in Nat
  BY <1>1, LenProperties DEF Types
<1>6. Lo \in Nat \ {0} /\ Lo <= Len(queue) + 1 /\ Lo' = Lo /\ Start' = Start
  BY <1>1, <1>2, LoIsIn DEF Lo, Start
<1>7. /\ queue' \in Seq(Items) /\ Len(queue) <= Len(queue')
      /\ \A i \in 1..Len(queue) : queue'[i] = queue[i]
  <2>1. Len(Params(f)) \in Nat
    BY ArgsAre
  <2>2. /\ queue' \in Seq(Items) /\ Len(queue') = Len(queue) + 3 + Len(Params(f))
        /\ \A i \in 1..Len(queue) : queue'[i] = queue[i]
    BY <1>2, <1>4, <1>5, Appended
  <2> QED BY <1>5, <2>1, <2>2
<1>8. Types'
  <2> HIDE DEF c
  <2>1. made' \in 0..MaxCalls /\ issued' \in 0..made'
    BY <1>2, <1>4 DEF c
  <2>2. at' \in Nat /\ at' <= Len(queue') + 1
    <3>1. Len(queue') \in Nat
      BY <1>7, LenProperties
    <3> QED BY <1>1, <1>2, <1>5, <1>7, <3>1 DEF Types
  <2> QED BY <1>1, <1>2, <1>7, <2>1, <2>2 DEF Types
<1>9. Frames'
  <2>1. PICK pos : Framed(queue, pos, issued + 1, c, Start)
    BY <1>1 DEF Frames
  <2>2. issued + 1 \in Nat /\ issued + 1 <= c /\ Start \in Nat \ {0}
    BY <1>1, <1>4 DEF Start, Types
  <2>3. \E new : Framed(queue', new, issued + 1, c + 1, Start)
    <3> HIDE DEF c
    <3> QED BY <1>2, <1>4, <1>5, <2>1, <2>2, FramedAppends
  <2> QED BY <1>2, <1>6, <2>3 DEF Frames
<1>10. Current'
  <2> SUFFICES ASSUME cur # 0 PROVE Current'
    BY <1>2 DEF Current
  <2>1. cur \in 1..Len(queue) /\ \A i \in (cur + 1)..(at - 1) : i \in 1..Len(queue)
    BY <1>1, <1>5 DEF Types, Current
  <2>2. queue'[cur] = queue[cur] /\ \A i \in (cur + 1)..(at - 1) : queue'[i] = queue[i]
    BY <1>7, <2>1
  <2>3. cur <= Len(queue')
    <3>1. Len(queue') \in Nat
      BY <1>7, LenProperties
    <3> QED BY <1>5, <1>7, <2>1, <3>1
  <2> HIDE DEF c
  <2> QED BY <1>1, <1>2, <2>2, <2>3 DEF Current
<1>11. Flags'
  <2>1. Flagged(queue, flagged, Lo)
    BY <1>1 DEF Flags
  <2>2. Flagged(queue', (flagged \ {Len(queue) + 3 + i : i \in Args(f)}) \cup
                          {Len(queue) + 3 + i : i \in Strings(f)}, Lo)
    <3> HIDE DEF c
    <3> QED BY <1>2, <1>4, <1>5, <1>6, <2>1, FlagsAppend
  <2>3. flagged' = (flagged \ {Len(queue) + 3 + i : i \in Args(f)}) \cup
                     {Len(queue) + 3 + i : i \in Strings(f)}
    BY <1>2 DEF Slots
  <2> QED BY <1>6, <2>2, <2>3 DEF Flags
<1>12. Strs'
  <2>1. StringsIn(queue', Lo) = StringsIn(queue, Lo) \cup {<<c, k>> : k \in Strings(f)}
    <3> HIDE DEF c
    <3> QED BY <1>2, <1>4, <1>5, <1>6, StringsAppend
  <2> QED BY <1>1, <1>2, <1>6, <2>1 DEF Strs
<1>13. a \in 1..c /\ mem[a] = 0
  <2>1. mem[c] = 0
    BY <1>1, <1>4 DEF Memory
  <2>2. CASE a = c
    BY <1>4, <2>1, <2>2
  <2>3. CASE a # c
    <3>1. PICK x \in Pointing : a = addr[x] /\ Free(a)
      BY <1>3, <2>3 DEF Malloced
    <3>2. x \in 1..made
      BY <1>1, <1>4, <3>1 DEF Pointing, Types
    <3>3. addr[x] \in 1..made
      BY <1>1, <3>2 DEF Memory
    <3> QED BY <1>4, <3>1, <3>3 DEF Free
  <2> QED BY <2>2, <2>3
<1>14. a \in 1..MaxCalls /\ a \in 0..MaxCalls /\ c \in 0..MaxCalls
  BY <1>4, <1>13
<1>15. Memory'
  <2>1. addr' \in [1..MaxCalls -> 0..MaxCalls] /\ mem' \in [1..MaxCalls -> 0..MaxCalls]
    <3> HIDE DEF c
    <3> QED BY <1>1, <1>3, <1>14 DEF Memory
  <2>2. ASSUME NEW d \in 1..made' PROVE addr'[d] \in 1..made'
    <3>1. d \in 1..MaxCalls /\ (d = c \/ d \in 1..made) /\ (\A x \in 1..made : x \in 1..made')
      BY <1>2, <1>4
    <3>2. d \in 1..made => addr[d] \in 1..made
      BY <1>1 DEF Memory
    <3>3. addr'[d] = IF d = c THEN a ELSE addr[d]
      <4> HIDE DEF c
      <4> QED BY <1>1, <1>3, <3>1 DEF Memory
    <3>4. a \in 1..made'
      BY <1>2, <1>13
    <3> HIDE DEF c
    <3> QED BY <3>1, <3>2, <3>3, <3>4
  <2>3. ASSUME NEW b \in 1..MaxCalls, b > made' PROVE mem'[b] = 0
    <3>1. b > made /\ b # a
      BY <1>2, <1>4, <1>13, <2>3
    <3> HIDE DEF c
    <3> QED BY <1>1, <1>3, <3>1 DEF Memory
  <2> QED BY <2>1, <2>2, <2>3 DEF Memory
<1>16. Extras'
  <2> SUFFICES ASSUME strayed = {} PROVE Extras'
    BY <1>2 DEF Extras
  <2>1. /\ refs = Waiting \cup queries \cup ({cb} \ {0})
        /\ \A d \in refs : mem[addr[d]] = d
    BY <1>1 DEF Extras
  <2>2. Waiting' = Waiting \cup {c}
    BY <1>2, <1>4 DEF Waiting
  <2>3. refs' = Waiting' \cup queries' \cup ({cb'} \ {0})
    <3> HIDE DEF c
    <3> QED BY <1>2, <2>1, <2>2
  <2>4. ASSUME NEW d \in refs PROVE mem'[addr'[d]] = d
    <3>1. d \in 1..made /\ d # 0 /\ d # c /\ d \in 1..MaxCalls
      BY <1>1, <1>4, <2>1 DEF Types, Waiting
    <3>2. addr[d] \in 1..made /\ addr[d] \in 1..MaxCalls /\ mem[addr[d]] = d
      <4>1. addr[d] \in 1..made
        BY <1>1, <3>1 DEF Memory
      <4>2. \A x \in 1..made : x \in 1..MaxCalls
        BY <1>2, <1>4
      <4> QED BY <2>1, <4>1, <4>2
    <3>3. addr'[d] = addr[d] /\ addr[d] # a
      <4> HIDE DEF c
      <4> QED BY <1>1, <1>3, <1>13, <3>1, <3>2 DEF Memory
    <3> HIDE DEF c
    <3> QED BY <1>1, <1>3, <3>2, <3>3 DEF Memory
  <2>5. mem'[addr'[c]] = c
    <3> HIDE DEF c
    <3> QED BY <1>1, <1>3, <1>4, <1>14 DEF Memory
  <2> QED BY <1>2, <2>3, <2>4, <2>5 DEF Extras
<1> QED BY <1>8, <1>9, <1>10, <1>11, <1>12, <1>15, <1>16 DEF IInv

LEMMA RefusedKeeps ==
  ASSUME IInv, run = "up", NEW f \in Functions, NEW bad \in SUBSET Args(f), Refused(f, bad)
  PROVE  IInv'
<1>1. /\ Types /\ Frames /\ Current /\ Flags /\ Strs /\ Memory /\ Extras
  BY DEF IInv
<1>2. /\ flagged' = (flagged \ Slots(Args(f))) \cup Slots(Strings(f) \ bad)
      /\ UNCHANGED <<run, script, cb, queue, at, cur, issued, made, queries, copies, refs, addr,
                     mem, strayed>>
  BY DEF Refused, control, reading, heap
<1>3. Flagged(queue, flagged', Lo)
  <2>1. Len(queue) \in Nat /\ Lo \in Nat
    BY <1>1, LenProperties, LoIsIn DEF Types
  <2>2. \A k \in Args(f) : k \in Nat
    BY ArgsAre
  <2>3. Slots(Args(f)) \cap (Lo..Len(queue)) = {} /\ Slots(Strings(f) \ bad) \cap (Lo..Len(queue)) = {}
    BY <2>1, <2>2 DEF Slots, Strings
  <2>4. \A i \in Lo..Len(queue) : i \in flagged' <=> i \in flagged
    BY <1>2, <2>3
  <2> QED BY <1>1, <2>4 DEF Flags, Flagged
<1>4. Frames' /\ Current' /\ Flags' /\ Strs'
  BY <1>1, <1>2, <1>3, ReadingStays
<1>5. Types' /\ Memory' /\ Extras'
  BY <1>1, <1>2 DEF Types, Memory, Extras, Waiting
<1> QED BY <1>4, <1>5 DEF IInv

LEMMA HookKeeps == ASSUME IInv, run = "up", Hook PROVE IInv'
<1>1. /\ Types /\ Frames /\ Current /\ Flags /\ Strs /\ Memory /\ Extras
  BY DEF IInv
<1>2. /\ script' = TRUE /\ ~script
      /\ UNCHANGED <<run, cb, queue, flagged, at, cur, issued, made, queries, copies, refs, addr,
                     mem, strayed>>
  BY DEF Hook, array, reading, heap
<1>3. Frames' /\ Current' /\ Flags' /\ Strs'
  BY <1>1, <1>2, ReadingStays DEF Flags
<1>4. Types' /\ Memory' /\ Extras'
  BY <1>1, <1>2 DEF Types, Memory, Extras, Waiting
<1> QED BY <1>3, <1>4 DEF IInv

LEMMA AnswerKeeps == ASSUME IInv, run = "up", NEW c \in 1..MaxCalls, Answer(c) PROVE IInv'
<1>1. /\ Types /\ Frames /\ Current /\ Flags /\ Strs /\ Memory /\ Extras
  BY DEF IInv
<1>2. /\ ~script /\ c \in queries /\ queries' = queries \ {c}
      /\ \/ run' = "garbled"
         \/ script' = TRUE /\ cb' = c
      /\ UNCHANGED <<queue, flagged, at, cur, issued, made, copies, refs, addr, mem, strayed>>
  BY DEF Answer, array, reading, heap
<1> SUFFICES ASSUME run' = "up" PROVE IInv'
  BY DEF IInv
<1>3. Frames' /\ Current' /\ Flags' /\ Strs'
  BY <1>1, <1>2, ReadingStays DEF Flags
<1>4. Types'
  BY <1>1, <1>2 DEF Types
<1>5. Memory'
  BY <1>1, <1>2 DEF Memory
<1>6. Extras'
  <2>1. cb = 0 /\ c # 0 /\ cb' = c /\ Waiting' = Waiting
    BY <1>1, <1>2 DEF Types, Waiting
  <2>2. queries' \cup ({cb'} \ {0}) = queries \cup ({cb} \ {0})
    BY <1>2, <2>1
  <2> QED BY <1>1, <1>2, <2>1, <2>2 DEF Extras
<1> QED BY <1>3, <1>4, <1>5, <1>6 DEF IInv

LEMMA ReturnKeeps == ASSUME IInv, run = "up", Return PROVE IInv'
<1>1. /\ Types /\ Frames /\ Current /\ Flags /\ Strs /\ Memory /\ Extras
  BY DEF IInv
<1>2. /\ script' = FALSE /\ cb' = 0
      /\ IF cb = 0 THEN UNCHANGED <<refs, mem>>
         ELSE /\ refs' = refs \ {mem[addr[cb]]}
              /\ mem' = [mem EXCEPT ![addr[cb]] = 0]
      /\ UNCHANGED <<run, queue, flagged, at, cur, issued, made, queries, copies, addr, strayed>>
  BY DEF Return, array, reading
<1>3. Frames' /\ Current' /\ Flags' /\ Strs'
  BY <1>1, <1>2, ReadingStays DEF Flags
<1>4. Types' /\ Waiting' = Waiting
  <2>1. cb' \in 0..issued' /\ cb' \notin queries'
    BY <1>1, <1>2 DEF Types
  <2> QED BY <1>1, <1>2, <2>1 DEF Types, Waiting
<1>5. CASE cb = 0
  <2>1. Memory' /\ Extras'
    BY <1>1, <1>2, <1>4, <1>5 DEF Memory, Extras
  <2> QED BY <1>3, <1>4, <2>1 DEF IInv
<1>6. CASE cb # 0
  <2>1. cb \in 1..made /\ cb \notin queries /\ cb \notin Waiting /\ made \in Nat /\ made <= MaxCalls
    BY <1>1, <1>6, BoundsAssumption DEF Types, Waiting
  <2>2. /\ addr[cb] \in 1..MaxCalls /\ refs' = refs \ {mem[addr[cb]]}
        /\ mem' = [mem EXCEPT ![addr[cb]] = 0]
    BY <1>1, <1>2, <1>6, <2>1, BoundsAssumption DEF Memory
  <2>3. Memory'
    BY <1>1, <1>2, <2>2, BoundsAssumption DEF Memory
  <2>4. Extras'
    <3> SUFFICES ASSUME strayed = {} PROVE Extras'
      BY <1>2 DEF Extras
    <3>1. /\ refs = Waiting \cup queries \cup {cb}
          /\ \A d \in refs : mem[addr[d]] = d
      BY <1>1, <1>6 DEF Extras
    <3>2. mem[addr[cb]] = cb /\ refs' = refs \ {cb}
      BY <2>2, <3>1
    <3>3. refs' = Waiting' \cup queries' \cup ({cb'} \ {0})
      BY <1>2, <1>4, <2>1, <3>1, <3>2
    <3>4. ASSUME NEW d \in refs' PROVE mem'[addr'[d]] = d
      <4>1. d \in refs /\ d # cb /\ mem[addr[d]] = d /\ addr' = addr
        BY <1>2, <3>1, <3>2
      <4>2. addr[d] # addr[cb]
        BY <3>2, <4>1
      <4>3. d \in 1..made
        <5>1. queries \subseteq 1..made /\ Waiting \subseteq 1..made /\ d \in Waiting \cup queries
          BY <1>1, <3>1, <4>1 DEF Types, Waiting
        <5> QED BY <5>1
      <4>4. addr[d] \in 1..MaxCalls
        BY <1>1, <2>1, <4>3, BoundsAssumption DEF Memory
      <4> QED BY <1>1, <2>2, <4>1, <4>2, <4>4 DEF Memory
    <3> QED BY <3>3, <3>4 DEF Extras
  <2> QED BY <1>3, <1>4, <2>3, <2>4 DEF IInv
<1> QED BY <1>5, <1>6

-----------------------------------------------------------------------------
(* lua_do_all.                                                             *)

LEMMA BeginKeeps == ASSUME IInv, run = "up", Begin PROVE IInv'
<1>1. /\ Types /\ Frames /\ Current /\ Flags /\ Strs /\ Memory /\ Extras
  BY DEF IInv
<1>2. /\ at = 0 /\ at' = 1 /\ cur = 0
      /\ UNCHANGED <<run, script, cb, queue, flagged, cur, issued, made, queries, copies, refs,
                     addr, mem, strayed>>
  BY <1>1 DEF Begin, control, array, heap, Current
<1>3. Start' = Start /\ Lo' = Lo
  BY <1>2 DEF Start, Lo
<1>4. Frames' /\ Current' /\ Flags' /\ Strs'
  BY <1>1, <1>2, <1>3 DEF Frames, Current, Flags, Strs
<1>5. Types'
  <2>1. Len(queue) \in Nat
    BY <1>1, LenProperties DEF Types
  <2> QED BY <1>1, <1>2, <2>1 DEF Types
<1>6. Memory' /\ Extras'
  BY <1>1, <1>2 DEF Memory, Extras, Waiting
<1> QED BY <1>4, <1>5, <1>6 DEF IInv

\* The call whose turn it is.
LEMMA TurnIs ==
  ASSUME Types, Frames, at # 0, at <= Len(queue)
  PROVE  /\ issued < made /\ IsEntry(queue, issued + 1, at)
         /\ at + Size(queue, at) <= Len(queue) + 1 /\ at + Size(queue, at) \in Nat \ {0}
         /\ \E pos : Framed(queue, pos, issued + 2, made + 1, at + Size(queue, at))
<1> DEFINE b == issued + 1
           e == made + 1
<1>1. b \in Nat /\ e \in Nat /\ b <= e /\ at \in Nat \ {0} /\ queue \in Seq(Items)
  BY BoundsAssumption DEF Types
<1>2. PICK pos : Framed(queue, pos, b, e, at)
  BY DEF Frames, Start
<1>3. Len(queue) \in Nat
  BY <1>1, LenProperties
<1> HIDE DEF b, e
<1>4. at > Len(queue) <=> b = e
  BY <1>1, <1>2, FramedEnds
<1>5. b < e
  BY <1>1, <1>3, <1>4 DEF Types
<1>6. /\ IsEntry(queue, b, at) /\ at + Size(queue, at) <= Len(queue) + 1
      /\ at + Size(queue, at) \in Nat \ {0}
      /\ Framed(queue, pos, b + 1, e, at + Size(queue, at))
  BY <1>1, <1>2, <1>5, FramedAdvances
<1>7. b + 1 = issued + 2 /\ issued < made
  BY <1>5, BoundsAssumption DEF b, e, Types
<1> QED BY <1>6, <1>7 DEF b, e

\* What a call that is made does.
LEMMA IssueIs ==
  ASSUME IInv, run = "up", Issue, run' = "up"
  PROVE  /\ at # 0 /\ cur = 0 /\ at <= Len(queue)
         /\ queue[at + 2] = [is |-> "extra", of |-> issued + 1]
         /\ cur' = at + 2 /\ at' = at + Size(queue, at)
         /\ issued' = issued + 1 /\ queries' = queries \cup {issued + 1}
         /\ UNCHANGED <<run, script, cb, queue, flagged, made, copies, refs, addr, mem, strayed>>
<1>1. Types /\ Frames
  BY DEF IInv
<1>2. at # 0 /\ cur = 0 /\ at <= Len(queue)
      /\ UNCHANGED <<script, cb, queue, flagged, made, copies, refs, addr, mem, strayed>>
  BY DEF Issue, array, heap
<1>3. IsEntry(queue, issued + 1, at)
  BY <1>1, <1>2, TurnIs
<1>4. queue[at + 2] = [is |-> "extra", of |-> issued + 1] /\ queue[at + 1].type \in Functions
  BY <1>3 DEF IsEntry
<1>5. queue[at + 2].of = issued + 1
  BY <1>4
<1> DEFINE f == queue[at + 1].type
<1>6. /\ cur' = at + 2 /\ at' = at + 2 + Takes(f) /\ Takes(f) = 1 + Len(Params(f))
      /\ issued' = issued + 1 /\ queries' = queries \cup {queue[at + 2].of} /\ run' = run
  BY DEF Issue
<1>7. at' = at + Size(queue, at)
  <2>1. Len(Params(f)) \in Nat
    <3> HIDE DEF f
    <3>1. f \in Functions
      BY <1>4 DEF f
    <3> QED BY <3>1, ArgsAre
  <2>2. Size(queue, at) = 3 + Len(Params(f)) /\ at \in Nat
    BY <1>1 DEF Size, Types
  <2> HIDE DEF f
  <2> QED BY <1>6, <2>1, <2>2
<1> QED BY <1>2, <1>4, <1>5, <1>6, <1>7

LEMMA IssueKeeps == ASSUME IInv, run = "up", Issue PROVE IInv'
<1> SUFFICES ASSUME run' = "up" PROVE IInv'
  BY DEF IInv
<1>1. /\ Types /\ Frames /\ Current /\ Flags /\ Strs /\ Memory /\ Extras
  BY DEF IInv
<1>2. /\ at # 0 /\ cur = 0 /\ at <= Len(queue)
      /\ queue[at + 2] = [is |-> "extra", of |-> issued + 1]
      /\ cur' = at + 2 /\ at' = at + Size(queue, at)
      /\ issued' = issued + 1 /\ queries' = queries \cup {issued + 1}
      /\ UNCHANGED <<run, script, cb, queue, flagged, made, copies, refs, addr, mem, strayed>>
  BY IssueIs
<1>3. /\ issued < made /\ IsEntry(queue, issued + 1, at)
      /\ at' <= Len(queue) + 1 /\ at' \in Nat \ {0}
      /\ \E pos : Framed(queue, pos, issued + 2, made + 1, at')
  BY <1>1, <1>2, TurnIs
<1>4. at \in Nat /\ Len(queue) \in Nat /\ issued \in Nat /\ made \in Nat /\ cb \in Nat
      /\ cb <= issued
  BY <1>1, LenProperties, BoundsAssumption DEF Types
<1>5. Types'
  <2>1. issued' \in 0..made' /\ cb' \in 0..issued' /\ queries' \subseteq 1..issued'
        /\ cb' \notin queries' /\ cur' \in Nat
    BY <1>1, <1>2, <1>3, <1>4 DEF Types
  <2> QED BY <1>1, <1>2, <1>3, <2>1 DEF Types
<1>6. Frames'
  <2>1. issued' + 1 = issued + 2 /\ Start' = at'
    BY <1>2, <1>3, <1>4 DEF Start
  <2> QED BY <1>2, <1>3, <2>1 DEF Frames
<1> DEFINE f == queue[at + 1].type
           m == Len(Params(f))
<1>7. /\ m \in Nat /\ (\A k : k \in Args(f) <=> k \in Nat /\ 1 <= k /\ k <= m)
      /\ at' = at + (3 + m)
      /\ queue[at].is = "num" /\ queue[at + 1].is = "type"
      /\ \A k \in Args(f) : queue[at + 2 + k] = Argument(f, issued + 1, k)
  <2>1. f \in Functions /\ queue[at].is = "num" /\ queue[at + 1].is = "type"
        /\ \A k \in Args(f) : queue[at + 2 + k] = Argument(f, issued + 1, k)
    BY <1>3 DEF IsEntry
  <2>2. Size(queue, at) = 3 + m
    BY DEF Size
  <2>3. m \in Nat /\ (\A k : k \in Args(f) <=> k \in Nat /\ 1 <= k /\ k <= m)
    <3>1. \A g \in Functions : Len(Params(g)) \in Nat
            /\ (\A k : k \in Args(g) <=> k \in Nat /\ 1 <= k /\ k <= Len(Params(g)))
      BY ArgsAre
    <3> HIDE DEF f
    <3> QED BY <2>1, <3>1
  <2> HIDE DEF f, m
  <2> QED BY <1>2, <2>1, <2>2, <2>3
<1> HIDE DEF f, m
<1>8. Current'
  <2>1. cur' # 0 /\ at' # 0 /\ cur' < at' /\ cur' <= Len(queue') /\ issued' # 0
    BY SMTT(60), <1>2, <1>3, <1>4, <1>7
  <2>2. ASSUME NEW i \in (at + 3)..(at + 2 + m)
        PROVE  \/ queue'[i].is = "str" /\ queue'[i].of = issued'
               \/ queue'[i].is = "value"
    <3> DEFINE k == i - (at + 2)
    <3>1. k \in Args(f) /\ i = at + 2 + k
      <4>1. m \in Nat /\ at \in Nat
        BY <1>4, <1>7
      <4>2. k \in Nat /\ 1 <= k /\ k <= m /\ i = at + 2 + k
        BY <4>1
      <4> HIDE DEF k
      <4> QED BY <1>7, <4>2
    <3> HIDE DEF k
    <3>2. queue[i] = Argument(f, issued + 1, k)
      BY <1>7, <3>1
    <3>3. \/ queue[i] = [is |-> "str", of |-> issued + 1, arg |-> k]
          \/ queue[i] = [is |-> "value"]
      BY <3>2 DEF Argument
    <3> QED BY <1>2, <3>3
  <2>3. cur' + 1 = at + 3 /\ at' - 1 = at + 2 + m
    BY SMTT(60), <1>2, <1>4, <1>7
  <2>4. queue'[cur'] = [is |-> "extra", of |-> issued']
    BY <1>2
  <2> QED BY <2>1, <2>2, <2>3, <2>4 DEF Current
<1>9. Lo = at /\ Lo' = at + 2
  BY <1>2, <1>4 DEF Lo, Start
<1>10. Flags'
  <2>1. Flagged(queue, flagged, at)
    BY <1>1, <1>9 DEF Flags
  <2>2. Flagged(queue, flagged, at + 2)
    BY <1>4, <2>1 DEF Flagged
  <2> QED BY <1>2, <1>9, <2>2 DEF Flags
<1>11. Strs'
  <2>1. \A j \in 1..Len(queue) : queue[j].is = "str" => (j >= at <=> j >= at + 2)
    BY <1>4, <1>7
  <2>2. StringsIn(queue, at) = StringsIn(queue, at + 2)
    BY <2>1 DEF StringsIn
  <2> QED BY <1>1, <1>2, <1>9, <2>2 DEF Strs
<1>12. Memory'
  BY <1>1, <1>2 DEF Memory
<1>13. Extras'
  <2>1. Waiting = Waiting' \cup {issued + 1}
    BY SMTT(60), <1>2, <1>3, <1>4 DEF Waiting
  <2>2. Waiting' \cup queries' = Waiting \cup queries
    BY <1>2, <2>1
  <2> QED BY <1>1, <1>2, <2>2 DEF Extras
<1> QED BY <1>5, <1>6, <1>8, <1>10, <1>11, <1>12, <1>13 DEF IInv

LEMMA FreeArgsKeeps == ASSUME IInv, run = "up", FreeArgs PROVE IInv'
<1> SUFFICES ASSUME run' = "up" PROVE IInv'
  BY DEF IInv
<1>1. /\ Types /\ Frames /\ Current /\ Flags /\ Strs /\ Memory /\ Extras
  BY DEF IInv
<1>2. /\ cur # 0 /\ cur' = 0
      /\ copies' = copies \ {<<queue[i].of, queue[i].arg>> : i \in Freed \ {cur}}
      /\ UNCHANGED <<script, cb, queue, flagged, at, issued, made, queries, refs, addr>>
      /\ \/ UNCHANGED <<mem, strayed>>
         \/ /\ mem' = [mem EXCEPT ![addr[queue[cur].of]] = 0]
            /\ strayed' = strayed \cup {queue[cur].of}
  BY DEF FreeArgs, array
<1>3. /\ at \in Nat /\ cur \in Nat /\ Len(queue) \in Nat /\ at # 0 /\ cur < at
      /\ at <= Len(queue) + 1 /\ queue[cur].is = "extra" /\ issued \in Nat /\ made \in Nat
  BY <1>1, <1>2, LenProperties, BoundsAssumption DEF Types, Current
<1>4. Lo = cur /\ Lo' = at /\ Start' = at /\ Start = at
  BY <1>2, <1>3 DEF Lo, Start
<1>5. Types' /\ Frames' /\ Current'
  BY <1>1, <1>2, <1>4 DEF Types, Frames, Current
<1>6. Flags'
  <2>1. Flagged(queue, flagged, cur)
    BY <1>1, <1>4 DEF Flags
  <2>2. Flagged(queue, flagged, at)
    BY <1>3, <2>1 DEF Flagged
  <2> QED BY <1>2, <1>4, <2>2 DEF Flags
<1>7. Strs'
  <2>1. copies = StringsIn(queue, cur)
    BY <1>1, <1>4 DEF Strs
  <2>2. ASSUME NEW i \in Freed \ {cur}
        PROVE  queue[i].of = issued /\ i < at
    <3>1. i \in (cur + 1)..(at - 1) /\ i \in flagged /\ i \in cur..Len(queue)
      BY <1>3 DEF Freed
    <3>2. \/ queue[i].is = "str" /\ queue[i].of = issued
          \/ queue[i].is = "value"
      BY <1>1, <1>2, <3>1 DEF Current
    <3>3. queue[i].is \in {"str", "value"} => queue[i].is = "str"
      BY <1>1, <1>4, <3>1 DEF Flags, Flagged
    <3> QED BY <1>3, <3>1, <3>2, <3>3
  <2>3. ASSUME NEW j \in 1..Len(queue), queue[j].is = "str", j >= at
        PROVE  <<queue[j].of, queue[j].arg>> \in copies'
    <3>1. queue[j].of # issued
      <4>1. PICK pos : Framed(queue, pos, issued + 1, made + 1, at)
        BY <1>1, <1>4 DEF Frames
      <4>2. j \in at..Len(queue) /\ issued + 1 \in Nat /\ made + 1 \in Nat /\ at \in Nat \ {0}
        BY <1>3, <2>3
      <4>3. \E c \in (issued + 1)..((made + 1) - 1) : queue[j].of = c
        <5> DEFINE b == issued + 1
                   e == made + 1
        <5>1. /\ queue \in Seq(Items) /\ b \in Nat /\ e \in Nat
              /\ at \in Nat \ {0} /\ j \in at..Len(queue)
          BY <1>1, <4>2 DEF Types
        <5>2. Framed(queue, pos, b, e, at)
          BY <4>1
        <5> HIDE DEF b, e
        <5>3. \E c \in b..(e - 1) : PartOf(queue, pos, j, c)
          BY <5>1, <5>2, SlotOf
        <5>4. \E c \in b..(e - 1) : queue[j].of = c
          BY <2>3, <5>3 DEF PartOf
        <5> QED BY <5>4 DEF b, e
      <4> QED BY <1>3, <4>3
    <3>2. <<queue[j].of, queue[j].arg>> \in copies
      <4>1. j >= cur
        BY <1>3, <2>3
      <4> QED BY <2>1, <2>3, <4>1 DEF StringsIn
    <3> QED BY <1>2, <2>2, <3>1, <3>2
  <2>4. ASSUME NEW j \in 1..Len(queue), queue[j].is = "str", j >= cur, ~(j >= at)
        PROVE  <<queue[j].of, queue[j].arg>> \notin copies'
    <3>1. j \in cur..Len(queue) /\ j # cur /\ j \in cur..(at - 1)
      BY <1>3, <2>4
    <3>2. j \in flagged
      BY <1>1, <1>4, <2>4, <3>1 DEF Flags, Flagged
    <3>3. j \in Freed \ {cur}
      BY <3>1, <3>2 DEF Freed
    <3> QED BY <1>2, <3>3
  <2>5. copies' \subseteq StringsIn(queue, at)
    BY <1>2, <2>1, <2>4 DEF StringsIn
  <2>6. StringsIn(queue, at) \subseteq copies'
    BY <2>3 DEF StringsIn
  <2> QED BY <1>2, <1>4, <2>5, <2>6 DEF Strs
<1>8. Memory'
  <2>1. CASE UNCHANGED <<mem, strayed>>
    BY <1>1, <1>2, <2>1 DEF Memory
  <2>2. CASE mem' = [mem EXCEPT ![addr[queue[cur].of]] = 0]
    <3>1. mem \in [1..MaxCalls -> 0..MaxCalls] /\ 0 \in 0..MaxCalls
      BY <1>1, BoundsAssumption DEF Memory
    <3>2. mem' \in [1..MaxCalls -> 0..MaxCalls]
      BY <2>2, <3>1
    <3>3. \A a \in 1..MaxCalls : mem'[a] = mem[a] \/ mem'[a] = 0
      BY <2>2, <3>1
    <3> QED BY <1>1, <1>2, <3>2, <3>3 DEF Memory
  <2> QED BY <1>2, <2>1, <2>2
<1>9. Extras'
  <2>1. strayed' = {} => UNCHANGED <<mem, strayed>>
    BY <1>2
  <2> QED BY <1>1, <1>2, <2>1 DEF Extras, Waiting
<1> QED BY <1>5, <1>6, <1>7, <1>8, <1>9 DEF IInv

LEMMA EndKeeps == ASSUME IInv, run = "up", End PROVE IInv'
<1>1. /\ Types /\ Frames /\ Current /\ Flags /\ Strs /\ Memory /\ Extras
  BY DEF IInv
<1>2. /\ at > Len(queue) /\ cur = 0 /\ queue' = <<>> /\ at' = 0
      /\ UNCHANGED <<run, script, cb, flagged, cur, issued, made, queries, copies, refs, addr,
                     mem, strayed>>
  BY DEF End, control, heap
<1>3. /\ at \in Nat /\ Len(queue) \in Nat /\ queue \in Seq(Items) /\ at # 0
      /\ issued \in Nat /\ made \in Nat /\ issued <= made
  <2>1. at \in Nat /\ Len(queue) \in Nat /\ queue \in Seq(Items)
    BY <1>1, LenProperties DEF Types
  <2>2. issued \in Nat /\ made \in Nat /\ issued <= made
    BY <1>1, BoundsAssumption DEF Types
  <2> QED BY <1>2, <2>1, <2>2
<1>4. Start = at /\ Lo = at /\ Start' = 1 /\ Lo' = 1
  BY <1>2, <1>3 DEF Start, Lo
<1>5. issued + 1 = made + 1
  <2>1. PICK pos : Framed(queue, pos, issued + 1, made + 1, at)
    BY <1>1, <1>4 DEF Frames
  <2>2. issued + 1 \in Nat /\ made + 1 \in Nat /\ issued + 1 <= made + 1 /\ at \in Nat \ {0}
    BY <1>3
  <2> QED BY <1>2, <1>3, <2>1, <2>2, FramedEnds
<1>6. Types'
  <2>1. queue' \in Seq(Items) /\ Len(queue') = 0
    BY <1>2, EmptySeq
  <2> QED BY <1>1, <1>2, <2>1 DEF Types
<1>7. Frames'
  <2>1. \E pos : Framed(<<>>, pos, issued + 1, made + 1, 1)
    BY <1>3, <1>5, FramedEmpty
  <2> QED BY <1>2, <1>4, <2>1 DEF Frames
<1>8. Current'
  BY <1>2 DEF Current
<1>9. Flags' /\ Strs'
  <2>1. Flagged(<<>>, flagged, 1) /\ StringsIn(<<>>, 1) = {}
    BY DEF Flagged, StringsIn
  <2>2. StringsIn(queue, at) = {}
    BY <1>2, <1>3 DEF StringsIn
  <2> QED BY <1>1, <1>2, <1>4, <2>1, <2>2 DEF Flags, Strs
<1>10. Memory' /\ Extras'
  BY <1>1, <1>2 DEF Memory, Extras, Waiting
<1> QED BY <1>6, <1>7, <1>8, <1>9, <1>10 DEF IInv

LEMMA NextIInv == IInv /\ [Next]_vars => IInv'
<1> SUFFICES ASSUME IInv, [Next]_vars PROVE IInv'
  OBVIOUS
<1>1. CASE UNCHANGED vars
  BY <1>1 DEF vars, control, array, reading, heap, IInv, Types, Frames, Current, Flags, Strs,
              Memory, Extras, Start, Lo, Waiting
<1>2. CASE run = "up" /\ \E f \in Functions : Overflows(f)
  BY <1>2 DEF Overflows, IInv
<1> QED BY <1>1, <1>2, AcceptedKeeps, RefusedKeeps, HookKeeps, AnswerKeeps, ReturnKeeps,
           BeginKeeps, IssueKeeps, FreeArgsKeeps, EndKeeps DEF Next

LEMMA Inductive == Spec => []IInv
BY InitIInv, NextIInv, PTL DEF Spec

-----------------------------------------------------------------------------
(* What it means for the script.                                           *)

LEMMA IInvOwns == IInv => StringsHaveOneOwner
<1> SUFFICES ASSUME IInv, run = "up"
             PROVE  copies = {<<queue[i].of, queue[i].arg>> :
                      i \in {j \in DOMAIN queue : /\ queue[j].is = "str"
                                                  /\ j >= (IF cur # 0 THEN cur ELSE at)}}
  BY DEF StringsHaveOneOwner
<1>1. Types /\ copies = StringsIn(queue, Lo)
  BY DEF IInv, Strs
<1>2. DOMAIN queue = 1..Len(queue) /\ at \in Nat
  BY <1>1, LenProperties DEF Types
<1>3. \A j \in DOMAIN queue : j >= Lo <=> j >= (IF cur # 0 THEN cur ELSE at)
  BY <1>2 DEF Lo, Start
<1> QED BY <1>1, <1>2, <1>3 DEF StringsIn

\* A string that was copied for a call belongs to it until it has been made, and is
\* freed then (lua-tg.c:1388-1393, 1605-1609).
THEOREM StringsOwned == Spec => []StringsHaveOneOwner
BY Inductive, IInvOwns, PTL

LEMMA IInvExtras == IInv => CallsKeepTheirExtra
BY DEF IInv, Extras, CallsKeepTheirExtra

\* The registry holds the entries of the calls that may still be answered, and each
\* of these finds its own, until an extra is freed by a flag left over
\* (lua-tg.c:519-571, 1493-1612).
THEOREM ExtrasKept == Spec => []CallsKeepTheirExtra
BY Inductive, IInvExtras, PTL
-----------------------------------------------------------------------------
(* The array is the entries of the calls, as walking over it says.         *)

\* Some natural numbers: one is the least.
LEMMA Least ==
  ASSUME NEW T \in SUBSET Nat, T # {}
  PROVE  \E m \in T : \A k \in T : m <= k
<1>1. \E m \in T : \A k \in T : ~ (<<k, m>> \in OpToRel(<, Nat))
  BY NatLessThanWellFounded, WFMin
<1>2. PICK m \in T : \A k \in T : ~ (<<k, m>> \in OpToRel(<, Nat))
  BY <1>1
<1>3. ASSUME NEW k \in T, k < m PROVE FALSE
  <2>1. <<k, m>> \in OpToRel(<, Nat)
    BY <1>3 DEF OpToRel
  <2> QED BY <1>2, <2>1
<1>4. \A k \in T : m <= k
  BY <1>3
<1> QED BY <1>4

\* G builds a sequence from what E says is added to it, from b on.
Builds(G, E, b, n) ==
  G = [c \in 0..n |-> IF c <= b THEN <<>> ELSE G[c - 1] \o E[c]]

\* There is but one way to build it.
LEMMA BuiltOnce ==
  ASSUME NEW n \in Nat, NEW b \in Nat, NEW E, NEW G, NEW H, Builds(G, E, b, n), Builds(H, E, b, n)
  PROVE  G = H
<1> DEFINE T == {c \in 0..n : G[c] # H[c]}
<1>1. /\ \A c \in 0..n : G[c] = IF c <= b THEN <<>> ELSE G[c - 1] \o E[c]
      /\ \A c \in 0..n : H[c] = IF c <= b THEN <<>> ELSE H[c - 1] \o E[c]
      /\ G = [c \in 0..n |-> G[c]] /\ H = [c \in 0..n |-> H[c]]
  BY DEF Builds
<1>2. T = {}
  <2> SUFFICES ASSUME T # {} PROVE FALSE
    OBVIOUS
  <2>1. T \in SUBSET Nat
    OBVIOUS
  <2> HIDE DEF T
  <2>2. PICK m \in T : \A k \in T : m <= k
    BY <2>1, Least
  <2>3. m \in 0..n /\ G[m] # H[m]
    BY DEF T
  <2>4. ~ (m <= b)
    BY <1>1, <2>3
  <2>5. m - 1 \in 0..n /\ ~ (m <= m - 1)
    BY <2>3, <2>4
  <2>6. G[m - 1] = H[m - 1]
    BY <2>2, <2>5 DEF T
  <2> QED BY <1>1, <2>3, <2>4, <2>6
<1> QED BY <1>1, <1>2

\* Up to the next entry, and this.
LEMMA NextEntry ==
  ASSUME NEW q \in Seq(Items), NEW s \in Nat \ {0}, NEW i \in Nat, s <= i,
         NEW c \in 1..MaxCalls, IsEntry(q, c, i), i + Size(q, i) <= Len(q) + 1
  PROVE  SubSeq(q, s, (i + Size(q, i)) - 1) = SubSeq(q, s, i - 1) \o Entry(q[i + 1].type, c)
<1> DEFINE f == q[i + 1].type
           m == Len(Params(f))
           a == SubSeq(q, s, i - 1)
           e == Entry(f, c)
           t == SubSeq(q, s, (i + Size(q, i)) - 1)
           u == a \o e
<1>1. f \in Functions /\ Size(q, i) = 3 + m
      /\ q[i + 1] = [is |-> "type", type |-> f]
      /\ q[i] = [is |-> "num", num |-> 1 + m]
      /\ q[i + 2] = [is |-> "extra", of |-> c]
      /\ \A k \in Args(f) : q[i + 2 + k] = Argument(f, c, k)
  BY DEF IsEntry, Size
<1>2. Len(q) \in Nat /\ \A j \in 1..Len(q) : q[j] \in Items
  BY LenProperties
<1>0. s \in Nat /\ s # 0 /\ s <= i /\ i + (3 + m) <= Len(q) + 1
  BY <1>1
<1>12. t = SubSeq(q, s, i + 2 + m)
  <2> HIDE DEF f, m
  <2>1. m \in Nat
    BY <1>1, ArgsAre DEF m
  <2>2. (i + Size(q, i)) - 1 = i + 2 + m
    BY <1>1, <2>1
  <2> QED BY <2>2
<1> HIDE DEF f
<1>3. /\ m \in Nat /\ Args(f) = 1..m
      /\ \A k : k \in Args(f) <=> k \in Nat /\ 1 <= k /\ k <= m
  BY <1>1, ArgsAre
<1>4. /\ e \in Seq(Items) /\ Len(e) = 3 + m
      /\ e[1] = [is |-> "num", num |-> 1 + m] /\ e[2] = [is |-> "type", type |-> f]
      /\ e[3] = [is |-> "extra", of |-> c]
      /\ \A k \in Args(f) : e[3 + k] = Argument(f, c, k)
  BY SMTT(60), <1>1, EntryShape
<1> HIDE DEF m, e
<1>5. /\ a \in Seq(Items) /\ Len(a) = i - s
      /\ \A j \in 1..(i - s) : a[j] = q[s + j - 1]
  <2>1. \A j \in s..(i - 1) : q[j] \in Items
    BY <1>0, <1>2, <1>3
  <2>2. s \in Int /\ i - 1 \in Int /\ (i - 1) - s + 1 = i - s
    BY <1>0
  <2>3. /\ a \in Seq(Items) /\ Len(a) = IF s <= i - 1 THEN (i - 1) - s + 1 ELSE 0
        /\ \A j \in 1..((i - 1) - s + 1) : a[j] = q[s + j - 1]
    BY <2>1, <2>2, SubSeqProperties
  <2>4. (IF s <= i - 1 THEN (i - 1) - s + 1 ELSE 0) = i - s
    BY <1>0
  <2> QED BY <2>2, <2>3, <2>4
<1>6. /\ t \in Seq(Items) /\ Len(t) = (i - s) + 3 + m
      /\ \A j \in 1..((i - s) + 3 + m) : t[j] = q[s + j - 1]
  <2>1. \A j \in s..(i + 2 + m) : q[j] \in Items
    BY <1>0, <1>2, <1>3
  <2>2. s \in Int /\ i + 2 + m \in Int /\ (i + 2 + m) - s + 1 = (i - s) + 3 + m
        /\ s <= i + 2 + m
    BY <1>0, <1>3
  <2> HIDE DEF t
  <2>3. /\ t \in Seq(Items)
        /\ Len(t) = IF s <= i + 2 + m THEN (i + 2 + m) - s + 1 ELSE 0
        /\ \A j \in 1..((i + 2 + m) - s + 1) : t[j] = q[s + j - 1]
    BY SMTT(60), <1>12, <2>1, <2>2, SubSeqProperties
  <2> QED BY <2>2, <2>3
<1> HIDE DEF a, t
<1>7. /\ u \in Seq(Items) /\ Len(u) = (i - s) + (3 + m)
      /\ \A j \in 1..((i - s) + (3 + m)) :
           u[j] = IF j <= i - s THEN a[j] ELSE e[j - (i - s)]
  BY SMTT(60), <1>4, <1>5, ConcatProperties
<1> HIDE DEF u
<1>8. (i - s) + 3 + m = (i - s) + (3 + m)
  BY <1>0, <1>3
<1>9. ASSUME NEW j \in 1..((i - s) + (3 + m)) PROVE u[j] = t[j]
  <2>1. t[j] = q[s + j - 1]
    BY <1>6, <1>8
  <2>2. CASE j <= i - s
    <3>1. j \in 1..(i - s)
      BY <1>0, <2>2
    <3> QED BY <1>5, <1>7, <2>1, <2>2, <3>1
  <2>3. CASE ~ (j <= i - s)
    <3> DEFINE k == j - (i - s)
    <3>1. k \in 1..(3 + m) /\ s + j - 1 = i + (k - 1)
      BY <1>0, <1>3, <2>3
    <3>2. u[j] = e[k]
      BY <1>7, <2>3
    <3>3. t[j] = q[i + (k - 1)]
      BY <2>1, <3>1
    <3> HIDE DEF k
    <3>4. CASE k = 1
      <4>1. i + (k - 1) = i
        BY <1>0, <3>4
      <4> QED BY <1>1, <1>4, <3>2, <3>3, <3>4, <4>1 DEF m
    <3>5. CASE k = 2
      <4>1. i + (k - 1) = i + 1
        BY <1>0, <3>5
      <4> QED BY <1>1, <1>4, <3>2, <3>3, <3>5, <4>1
    <3>6. CASE k = 3
      <4>1. i + (k - 1) = i + 2
        BY <1>0, <3>6
      <4> QED BY <1>1, <1>4, <3>2, <3>3, <3>6, <4>1
    <3>7. CASE k > 3
      <4>1. k - 3 \in Args(f) /\ i + 2 + (k - 3) = i + (k - 1) /\ 3 + (k - 3) = k
        BY <1>0, <1>3, <3>1, <3>7
      <4>2. q[i + 2 + (k - 3)] = Argument(f, c, k - 3) /\ e[3 + (k - 3)] = Argument(f, c, k - 3)
        BY <1>1, <1>4, <4>1
      <4> QED BY <3>2, <3>3, <4>1, <4>2
    <3>8. k = 1 \/ k = 2 \/ k = 3 \/ k > 3
      BY <1>3, <3>1
    <3> QED BY <3>4, <3>5, <3>6, <3>7, <3>8
  <2> QED BY <2>2, <2>3
<1>10. Len(u) = Len(t) /\ \A j \in 1..Len(u) : u[j] = t[j]
  BY <1>6, <1>7, <1>8, <1>9
<1>11. u = t
  BY <1>6, <1>7, <1>10, SeqEqual
<1> QED BY <1>11 DEF u, t, a, e, f

\* Where the entry of a call is.
LEMMA FramedPlace ==
  ASSUME NEW q \in Seq(Items), NEW pos, NEW b \in Nat, NEW e \in Nat, NEW s \in Nat \ {0},
         Framed(q, pos, b, e, s), NEW c \in b..(e - 1)
  PROVE  /\ pos[c] \in Nat /\ s <= pos[c] /\ IsEntry(q, c, pos[c])
         /\ pos[c + 1] = pos[c] + Size(q, pos[c]) /\ pos[c] + Size(q, pos[c]) <= Len(q) + 1
         /\ pos[c] + 2 \in (s + 2)..Len(q)
<1>1. /\ pos \in [Nat -> Nat] /\ pos[b] = s /\ pos[e] = Len(q) + 1 /\ Len(q) \in Nat
      /\ \A x, y \in b..e : x < y => pos[x] + 3 <= pos[y]
      /\ IsEntry(q, c, pos[c]) /\ pos[c + 1] = pos[c] + Size(q, pos[c])
  BY LenProperties DEF Framed
<1>2. /\ c \in Nat /\ c + 1 \in Nat /\ b \in b..e /\ c \in b..e /\ c + 1 \in b..e /\ e \in b..e
      /\ c < c + 1 /\ (b < c \/ b = c) /\ (c + 1 < e \/ c + 1 = e)
  OBVIOUS
<1> DEFINE p == pos[c]
           n == pos[c + 1]
           l == Len(q)
<1>3. p \in Nat /\ n \in Nat /\ l \in Nat
  BY <1>1, <1>2
<1>4. (s + 3 <= p \/ s = p) /\ p + 3 <= n /\ (n + 3 <= l + 1 \/ n = l + 1)
  BY <1>1, <1>2
<1>5. n = p + Size(q, p)
  BY <1>1
<1> HIDE DEF p, n, l
<1>6. s <= p /\ n <= l + 1 /\ p + 2 \in (s + 2)..l
  BY <1>3, <1>4
<1> QED BY <1>1, <1>3, <1>5, <1>6 DEF p, n, l

\* The function of a call that has not been made.
LEMMA NamedIs ==
  ASSUME queue \in Seq(Items), Start \in Nat \ {0}, issued \in Nat, made \in Nat,
         NEW pos, Framed(queue, pos, issued + 1, made + 1, Start), NEW c \in (issued + 1)..made
  PROVE  Named(c) = queue[pos[c] + 1].type
<1> DEFINE b == issued + 1
           e == made + 1
           f == queue[pos[c] + 1].type
<1>1. b \in Nat /\ e \in Nat /\ c \in b..(e - 1)
  OBVIOUS
<1>2. Framed(queue, pos, b, e, Start)
  OBVIOUS
<1> HIDE DEF b, e
<1>3. /\ pos[c] \in Nat /\ Start <= pos[c] /\ IsEntry(queue, c, pos[c])
      /\ pos[c] + 2 \in (Start + 2)..Len(queue)
  BY <1>1, <1>2, FramedPlace
<1>4. f \in Functions /\ queue[pos[c] + 2] = [is |-> "extra", of |-> c]
      /\ (pos[c] + 2) - 1 = pos[c] + 1
  BY SMTT(60), <1>3 DEF IsEntry
<1>5. ASSUME NEW i \in (Start + 2)..Len(queue), queue[i] = [is |-> "extra", of |-> c]
      PROVE  queue[i - 1].type = f
  <2>1. i \in Start..Len(queue)
    OBVIOUS
  <2>2. PICK d \in b..(e - 1) : PartOf(queue, pos, i, d)
    BY <1>1, <1>2, <2>1, SlotOf
  <2>3. queue[i].is = "extra" /\ queue[i].of = c
    BY <1>5
  <2>4. c = d /\ i = pos[c] + 2
    BY <2>2, <2>3 DEF PartOf
  <2> QED BY <1>4, <2>4
<1>6. \E i \in (Start + 2)..Len(queue) :
        queue[i] = [is |-> "extra", of |-> c] /\ queue[i - 1].type = f
  BY <1>3, <1>4
<1> HIDE DEF f
<1>7. Named(c) = f
  BY <1>4, <1>5, <1>6 DEF Named
<1> QED BY <1>7 DEF f

LEMMA IInvFramed == IInv => QueueIsFramed
<1> SUFFICES ASSUME IInv, run = "up"
             PROVE  SubSeq(queue, Start, Len(queue)) = EntriesTo[made]
  BY DEF QueueIsFramed
<1>1. /\ queue \in Seq(Items) /\ Start \in Nat \ {0} /\ made \in 0..MaxCalls /\ issued \in Nat
      /\ made \in Nat /\ issued <= made /\ Len(queue) \in Nat
  BY LenProperties, BoundsAssumption DEF IInv, Types, Start
<1>2. PICK pos : Framed(queue, pos, issued + 1, made + 1, Start)
  BY DEF IInv, Frames
<1> DEFINE E == [c \in 0..made |-> Entry(Named(c), c)]
           H == [c \in 0..made |-> IF c <= issued THEN <<>>
                                   ELSE SubSeq(queue, Start, pos[c + 1] - 1)]
<1>3. pos[issued + 1] = Start /\ pos[made + 1] = Len(queue) + 1
  BY <1>2 DEF Framed
<1>4. SubSeq(queue, Start, pos[issued + 1] - 1) = <<>>
  BY <1>1, <1>3, SubSeqEmpty
<1>5. ASSUME NEW c \in (issued + 1)..made
      PROVE  SubSeq(queue, Start, pos[c + 1] - 1)
               = SubSeq(queue, Start, pos[c] - 1) \o Entry(Named(c), c)
  <2> DEFINE b == issued + 1
             e == made + 1
  <2>1. b \in Nat /\ e \in Nat /\ c \in b..(e - 1) /\ c \in 1..MaxCalls
        /\ Framed(queue, pos, b, e, Start)
    <3> HIDE DEF E, H
    <3>1. MaxCalls \in Nat
      BY BoundsAssumption
    <3> QED BY <1>1, <1>2, <3>1
  <2> HIDE DEF b, e
  <2>2. /\ pos[c] \in Nat /\ Start <= pos[c] /\ IsEntry(queue, c, pos[c])
        /\ pos[c + 1] = pos[c] + Size(queue, pos[c])
        /\ pos[c] + Size(queue, pos[c]) <= Len(queue) + 1
    BY <1>1, <2>1, FramedPlace
  <2>3. SubSeq(queue, Start, (pos[c] + Size(queue, pos[c])) - 1)
          = SubSeq(queue, Start, pos[c] - 1) \o Entry(queue[pos[c] + 1].type, c)
    BY ZenonT(60), <1>1, <2>1, <2>2, NextEntry
  <2>4. Named(c) = queue[pos[c] + 1].type
    BY <1>1, <1>2, NamedIs
  <2> QED BY <2>2, <2>3, <2>4
<1>6. Builds(H, E, issued, made)
  <2>1. ASSUME NEW c \in 0..made, ~ (c <= issued)
        PROVE  H[c] = H[c - 1] \o E[c]
    <3>1. c \in (issued + 1)..made /\ c - 1 \in 0..made /\ (c - 1) + 1 = c
          /\ (c - 1 <= issued => c = issued + 1)
      BY <1>1, <2>1
    <3>2. H[c] = SubSeq(queue, Start, pos[c + 1] - 1) /\ E[c] = Entry(Named(c), c)
      BY <2>1
    <3>3. H[c - 1] = SubSeq(queue, Start, pos[c] - 1)
      <4>1. H[c - 1] = IF c - 1 <= issued THEN <<>>
                       ELSE SubSeq(queue, Start, pos[(c - 1) + 1] - 1)
        BY <3>1
      <4> HIDE DEF H
      <4> QED BY <1>4, <3>1, <4>1
    <3> HIDE DEF H, E
    <3> QED BY <1>5, <3>1, <3>2, <3>3
  <2>2. \A c \in 0..made : H[c] = IF c <= issued THEN <<>> ELSE H[c - 1] \o E[c]
    <3>1. \A c \in 0..made : c <= issued => H[c] = <<>>
      OBVIOUS
    <3> HIDE DEF H, E
    <3> QED BY <2>1, <3>1
  <2>3. H = [c \in 0..made |-> H[c]]
    OBVIOUS
  <2> HIDE DEF H, E
  <2> QED BY <2>2, <2>3 DEF Builds
<1>7. EntriesTo = CHOOSE g : Builds(g, E, issued, made)
  <2>1. ASSUME NEW g
        PROVE  [c \in 0..made |-> IF c <= issued THEN <<>> ELSE g[c - 1] \o Entry(Named(c), c)]
               = [c \in 0..made |-> IF c <= issued THEN <<>> ELSE g[c - 1] \o E[c]]
    OBVIOUS
  <2> HIDE DEF E
  <2> QED BY <2>1 DEF EntriesTo, Builds
<1> HIDE DEF E
<1>8. Builds(EntriesTo, E, issued, made)
  <2> HIDE DEF H
  <2> QED BY <1>6, <1>7
<1>9. EntriesTo = H
  <2> HIDE DEF H
  <2> QED BY <1>1, <1>6, <1>8, BuiltOnce
<1>10. EntriesTo[made] = IF made <= issued THEN <<>>
                         ELSE SubSeq(queue, Start, pos[made + 1] - 1)
  BY <1>1, <1>9
<1>11. pos[made + 1] - 1 = Len(queue)
  BY <1>1, <1>3
<1>12. made <= issued => made = issued
  BY <1>1
<1> QED BY <1>4, <1>10, <1>11, <1>12

\* From where lua_do_all reads on, the array is the entries of the calls it has not
\* made and nothing else, whatever was refused and appended in between
\* (lua-tg.c:1145-1398, 1493-1612).
THEOREM QueueFramed == Spec => []QueueIsFramed
BY Inductive, IInvFramed, PTL

-----------------------------------------------------------------------------
(* The calls are made in order.                                            *)

\* The entry of each call that has not been made is there.
LEMMA FramedHas ==
  ASSUME NEW q \in Seq(Items), NEW pos, NEW b \in Nat, NEW e \in Nat, NEW s \in Nat \ {0},
         Framed(q, pos, b, e, s), NEW c \in b..(e - 1)
  PROVE  \E i \in s..Len(q) : q[i] = [is |-> "extra", of |-> c]
<1>1. /\ pos \in [Nat -> Nat] /\ pos[b] = s /\ pos[e] = Len(q) + 1
      /\ \A x, y \in b..e : x < y => pos[x] + 3 <= pos[y]
  BY DEF Framed
<1>2. q[pos[c] + 2] = [is |-> "extra", of |-> c]
  BY DEF Framed, IsEntry
<1>3. Len(q) \in Nat
  BY LenProperties
<1>4. pos[c] \in Nat /\ pos[b] <= pos[c] /\ pos[c] + 3 <= pos[e]
  <2>1. c \in Nat /\ b \in b..e /\ c \in b..e /\ e \in b..e /\ c < e /\ (b < c \/ b = c)
    OBVIOUS
  <2>2. pos[b] \in Nat /\ pos[c] \in Nat
    BY <1>1, <2>1
  <2>3. b < c => pos[b] + 3 <= pos[c]
    BY <1>1, <2>1
  <2>4. pos[c] + 3 <= pos[e]
    BY <1>1, <2>1
  <2> QED BY <2>1, <2>2, <2>3, <2>4
<1>5. pos[c] + 2 \in s..Len(q)
  <2> DEFINE p == pos[c]
             n == Len(q)
  <2>1. p \in Nat /\ s <= p /\ p + 3 <= n + 1 /\ n \in Nat
    BY <1>1, <1>3, <1>4
  <2> HIDE DEF p, n
  <2>2. p + 2 \in s..n
    BY <2>1
  <2> QED BY <2>2 DEF p, n
<1> QED BY <1>2, <1>5

LEMMA UnreadIs == ASSUME IInv, run = "up" PROVE Unread = Waiting
<1>1. Types /\ Frames
  BY DEF IInv
<1> DEFINE b == issued + 1
           e == made + 1
<1>2. /\ queue \in Seq(Items) /\ b \in Nat /\ e \in Nat /\ Start \in Nat \ {0} /\ at \in Nat
      /\ Len(queue) \in Nat /\ DOMAIN queue = 1..Len(queue) /\ made \in Nat
  BY <1>1, LenProperties, BoundsAssumption DEF Types, Start
<1>3. PICK pos : Framed(queue, pos, b, e, Start)
  BY <1>1 DEF Frames
<1>4. b..(e - 1) = Waiting
  BY <1>2 DEF Waiting
<1>5. \A i : i \in Start..Len(queue) <=> i \in DOMAIN queue /\ i >= at
  BY <1>2 DEF Start
<1> HIDE DEF b, e
<1>6. ASSUME NEW i \in DOMAIN queue, i >= at, queue[i].is = "extra"
      PROVE  queue[i].of \in Waiting
  <2>1. i \in Start..Len(queue)
    BY <1>5, <1>6
  <2>2. \E c \in b..(e - 1) : PartOf(queue, pos, i, c)
    BY <1>2, <1>3, <2>1, SlotOf
  <2> QED BY <1>4, <1>6, <2>2 DEF PartOf
<1>7. ASSUME NEW c \in Waiting
      PROVE  \E i \in DOMAIN queue : i >= at /\ queue[i] = [is |-> "extra", of |-> c]
  <2>1. c \in b..(e - 1)
    BY <1>4
  <2>2. \E i \in Start..Len(queue) : queue[i] = [is |-> "extra", of |-> c]
    BY <1>2, <1>3, <2>1, FramedHas
  <2> QED BY <1>5, <2>2
<1>8. Unread \subseteq Waiting
  BY <1>6 DEF Unread
<1>9. ASSUME NEW c \in Waiting PROVE c \in Unread
  <2>1. PICK i \in DOMAIN queue : i >= at /\ queue[i] = [is |-> "extra", of |-> c]
    BY <1>7
  <2>2. queue[i].is = "extra" /\ queue[i].of = c
    BY <2>1
  <2> QED BY <2>1, <2>2 DEF Unread
<1> QED BY <1>8, <1>9

\* What has become of the calls, by what has been made and answered.
FateBy(m, n, answers) ==
  [c \in 1..m |-> IF c > n THEN "waiting" ELSE IF c \in answers THEN "made" ELSE "answered"]

LEMMA FateIs == IInv /\ run = "up" => Fate = FateBy(made, issued, queries)
<1> SUFFICES ASSUME IInv, run = "up" PROVE Fate = FateBy(made, issued, queries)
  OBVIOUS
<1>1. Unread = Waiting
  BY UnreadIs
<1>2. made \in Nat /\ issued \in Nat
  BY BoundsAssumption DEF IInv, Types
<1>3. \A c \in 1..made : c \in Unread <=> c > issued
  BY <1>1, <1>2 DEF Waiting
<1> QED BY <1>3 DEF Fate, FateBy

LEMMA FateTypes ==
  ASSUME NEW m \in Nat, NEW n \in Nat, NEW answers
  PROVE  FateBy(m, n, answers) \in Seq(Calls!Fates) /\ Len(FateBy(m, n, answers)) = m
<1>1. FateBy(m, n, answers) \in [1..m -> Calls!Fates]
  BY DEF FateBy, Calls!Fates
<1> QED BY <1>1

LEMMA FateAccepts ==
  ASSUME NEW m \in Nat, NEW n \in Nat, n <= m, NEW answers
  PROVE  FateBy(m + 1, n, answers) = Append(FateBy(m, n, answers), "waiting")
<1> DEFINE s == FateBy(m, n, answers)
<1>1. s \in Seq(Calls!Fates) /\ Len(s) = m
  BY FateTypes
<1>2. \A c \in 1..m : s[c] = IF c > n THEN "waiting" ELSE IF c \in answers THEN "made" ELSE "answered"
  BY DEF FateBy
<1> HIDE DEF s
<1>3. Append(s, "waiting") = [c \in 1..(m + 1) |-> IF c <= m THEN s[c] ELSE "waiting"]
  <2>1. "waiting" \in Calls!Fates
    BY DEF Calls!Fates
  <2>2. /\ Append(s, "waiting") \in Seq(Calls!Fates) /\ Len(Append(s, "waiting")) = m + 1
        /\ \A c \in 1..m : Append(s, "waiting")[c] = s[c]
        /\ Append(s, "waiting")[m + 1] = "waiting"
    BY <1>1, <2>1, AppendProperties
  <2> DEFINE t == Append(s, "waiting")
  <2>3. t = [c \in 1..(m + 1) |-> t[c]]
    <3>1. t \in Seq(Calls!Fates) /\ Len(t) = m + 1
      BY <2>2
    <3> HIDE DEF t
    <3>2. t \in [1..(m + 1) -> Calls!Fates]
      BY <3>1, LenProperties
    <3> QED BY <3>2
  <2>4. \A c \in 1..(m + 1) : t[c] = IF c <= m THEN s[c] ELSE "waiting"
    BY <2>2
  <2> HIDE DEF t
  <2> QED BY <2>3, <2>4 DEF t
<1> QED BY <1>2, <1>3 DEF FateBy, s

\* A step that makes no call and ends none leaves their fates.
LEMMA FateStays ==
  ASSUME IInv, run = "up", IInv', UNCHANGED <<made, issued, queries>>,
         run' = "up" \/ UNCHANGED <<queue, at>>
  PROVE  UNCHANGED Fate
<1>1. CASE UNCHANGED <<queue, at>>
  BY <1>1 DEF Fate, Unread
<1>2. CASE run' = "up"
  <2>1. Fate = FateBy(made, issued, queries)
    BY FateIs
  <2>2. (IInv /\ run = "up")'
    BY <1>2
  <2>3. (Fate = FateBy(made, issued, queries))'
    BY <2>2, FateIs, PTL
  <2> QED BY <2>1, <2>3 DEF FateBy
<1> QED BY <1>1, <1>2

\* The next call is made.
LEMMA FateMakes ==
  ASSUME NEW m \in Nat, NEW n \in Nat, n < m, NEW answers \in SUBSET (1..n)
  PROVE  FateBy(m, n + 1, answers \cup {n + 1}) = [FateBy(m, n, answers) EXCEPT ![n + 1] = "made"]
<1> DEFINE s == FateBy(m, n, answers)
           t == FateBy(m, n + 1, answers \cup {n + 1})
           u == [s EXCEPT ![n + 1] = "made"]
<1>1. \A c \in 1..m : c > n <=> c > n + 1 \/ c = n + 1
  OBVIOUS
<1>2. ~(n + 1 > n + 1)
  OBVIOUS
<1>3. u = [c \in 1..m |-> IF c = n + 1 THEN "made" ELSE s[c]]
  BY DEF FateBy
<1>4. \A c \in 1..m : t[c] = IF c = n + 1 THEN "made" ELSE s[c]
  BY <1>1, <1>2 DEF FateBy
<1>5. t = [c \in 1..m |-> t[c]]
  BY DEF FateBy
<1> HIDE DEF s, t, u
<1>6. t = u
  BY <1>3, <1>4, <1>5
<1> QED BY <1>6 DEF s, t, u

\* One that was made is answered.
LEMMA FateAnswers ==
  ASSUME NEW m \in Nat, NEW n \in Nat, n <= m, NEW answers, NEW c \in 1..n, c \in answers
  PROVE  /\ c \in 1..m /\ FateBy(m, n, answers)[c] = "made"
         /\ FateBy(m, n, answers \ {c}) = [FateBy(m, n, answers) EXCEPT ![c] = "answered"]
<1>1. c \in 1..m /\ ~(c > n)
  OBVIOUS
<1> QED BY <1>1 DEF FateBy

LEMMA FateInit == Init => Calls!Init
<1> SUFFICES ASSUME Init PROVE Fate = <<>>
  BY DEF Calls!Init
<1>1. made = 0
  BY DEF Init
<1>2. 1..made = {}
  BY <1>1
<1> QED BY <1>2 DEF Fate

LEMMA FateNext == IInv /\ IInv' /\ [Next]_vars => [Calls!Next]_Fate
<1> SUFFICES ASSUME IInv, IInv', [Next]_vars PROVE [Calls!Next]_Fate
  OBVIOUS
<1>1. CASE UNCHANGED vars
  BY <1>1 DEF vars, array, reading, Fate, Unread
<1>2. CASE Next
  <2> SUFFICES ASSUME run = "up" PROVE [Calls!Next]_Fate
    BY <1>2 DEF Next
  <2> DEFINE m == made
             n == issued
  <2>1. /\ m \in Nat /\ n \in Nat /\ n <= m /\ queries \in SUBSET (1..n)
        /\ Fate = FateBy(m, n, queries) /\ DOMAIN Fate = 1..m
    <3>1. Fate = FateBy(m, n, queries)
      BY FateIs
    <3> QED BY <3>1, BoundsAssumption DEF IInv, Types, FateBy
  <2>2. run' = "up" => (Fate = FateBy(made, issued, queries))'
    <3>1. (run = "up")' => (IInv /\ run = "up")'
      OBVIOUS
    <3>2. (run = "up")' => (Fate = FateBy(made, issued, queries))'
      BY <3>1, FateIs, PTL
    <3> QED BY <3>2
  <2> HIDE DEF m, n
  <2>3. ASSUME NEW f \in Functions, Accepted(f) PROVE Calls!Next
    <3>1. made' = m + 1 /\ run' = run /\ issued' = n /\ queries' = queries
      BY <2>3 DEF Accepted, control, reading, m, n
    <3>2. Fate' = FateBy(m + 1, n, queries)
      BY <2>2, <3>1 DEF FateBy
    <3>3. Fate' = Append(Fate, "waiting")
      BY <2>1, <3>2, FateAccepts
    <3> QED BY <3>3 DEF Calls!Next, Calls!Accept
  <2>4. CASE Issue /\ run' = "up"
    <3>1. made' = m /\ issued' = n + 1 /\ queries' = queries \cup {n + 1} /\ n < m
      <4>1. at # 0 /\ at <= Len(queue) /\ Types /\ Frames
        BY <2>4, IssueIs DEF IInv
      <4> QED BY <2>4, <4>1, IssueIs, TurnIs DEF m, n
    <3>2. Fate' = FateBy(m, n + 1, queries \cup {n + 1})
      BY <2>2, <2>4, <3>1 DEF FateBy
    <3>3. Fate' = [Fate EXCEPT ![n + 1] = "made"]
      BY ZenonT(60), <2>1, <3>1, <3>2, FateMakes
    <3>4. n + 1 \in DOMAIN Fate /\ Fate[n + 1] = "waiting"
          /\ \A b \in 1..((n + 1) - 1) : Fate[b] # "waiting"
      BY <2>1, <3>1 DEF FateBy
    <3> QED BY <3>3, <3>4 DEF Calls!Next, Calls!Make, Calls!HasTurn
  <2>5. ASSUME NEW c \in 1..MaxCalls, Answer(c) PROVE Calls!Next
    <3>1. c \in queries /\ queries' = queries \ {c}
          /\ UNCHANGED <<queue, at, made, issued>>
      BY <2>5 DEF Answer, array, reading
    <3>2. Unread' = Unread /\ Unread = Waiting
      BY <3>1, UnreadIs DEF Unread
    <3>3. Fate' = FateBy(m, n, queries \ {c})
      <4>1. \A d \in 1..m : d \in Unread <=> d > n
        BY <2>1, <3>2 DEF Waiting, m, n
      <4> QED BY <3>1, <3>2, <4>1 DEF Fate, FateBy, m
    <3>4. c \in DOMAIN Fate /\ Fate[c] = "made" /\ Fate' = [Fate EXCEPT ![c] = "answered"]
      <4>1. /\ c \in 1..m /\ FateBy(m, n, queries)[c] = "made"
            /\ FateBy(m, n, queries \ {c}) = [FateBy(m, n, queries) EXCEPT ![c] = "answered"]
        <5>1. c \in 1..n /\ c \in queries
          BY <2>1, <3>1
        <5>2. m \in Nat /\ n \in Nat /\ n <= m
          BY <2>1
        <5> QED BY <5>1, <5>2, FateAnswers
      <4> QED BY <2>1, <3>3, <4>1
    <3> QED BY <3>4 DEF Calls!Next, Calls!Answer
  <2>6. CASE Issue /\ run' # "up"
    BY <2>6, FateStays DEF Issue, array
  <2>7. CASE FreeArgs
    <3>1. UNCHANGED <<made, issued, queries>> /\ UNCHANGED <<queue, at>>
      BY <2>7 DEF FreeArgs, array
    <3> QED BY <3>1, FateStays
  <2>8. ASSUME NEW f \in Functions, NEW bad \in SUBSET Args(f), Refused(f, bad)
        PROVE  UNCHANGED Fate
    BY <2>8, FateStays DEF Refused, control, reading
  <2>9. ASSUME NEW f \in Functions, Overflows(f) PROVE UNCHANGED Fate
    BY <2>9, FateStays DEF Overflows, array, reading
  <2>10. CASE Hook \/ Return
    BY <2>10, FateStays DEF Hook, Return, array, reading
  <2>11. CASE Begin \/ End
    <3>1. run' = "up" /\ UNCHANGED <<made, issued, queries>>
      BY <2>11 DEF Begin, End, control
    <3> QED BY <3>1, FateStays
  <2> QED BY <1>2, <2>3, <2>4, <2>5, <2>6, <2>7, <2>8, <2>9, <2>10, <2>11 DEF Next
<1> QED BY <1>1, <1>2

\* Calls are made in the order in which the script made them, once each, and each is
\* answered at most once, whatever is refused in between and though callbacks append
\* while lua_do_all reads (lua-tg.c:1145-1398).
THEOREM CallsInOrder == Spec => ImplementsCalls
<1>1. Init => Calls!Init
  BY FateInit
<1>2. IInv /\ IInv' /\ [Next]_vars => [Calls!Next]_Fate
  BY FateNext
<1> QED BY <1>1, <1>2, Inductive, PTL DEF Spec, ImplementsCalls, Calls!Spec
=============================================================================
