---------------------------- MODULE TgFilesProofs ----------------------------
(***************************************************************************)
(* Proofs about TgFiles, for any chats, names, updates and bounds: a file  *)
(* that was not cut is read back as it was saved, though it is written     *)
(* over, in place, while it is read and may hold what is left of a longer  *)
(* list, unless the names made anew have grown over what is still to be    *)
(* read; and so no update is skipped and no number is used again after a   *)
(* restart.                                                                *)
(*                                                                         *)
(* The first part is about the layout: FlattenSeq, joined up with Joins,   *)
(* puts the entries of the chats one behind another, and those of the      *)
(* first chats (First) before those of the rest, which are still there     *)
(* (Unread) after a save that ends before them.  The second part is the    *)
(* inductive invariant IInv.                                               *)
(***************************************************************************)
EXTENDS TgFiles, SequenceTheorems, FiniteSetTheorems, WellFoundedInduction, TLAPS

-----------------------------------------------------------------------------
(* Sequences, one after another.                                           *)

\* Some natural numbers: one is the least.
LEMMA Least ==
  ASSUME NEW T \in SUBSET Nat, T # {}
  PROVE  \E m \in T : \A k \in T : m <= k
<1>1. \E m \in T : \A k \in T : ~ (<<k, m>> \in OpToRel(<, Nat))
  BY NatLessThanWellFounded, WFMin
<1>2. PICK m \in T : \A k \in T : ~ (<<k, m>> \in OpToRel(<, Nat))
  BY <1>1
<1>3. ASSUME NEW k \in T, k < m PROVE FALSE
  <2>1. <<k, m>> \in OpToRel(<, Nat)
    BY <1>3 DEF OpToRel
  <2> QED BY <1>2, <2>1
<1>4. \A k \in T : m <= k
  BY <1>3
<1> QED BY <1>4

\* G is what there is of the sequences in s after each of the first n.
Joins(G, s, n) == G = [i \in 0..n |-> IF i = 0 THEN <<>> ELSE G[i - 1] \o s[i]]

LEMMA JoinsStep ==
  ASSUME NEW n \in Nat, NEW s, NEW G, Joins(G, s, n)
  PROVE  G[0] = <<>> /\ \A i \in 1..n : G[i] = G[i - 1] \o s[i]
<1>1. \A i \in 0..n : G[i] = IF i = 0 THEN <<>> ELSE G[i - 1] \o s[i]
  BY DEF Joins
<1>2. G[0] = <<>>
  BY <1>1
<1>3. \A i \in 1..n : i \in 0..n /\ i # 0
  OBVIOUS
<1> QED BY <1>1, <1>2, <1>3

LEMMA JoinsExists == ASSUME NEW s, NEW n \in Nat PROVE \E G : Joins(G, s, n)
<1> DEFINE T == {k \in Nat : ~ \E G : Joins(G, s, k)}
<1>1. T = {}
  <2> SUFFICES ASSUME T # {} PROVE FALSE
    OBVIOUS
  <2> HIDE DEF T
  <2>1. PICK m \in T : \A k \in T : m <= k
    BY Least DEF T
  <2>2. m \in Nat /\ ~ \E G : Joins(G, s, m)
    BY DEF T
  <2>3. m # 0
    <3> SUFFICES ASSUME m = 0 PROVE FALSE
      OBVIOUS
    <3> DEFINE G == [i \in 0..0 |-> <<>>]
    <3>1. G = [i \in 0..0 |-> IF i = 0 THEN <<>> ELSE G[i - 1] \o s[i]]
      OBVIOUS
    <3>2. Joins(G, s, 0)
      BY <3>1 DEF Joins
    <3> QED BY <2>2, <3>2
  <2>4. m - 1 \in Nat /\ ~ (m <= m - 1)
    BY <2>2, <2>3
  <2>5. PICK G : Joins(G, s, m - 1)
    BY <2>1, <2>4 DEF T
  <2> DEFINE l == G[m - 1] \o s[m]
             H == [i \in 0..m |-> IF i = m THEN l ELSE G[i]]
  <2>6. G[0] = <<>> /\ \A i \in 1..(m - 1) : G[i] = G[i - 1] \o s[i]
    BY ZenonT(60), <2>4, <2>5, JoinsStep
  <2>7. \A i \in 0..m : H[i] = IF i = m THEN l ELSE G[i]
    OBVIOUS
  <2> HIDE DEF H
  <2>8. \A i \in 0..m : H[i] = IF i = 0 THEN <<>> ELSE H[i - 1] \o s[i]
    <3> SUFFICES ASSUME NEW i \in 0..m
                 PROVE  H[i] = IF i = 0 THEN <<>> ELSE H[i - 1] \o s[i]
      OBVIOUS
    <3>1. CASE i = 0
      BY <2>2, <2>3, <2>6, <2>7, <3>1
    <3>2. CASE i = m
      <4>1. m - 1 \in 0..m /\ m - 1 # m
        BY <2>2, <2>4
      <4> QED BY <2>3, <2>7, <3>2, <4>1
    <3>3. CASE i # 0 /\ i # m
      <4>1. i \in 1..(m - 1) /\ i - 1 \in 0..m /\ i - 1 # m
        BY <2>2, <3>3
      <4> QED BY <2>6, <2>7, <3>3, <4>1
    <3> QED BY <3>1, <3>2, <3>3
  <2>9. H = [i \in 0..m |-> H[i]]
    BY DEF H
  <2>10. Joins(H, s, m)
    <3> HIDE DEF l
    <3> QED BY <2>8, <2>9 DEF Joins
  <2> QED BY <2>2, <2>10
<1> QED BY <1>1

LEMMA JoinsOnce ==
  ASSUME NEW n \in Nat, NEW s, NEW t, NEW G, NEW H, Joins(G, s, n), NEW m \in Nat, Joins(H, t, m),
         NEW i \in 0..n, i <= m, \A j \in 1..i : s[j] = t[j]
  PROVE  G[i] = H[i]
<1> DEFINE T == {k \in 0..i : G[k] # H[k]}
<1>1. T = {}
  <2> SUFFICES ASSUME T # {} PROVE FALSE
    OBVIOUS
  <2>1. T \in SUBSET Nat
    OBVIOUS
  <2> HIDE DEF T
  <2>2. PICK k \in T : \A j \in T : k <= j
    BY <2>1, Least
  <2>3. k \in 0..i /\ G[k] # H[k]
    BY DEF T
  <2>4. G[0] = H[0]
    BY JoinsStep
  <2>5. k \in 1..n /\ k \in 1..m /\ k \in 1..i /\ k - 1 \in 0..i /\ ~ (k <= k - 1)
    BY <2>3, <2>4
  <2>6. G[k - 1] = H[k - 1]
    BY <2>2, <2>5 DEF T
  <2>7. /\ \A j \in 1..n : G[j] = G[j - 1] \o s[j]
        /\ \A j \in 1..m : H[j] = H[j - 1] \o t[j]
    BY ZenonT(60), JoinsStep
  <2> QED BY <2>3, <2>5, <2>6, <2>7
<1>2. i \in 0..i
  OBVIOUS
<1> QED BY <1>1, <1>2

LEMMA JoinsType ==
  ASSUME NEW S, NEW n \in Nat, NEW s, \A i \in 1..n : s[i] \in Seq(S), NEW G, Joins(G, s, n)
  PROVE  \A i \in 0..n : G[i] \in Seq(S)
<1> DEFINE T == {k \in 0..n : G[k] \notin Seq(S)}
<1>1. T = {}
  <2> SUFFICES ASSUME T # {} PROVE FALSE
    OBVIOUS
  <2>1. T \in SUBSET Nat
    OBVIOUS
  <2> HIDE DEF T
  <2>2. PICK k \in T : \A j \in T : k <= j
    BY <2>1, Least
  <2>3. k \in 0..n /\ G[k] \notin Seq(S)
    BY DEF T
  <2>4. G[0] \in Seq(S)
    BY JoinsStep, EmptySeq
  <2>5. k \in 1..n /\ k - 1 \in 0..n /\ ~ (k <= k - 1)
    BY <2>3, <2>4
  <2>6. G[k - 1] \in Seq(S)
    BY <2>2, <2>5 DEF T
  <2>7. \A j \in 1..n : G[j] = G[j - 1] \o s[j]
    BY ZenonT(60), JoinsStep
  <2>8. G[k - 1] \o s[k] \in Seq(S)
    BY <2>5, <2>6, ConcatProperties
  <2>9. G[k] = G[k - 1] \o s[k]
    BY <2>5, <2>7
  <2> QED BY <2>3, <2>8, <2>9
<1> QED BY <1>1

\* b begins with a.
Begins(a, b) ==
  /\ Len(a) \in Nat /\ Len(b) \in Nat /\ Len(a) <= Len(b)
  /\ \A k \in 1..Len(a) : b[k] = a[k]

\* What there is of them at first stays the beginning.
LEMMA JoinsPrefix ==
  ASSUME NEW S, NEW n \in Nat, NEW s, \A j \in 1..n : s[j] \in Seq(S), NEW G, Joins(G, s, n),
         NEW i \in 0..n
  PROVE  Begins(G[i], G[n])
<1> DEFINE T == {j \in i..n : ~ Begins(G[i], G[j])}
<1>0. \A j \in 0..n : G[j] \in Seq(S) /\ Len(G[j]) \in Nat
  BY JoinsType, LenProperties
<1>1. T = {}
  <2> SUFFICES ASSUME T # {} PROVE FALSE
    OBVIOUS
  <2>1. T \in SUBSET Nat
    OBVIOUS
  <2> HIDE DEF T
  <2>2. PICK k \in T : \A j \in T : k <= j
    BY <2>1, Least
  <2>3. k \in i..n /\ ~ Begins(G[i], G[k])
    BY DEF T
  <2>4. Begins(G[i], G[i])
    BY <1>0 DEF Begins
  <2>5. k \in 1..n /\ k - 1 \in i..n /\ k - 1 \in 0..n /\ ~ (k <= k - 1)
    <3>1. k # i
      BY <2>3, <2>4
    <3> QED BY <2>3, <3>1
  <2>6. Begins(G[i], G[k - 1])
    BY <2>2, <2>5 DEF T
  <2>7. \A j \in 1..n : G[j] = G[j - 1] \o s[j]
    BY ZenonT(60), JoinsStep
  <2> DEFINE a == G[k - 1]
             b == s[k]
             c == G[k]
  <2>8. /\ a \in Seq(S) /\ b \in Seq(S) /\ Len(a) \in Nat /\ Len(b) \in Nat /\ Len(G[i]) \in Nat
        /\ c = a \o b /\ Len(G[i]) <= Len(a)
        /\ \A j \in 1..Len(G[i]) : a[j] = G[i][j]
    BY <1>0, <2>5, <2>6, <2>7, LenProperties DEF Begins
  <2>9. ~ (Len(G[i]) <= Len(c) /\ \A j \in 1..Len(G[i]) : c[j] = G[i][j])
    BY <1>0, <2>3, <2>5 DEF Begins
  <2> HIDE DEF a, b, c
  <2>10. /\ Len(c) = Len(a) + Len(b)
         /\ \A j \in 1..(Len(a) + Len(b)) : c[j] = IF j <= Len(a) THEN a[j] ELSE b[j - Len(a)]
    BY <2>8, ConcatProperties
  <2> QED BY <2>8, <2>9, <2>10
<1>2. n \in i..n
  OBVIOUS
<1> QED BY <1>0, <1>1, <1>2

\* Empty ones add nothing.
LEMMA JoinsSkip ==
  ASSUME NEW n \in Nat, NEW s, \A j \in 1..n : s[j] \in Seq(Item), NEW G, Joins(G, s, n),
         NEW i \in 0..n, \A j \in (i + 1)..n : s[j] = <<>>
  PROVE  G[n] = G[i]
<1> DEFINE T == {j \in i..n : G[j] # G[i]}
<1>0. \A j \in 0..n : G[j] \in Seq(Item)
  BY JoinsType
<1>1. T = {}
  <2> SUFFICES ASSUME T # {} PROVE FALSE
    OBVIOUS
  <2>1. T \in SUBSET Nat
    OBVIOUS
  <2> HIDE DEF T
  <2>2. PICK k \in T : \A j \in T : k <= j
    BY <2>1, Least
  <2>3. k \in i..n /\ G[k] # G[i]
    BY DEF T
  <2>4. k \in 1..n /\ k - 1 \in i..n /\ k - 1 \in 0..n /\ ~ (k <= k - 1) /\ k \in (i + 1)..n
    BY <2>3
  <2>5. G[k - 1] = G[i]
    BY <2>2, <2>4 DEF T
  <2>6. \A j \in 1..n : G[j] = G[j - 1] \o s[j]
    BY ZenonT(60), JoinsStep
  <2>7. G[k] = G[k - 1] \o <<>>
    BY <2>4, <2>6
  <2>8. G[k - 1] \o <<>> = G[k - 1]
    BY <1>0, <2>4, ConcatEmptySeq
  <2> QED BY <2>3, <2>5, <2>7, <2>8
<1>2. n \in i..n
  OBVIOUS
<1> QED BY <1>1, <1>2

\* FlattenSeq joins them all.
LEMMA Flattened ==
  ASSUME NEW S, NEW n \in Nat, n # 0, NEW s \in Seq(Seq(S)), n = Len(s), NEW G, Joins(G, s, n)
  PROVE  FlattenSeq(s) = G[n]
<1>0. \A i \in 1..n : s[i] \in Seq(S)
  BY LenProperties
<1>11. G[0] = <<>> /\ \A j \in 1..n : G[j] = G[j - 1] \o s[j]
  BY ZenonT(60), JoinsStep
<1> DEFINE Flat(f) == f = [i \in 1..n |-> IF i = 1 THEN s[i] ELSE f[i - 1] \o s[i]]
<1>1. FlattenSeq(s) = (CHOOSE f : Flat(f))[n]
  BY DEF FlattenSeq
<1> DEFINE H == [i \in 1..n |-> G[i]]
<1>2. Flat(H)
  <2>1. ASSUME NEW i \in 1..n PROVE H[i] = IF i = 1 THEN s[i] ELSE H[i - 1] \o s[i]
    <3>1. G[i] = G[i - 1] \o s[i]
      BY <1>11
    <3>2. CASE i = 1
      <4>1. G[1] = <<>> \o s[1] /\ s[1] \in Seq(S)
        <5>1. 1 \in 1..n /\ 1 - 1 = 0
          BY <3>2
        <5>2. G[1] = G[1 - 1] \o s[1]
          BY <1>11, <5>1
        <5> QED BY <1>0, <1>11, <5>1, <5>2
      <4>2. <<>> \o s[1] = s[1]
        BY <4>1, ConcatEmptySeq
      <4>3. H[i] = G[1]
        BY <3>2
      <4> HIDE DEF H
      <4> QED BY <3>2, <4>1, <4>2, <4>3
    <3>3. CASE i # 1
      <4>1. i - 1 \in 1..n
        BY <3>3
      <4> QED BY <3>1, <3>3, <4>1
    <3> QED BY <3>2, <3>3
  <2> QED BY <2>1
<1>3. PICK f : Flat(f) /\ FlattenSeq(s) = f[n]
  <2> HIDE DEF Flat, H
  <2> QED BY <1>1, <1>2
<1>4. \A i \in 1..n : f[i] = IF i = 1 THEN s[i] ELSE f[i - 1] \o s[i]
  BY <1>3
<1> DEFINE K == [i \in 0..n |-> IF i = 0 THEN <<>> ELSE f[i]]
<1>5. Joins(K, s, n)
  <2>1. ASSUME NEW i \in 0..n PROVE K[i] = IF i = 0 THEN <<>> ELSE K[i - 1] \o s[i]
    <3>1. CASE i = 0
      BY <3>1
    <3>2. CASE i = 1
      <4>1. K[1] = s[1] /\ K[0] = <<>> /\ s[1] \in Seq(S)
        BY <1>0, <1>4
      <4>2. K[0] \o s[1] = s[1]
        BY <4>1, ConcatEmptySeq
      <4>3. i - 1 = 0 /\ i # 0
        BY <3>2
      <4> HIDE DEF K
      <4> QED BY <3>2, <4>1, <4>2, <4>3
    <3>3. CASE i > 1
      <4>1. i \in 1..n /\ i - 1 \in 0..n /\ i - 1 # 0 /\ i # 0 /\ i # 1
        BY <3>3
      <4> HIDE DEF Flat
      <4> QED BY <1>4, <4>1
    <3> QED BY <3>1, <3>2, <3>3
  <2>2. K = [i \in 0..n |-> K[i]]
    OBVIOUS
  <2> HIDE DEF K
  <2> QED BY <2>1, <2>2 DEF Joins
<1>6. G[n] = K[n]
  <2> HIDE DEF K
  <2>1. n \in Nat /\ n \in 0..n
    OBVIOUS
  <2> QED BY <1>5, <2>1, JoinsOnce
<1> QED BY <1>3, <1>6

-----------------------------------------------------------------------------
(* What is written of the chats.                                           *)

N == Len(ById)

Body(ch) == [i \in DOMAIN ById |-> Written(ch, ById[i])]
Content(ch) == FlattenSeq(Body(ch))

\* What the first n peers have of it.
First(ch, n) == [c \in {ById[j] : j \in 1..n} \cap DOMAIN ch |-> ch[c]]

Knowing(ch) == DOMAIN ch \subseteq Chats /\ ch \in [DOMAIN ch -> Known]

LEMMA ChatsAre ==
  /\ N \in Nat /\ N > 1 /\ DOMAIN ById = 1..N
  /\ \A i \in 1..N : ById[i] \in Chats
  /\ \A c \in Chats : \E i \in 1..N : ById[i] = c
  /\ \A i, j \in 1..N : ById[i] = ById[j] => i = j
<1>1. ById \in Seq(Chats) /\ ToSet(ById) = Chats /\ N > 1
      /\ \A i, j \in DOMAIN ById : ById[i] = ById[j] => i = j
  BY ChatsAssumption DEF N
<1>2. N \in Nat /\ DOMAIN ById = 1..N
  BY <1>1, LenProperties DEF N
<1>3. \A i \in 1..N : ById[i] \in Chats
  BY <1>1, LenProperties DEF N
<1>4. \A c \in Chats : \E i \in 1..N : ById[i] = c
  BY <1>1, <1>2 DEF ToSet
<1> QED BY <1>1, <1>2, <1>3, <1>4

LEMMA EntryForm ==
  ASSUME NEW c \in Chats, NEW known \in Known
  PROVE  /\ known.name \in Nat \ {0}
         /\ Entry(c, known) \in Seq(Item) /\ Len(Entry(c, known)) = 3 + known.name
         /\ Entry(c, known)[1] = [is |-> "id", chat |-> c]
         /\ Entry(c, known)[2] = [is |-> "len", chat |-> c, len |-> known.name]
         /\ Entry(c, known)[3 + known.name] =
              [is |-> "rest", chat |-> c, in |-> known.in, out |-> known.out]
         /\ \A k \in 1..(3 + known.name) : Entry(c, known)[k].chat = c
<1> DEFINE l == known.name
           top == <<[is |-> "id", chat |-> c], [is |-> "len", chat |-> c, len |-> l]>>
           name == [i \in 1..l |-> [is |-> "name", chat |-> c]]
           last == [is |-> "rest", chat |-> c, in |-> known.in, out |-> known.out]
           rest == <<last>>
           e == Entry(c, known)
<1>1. l \in Nat \ {0} /\ l \in Lengths /\ known.in \in 0..Len(ChatOf) /\ known.out \in 0..MaxSent
  BY ChatsAssumption DEF Known
<1>2. /\ [is |-> "id", chat |-> c] \in Item /\ [is |-> "len", chat |-> c, len |-> l] \in Item
      /\ [is |-> "name", chat |-> c] \in Item
      /\ last \in Item
  BY <1>1 DEF Item
<1>3. /\ top \in Seq(Item) /\ Len(top) = 2
      /\ top[1] = [is |-> "id", chat |-> c] /\ top[2] = [is |-> "len", chat |-> c, len |-> l]
      /\ \A i \in 1..2 : top[i].chat = c
  BY <1>2
<1>4. name \in Seq(Item) /\ Len(name) = l /\ \A i \in 1..l : name[i].chat = c
  <2>1. name \in [1..l -> Item]
    BY <1>2
  <2>2. \A i \in 1..l : name[i].chat = c
    OBVIOUS
  <2> HIDE DEF name, l
  <2> QED BY <1>1, <2>1, <2>2
<1>5. rest \in Seq(Item) /\ Len(rest) = 1 /\ rest[1] = last /\ last.chat = c
  BY <1>2
<1>6. e = (top \o name) \o rest
  BY DEF Entry
<1> HIDE DEF top, name, last, rest, l, e
<1>7. /\ top \o name \in Seq(Item) /\ Len(top \o name) = 2 + l
      /\ \A i \in 1..(2 + l) : (top \o name)[i] = IF i <= 2 THEN top[i] ELSE name[i - 2]
  <2>1. /\ top \o name \in Seq(Item) /\ Len(top \o name) = Len(top) + Len(name)
        /\ \A i \in 1..(Len(top) + Len(name)) :
             (top \o name)[i] = IF i <= Len(top) THEN top[i] ELSE name[i - Len(top)]
    BY <1>3, <1>4, ConcatProperties
  <2> QED BY <1>3, <1>4, <2>1
<1> DEFINE a == top \o name
<1>8. a[1] = top[1] /\ a[2] = top[2]
  BY <1>1, <1>7
<1>9. a \in Seq(Item) /\ Len(a) = 2 + l /\ e = a \o rest
  BY <1>6, <1>7
<1>13. ASSUME NEW i \in 1..(2 + l) PROVE a[i].chat = c
  <2>1. CASE i <= 2
    <3>1. i \in 1..2
      BY <1>1, <2>1
    <3> QED BY <1>3, <1>7, <2>1, <3>1
  <2>2. CASE ~ (i <= 2)
    <3>1. i - 2 \in 1..l
      BY <1>1, <2>2
    <3> QED BY <1>4, <1>7, <2>2, <3>1
  <2> QED BY <2>1, <2>2
<1> HIDE DEF a
<1>10. /\ e \in Seq(Item) /\ Len(e) = (2 + l) + 1
       /\ \A i \in 1..((2 + l) + 1) : e[i] = IF i <= 2 + l THEN a[i] ELSE rest[i - (2 + l)]
  <2>1. /\ a \o rest \in Seq(Item) /\ Len(a \o rest) = Len(a) + Len(rest)
        /\ \A i \in 1..(Len(a) + Len(rest)) :
             (a \o rest)[i] = IF i <= Len(a) THEN a[i] ELSE rest[i - Len(a)]
    BY <1>5, <1>9, ConcatProperties
  <2> QED BY <1>5, <1>9, <2>1
<1>11. e[1] = a[1] /\ e[2] = a[2] /\ e[3 + l] = rest[1]
  <2>1. /\ 1 \in 1..((2 + l) + 1) /\ 2 \in 1..((2 + l) + 1) /\ 3 + l \in 1..((2 + l) + 1)
        /\ 1 <= 2 + l /\ 2 <= 2 + l /\ ~ (3 + l <= 2 + l) /\ (3 + l) - (2 + l) = 1
    BY <1>1
  <2> QED BY <1>10, <2>1
<1>12. (2 + l) + 1 = 3 + l
  BY <1>1
<1>14. ASSUME NEW k \in 1..(3 + l) PROVE e[k].chat = c
  <2>1. CASE k \in 1..(2 + l)
    <3>1. k <= 2 + l
      BY <1>1, <2>1
    <3> QED BY <1>10, <1>12, <1>13, <2>1, <3>1
  <2>2. CASE k \notin 1..(2 + l)
    <3>1. k = 3 + l
      BY <1>1, <2>2
    <3> QED BY <1>5, <1>11, <3>1
  <2> QED BY <2>1, <2>2
<1> QED BY <1>1, <1>3, <1>5, <1>8, <1>10, <1>11, <1>12, <1>14 DEF e, l, last

LEMMA BodyIs ==
  ASSUME NEW ch, Knowing(ch)
  PROVE  /\ \A i \in 1..N : Body(ch)[i] = Written(ch, ById[i]) /\ Body(ch)[i] \in Seq(Item)
         /\ Body(ch) \in Seq(Seq(Item)) /\ Len(Body(ch)) = N
<1>1. \A i \in 1..N : Body(ch)[i] = Written(ch, ById[i])
  BY ChatsAre DEF Body
<1>2. ASSUME NEW i \in 1..N PROVE Written(ch, ById[i]) \in Seq(Item)
  <2>1. CASE ById[i] \in DOMAIN ch
    <3>1. ById[i] \in Chats /\ ch[ById[i]] \in Known
      BY <2>1 DEF Knowing
    <3> QED BY <2>1, <3>1, EntryForm DEF Written
  <2>2. CASE ById[i] \notin DOMAIN ch
    BY <2>2, EmptySeq DEF Written
  <2> QED BY <2>1, <2>2
<1>3. Body(ch) \in [1..N -> Seq(Item)]
  BY <1>2, ChatsAre DEF Body
<1>4. N \in Nat
  BY ChatsAre
<1> HIDE DEF Body
<1>5. Body(ch) \in Seq(Seq(Item)) /\ Len(Body(ch)) = N
  BY <1>3, <1>4
<1> QED BY <1>1, <1>2, <1>5

LEMMA ContentIs ==
  ASSUME NEW ch, Knowing(ch), NEW G, Joins(G, Body(ch), N)
  PROVE  Content(ch) = G[N]
<1>1. N \in Nat /\ N # 0 /\ Body(ch) \in Seq(Seq(Item)) /\ N = Len(Body(ch))
  BY BodyIs, ChatsAre
<1> QED BY <1>1, Flattened DEF Content

\* Whatever is written of chats is of one of them.
LEMMA ContentOf ==
  ASSUME NEW ch, Knowing(ch), NEW x \in 1..Len(Content(ch))
  PROVE  Content(ch)[x].chat \in DOMAIN ch
<1> DEFINE S == {item \in Item : item.chat \in DOMAIN ch}
<1>1. PICK G : Joins(G, Body(ch), N)
  BY ChatsAre, JoinsExists
<1>2. ASSUME NEW i \in 1..N PROVE Body(ch)[i] \in Seq(S)
  <2>1. CASE ById[i] \in DOMAIN ch
    <3> DEFINE e == Entry(ById[i], ch[ById[i]])
               l == ch[ById[i]].name
    <3>1. ById[i] \in Chats /\ ch[ById[i]] \in Known
      BY <2>1 DEF Knowing
    <3>2. l \in Nat /\ e \in Seq(Item) /\ Len(e) = 3 + l /\ \A j \in 1..(3 + l) : e[j].chat = ById[i]
      <4> DEFINE c == ById[i]
                 known == ch[c]
      <4>1. c \in Chats /\ known \in Known
        BY <3>1
      <4> HIDE DEF known, c
      <4>2. /\ known.name \in Nat \ {0} /\ Entry(c, known) \in Seq(Item)
            /\ Len(Entry(c, known)) = 3 + known.name
            /\ \A k \in 1..(3 + known.name) : Entry(c, known)[k].chat = c
        BY ZenonT(60), <4>1, EntryForm
      <4> QED BY <4>2 DEF known, c
    <3>3. Body(ch)[i] = e
      BY <2>1, BodyIs DEF Written
    <3> HIDE DEF e, l
    <3>4. \A j \in 1..Len(e) : e[j] \in S
      BY <2>1, <3>2, LenProperties
    <3>5. e \in Seq(S)
      <4> HIDE DEF S
      <4>1. e = [j \in 1..Len(e) |-> e[j]] /\ Len(e) \in Nat
        BY <3>2, LenProperties
      <4>2. e \in [1..Len(e) -> S]
        BY <3>4, <4>1
      <4> QED BY <4>1, <4>2
    <3> QED BY <3>3, <3>5
  <2>2. CASE ById[i] \notin DOMAIN ch
    BY <2>2, BodyIs, EmptySeq DEF Written
  <2> QED BY <2>1, <2>2
<1>3. N \in Nat /\ N \in 0..N
  BY ChatsAre
<1>4. G[N] \in Seq(S)
  <2> HIDE DEF S
  <2>1. \A i \in 0..N : G[i] \in Seq(S)
    BY <1>1, <1>2, <1>3, JoinsType
  <2> QED BY <1>3, <2>1
<1>5. Content(ch) = G[N]
  BY <1>1, ContentIs
<1>6. Content(ch)[x] \in S
  <2> HIDE DEF S
  <2> QED BY <1>4, <1>5, LenProperties
<1> QED BY <1>6

LEMMA FirstContent ==
  ASSUME NEW ch, Knowing(ch), NEW n \in 0..N, NEW G, Joins(G, Body(ch), N)
  PROVE  Knowing(First(ch, n)) /\ Content(First(ch, n)) = G[n]
<1> DEFINE f == First(ch, n)
<1>1. Knowing(f)
  BY DEF First, Knowing
<1>2. PICK H : Joins(H, Body(f), N)
  BY ChatsAre, JoinsExists
<1>3. Content(f) = H[N]
  BY <1>1, <1>2, ContentIs
<1>4. \A j \in 1..N : /\ ById[j] \in DOMAIN f <=> ById[j] \in DOMAIN ch /\ j <= n
                      /\ ById[j] \in DOMAIN f => f[ById[j]] = ch[ById[j]]
  BY ChatsAre DEF First
<1> HIDE DEF f
<1>10. \A j \in 1..N : /\ Body(f)[j] = Written(f, ById[j])
                       /\ Body(ch)[j] = Written(ch, ById[j])
  BY <1>1, BodyIs
<1>11. N \in Nat /\ \A j \in 1..n : j \in 1..N /\ j <= n
  BY ChatsAre
<1>12. \A j \in (n + 1)..N : j \in 1..N /\ ~ (j <= n)
  BY <1>11
<1>5. \A j \in 1..n : j \in 1..N /\ Body(f)[j] = Body(ch)[j]
  BY <1>4, <1>10, <1>11 DEF Written
<1>6. \A j \in (n + 1)..N : Body(f)[j] = <<>>
  BY <1>4, <1>10, <1>12 DEF Written
<1>7. N \in Nat /\ n <= N /\ \A j \in 1..N : Body(f)[j] \in Seq(Item)
  BY <1>1, BodyIs, ChatsAre
<1>8. H[n] = G[n]
  <2> DEFINE s == Body(f)
             t == Body(ch)
             m == N
  <2>1. /\ m \in Nat /\ n \in 0..m /\ n <= m /\ Joins(H, s, m) /\ Joins(G, t, m)
        /\ \A j \in 1..n : s[j] = t[j]
    BY <1>2, <1>5, <1>7
  <2> HIDE DEF s, t, m
  <2> QED BY <2>1, JoinsOnce
<1>9. H[N] = H[n]
  <2> DEFINE s == Body(f)
             m == N
  <2>1. /\ m \in Nat /\ n \in 0..m /\ Joins(H, s, m)
        /\ \A j \in 1..m : s[j] \in Seq(Item)
        /\ \A j \in (n + 1)..m : s[j] = <<>>
    BY <1>2, <1>6, <1>7
  <2> HIDE DEF s, m
  <2>2. H[m] = H[n]
    BY SMTT(60), <2>1, JoinsSkip
  <2> QED BY <2>2 DEF m
<1> QED BY <1>1, <1>3, <1>8, <1>9 DEF f

\* What is written of the first is the beginning of what is written of all.
LEMMA ContentBegins ==
  ASSUME NEW ch, Knowing(ch), NEW n \in 0..N
  PROVE  /\ Knowing(First(ch, n))
         /\ Content(First(ch, n)) \in Seq(Item) /\ Content(ch) \in Seq(Item)
         /\ Begins(Content(First(ch, n)), Content(ch))
<1>1. PICK G : Joins(G, Body(ch), N)
  BY ChatsAre, JoinsExists
<1>2. Knowing(First(ch, n)) /\ Content(First(ch, n)) = G[n] /\ Content(ch) = G[N]
  BY <1>1, FirstContent, ContentIs
<1>3. N \in Nat /\ N \in 0..N /\ \A j \in 1..N : Body(ch)[j] \in Seq(Item)
  BY BodyIs, ChatsAre
<1>4. \A i \in 0..N : G[i] \in Seq(Item)
  BY <1>1, <1>3, JoinsType
<1>5. Begins(G[n], G[N])
  BY <1>1, <1>3, JoinsPrefix
<1> QED BY <1>2, <1>3, <1>4, <1>5

\* One chat more, and its entry is added.
LEMMA ContentNext ==
  ASSUME NEW ch, Knowing(ch), NEW n \in 1..N, ById[n] \in DOMAIN ch
  PROVE  Content(First(ch, n)) = Content(First(ch, n - 1)) \o Entry(ById[n], ch[ById[n]])
<1>1. PICK G : Joins(G, Body(ch), N)
  BY ChatsAre, JoinsExists
<1>2. N \in Nat /\ n \in 0..N /\ n - 1 \in 0..N
  BY ChatsAre
<1>3. Content(First(ch, n)) = G[n] /\ Content(First(ch, n - 1)) = G[n - 1]
  BY <1>1, <1>2, FirstContent
<1>4. \A j \in 1..N : G[j] = G[j - 1] \o Body(ch)[j]
  BY ZenonT(60), <1>1, <1>2, JoinsStep
<1>5. Body(ch)[n] = Entry(ById[n], ch[ById[n]])
  BY BodyIs DEF Written
<1> QED BY <1>3, <1>4, <1>5

LEMMA FirstAll ==
  ASSUME NEW ch, Knowing(ch)
  PROVE  First(ch, N) = ch /\ DOMAIN First(ch, 0) = {}
<1>1. DOMAIN ch \subseteq {ById[j] : j \in 1..N}
  BY ChatsAre DEF Knowing
<1>2. ch = [c \in DOMAIN ch |-> ch[c]]
  BY DEF Knowing
<1>3. {ById[j] : j \in 1..0} = {}
  OBVIOUS
<1>4. {ById[j] : j \in 1..N} \cap DOMAIN ch = DOMAIN ch
  BY <1>1
<1>5. First(ch, N) = ch
  BY <1>2, <1>4 DEF First
<1>6. DOMAIN First(ch, 0) = {}
  BY <1>3 DEF First
<1> QED BY <1>5, <1>6

\* A chat that is left to read: the next of them, and what is read with it.
LEMMA FirstAdds ==
  ASSUME NEW ch, Knowing(ch), NEW n \in 0..N, DOMAIN ch \ DOMAIN First(ch, n) # {}
  PROVE  \E m \in 1..N :
           /\ ById[m] \in DOMAIN ch \ DOMAIN First(ch, n)
           /\ First(ch, m - 1) = First(ch, n)
           /\ First(ch, m) = [d \in DOMAIN First(ch, n) \cup {ById[m]} |->
                               IF d = ById[m] THEN ch[ById[m]] ELSE First(ch, n)[d]]
<1> DEFINE T == {j \in (n + 1)..N : ById[j] \in DOMAIN ch}
<1>1. N \in Nat /\ n \in Nat /\ n <= N
  BY ChatsAre
<1>2. T # {}
  <2>1. PICK c \in DOMAIN ch : c \notin DOMAIN First(ch, n)
    OBVIOUS
  <2>2. PICK j \in 1..N : ById[j] = c
    BY ChatsAre DEF Knowing
  <2>3. ~ (j \in 1..n)
    BY <2>1, <2>2 DEF First
  <2>4. j \in T
    BY <1>1, <2>1, <2>2, <2>3
  <2> QED BY <2>4
<1>3. T \in SUBSET Nat
  BY <1>1
<1> HIDE DEF T
<1>4. PICK m \in T : \A j \in T : m <= j
  BY <1>2, <1>3, Least
<1>5. m \in (n + 1)..N /\ ById[m] \in DOMAIN ch /\ m \in 1..N /\ m - 1 \in n..N
  BY <1>1, <1>4 DEF T
<1>6. \A j \in (n + 1)..(m - 1) : ById[j] \notin DOMAIN ch
  <2> SUFFICES ASSUME NEW j \in (n + 1)..(m - 1), ById[j] \in DOMAIN ch PROVE FALSE
    OBVIOUS
  <2>1. j \in T /\ ~ (m <= j)
    BY <1>1, <1>5 DEF T
  <2> QED BY <1>4, <2>1
<1> DEFINE A == {ById[j] : j \in 1..n}
           B == {ById[j] : j \in 1..(m - 1)}
           C == {ById[j] : j \in 1..m}
           c == ById[m]
<1>7. B \cap DOMAIN ch = A \cap DOMAIN ch
  <2>1. \A j \in 1..n : j \in 1..(m - 1)
    BY <1>1, <1>5
  <2>2. \A j \in 1..(m - 1) : j \in 1..n \/ j \in (n + 1)..(m - 1)
    BY <1>1, <1>5
  <2> QED BY <1>6, <2>1, <2>2
<1>8. C \cap DOMAIN ch = (B \cap DOMAIN ch) \cup {c}
  <2>1. \A j \in 1..(m - 1) : j \in 1..m
    BY <1>1, <1>5
  <2>2. \A j \in 1..m : j \in 1..(m - 1) \/ j = m
    BY <1>1, <1>5
  <2>3. m \in 1..m
    BY <1>5
  <2> QED BY <1>5, <2>1, <2>2, <2>3
<1>9. c \notin A
  <2>1. \A j \in 1..n : j \in 1..N /\ j # m
    BY <1>1, <1>5
  <2> QED BY <1>5, <2>1, ChatsAre
<1> HIDE DEF A, B, C, c
<1>10. /\ First(ch, n) = [d \in A \cap DOMAIN ch |-> ch[d]]
       /\ First(ch, m - 1) = [d \in B \cap DOMAIN ch |-> ch[d]]
       /\ First(ch, m) = [d \in C \cap DOMAIN ch |-> ch[d]]
  BY DEF First, A, B, C
<1>11. First(ch, m - 1) = First(ch, n)
  BY <1>7, <1>10
<1>12. DOMAIN First(ch, n) = A \cap DOMAIN ch
  BY <1>10
<1>13. First(ch, m) = [d \in DOMAIN First(ch, n) \cup {c} |->
                         IF d = c THEN ch[c] ELSE First(ch, n)[d]]
  BY <1>7, <1>8, <1>9, <1>10, <1>12
<1>14. c \in DOMAIN ch \ DOMAIN First(ch, n)
  BY <1>5, <1>9, <1>12 DEF c
<1> QED BY <1>5, <1>11, <1>13, <1>14 DEF c

-----------------------------------------------------------------------------
(* The file.                                                               *)

LEMMA ChatsFinite ==
  ASSUME NEW S, S \subseteq Chats
  PROVE  IsFiniteSet(S) /\ Cardinality(S) \in Nat
<1> DEFINE f == [i \in 1..N |-> ById[i]]
<1>1. f \in Surjection(1..N, Chats)
  BY ChatsAre DEF Surjection
<1>2. IsFiniteSet(1..N)
  BY ChatsAre, FS_Interval
<1> HIDE DEF f
<1>3. IsFiniteSet(Chats)
  BY <1>1, <1>2, FS_Surjection
<1> QED BY <1>3, FS_Subset, FS_CardinalityType

\* The entries of ch are in f.
Holds(f, ch) ==
  /\ f \in Seq(Item) /\ Len(f) \in Nat /\ Len(f) >= 3 + Len(Content(ch))
  /\ \A k \in 1..Len(Content(ch)) : f[3 + k] = Content(ch)[k]

LEMMA OverIs ==
  ASSUME NEW new \in Seq(Item), NEW old \in Seq(Item)
  PROVE  /\ Over(new, old) \in Seq(Item) /\ Len(Over(new, old)) \in Nat
         /\ Len(new) \in Nat /\ Len(old) \in Nat
         /\ Len(Over(new, old)) >= Len(new) /\ Len(Over(new, old)) >= Len(old)
         /\ \A k \in 1..Len(new) : Over(new, old)[k] = new[k]
         /\ \A k \in (Len(new) + 1)..Len(old) : Over(new, old)[k] = old[k]
<1> DEFINE n == Len(new)
           o == Len(old)
           r == SubSeq(old, n + 1, o)
<1>1. n \in Nat /\ o \in Nat /\ \A k \in 1..o : old[k] \in Item
  BY LenProperties
<1>2. CASE n >= o
  BY <1>1, <1>2 DEF Over
<1>3. CASE ~ (n >= o)
  <2>1. /\ r \in Seq(Item) /\ Len(r) = o - n
        /\ \A k \in 1..(o - n) : r[k] = old[n + k]
    <3>1. \A k \in (n + 1)..o : old[k] \in Item
      BY <1>1
    <3>2. n + 1 \in Int /\ o \in Int /\ n + 1 <= o /\ o - (n + 1) + 1 = o - n
      BY <1>1, <1>3
    <3> HIDE DEF n, o
    <3>3. /\ r \in Seq(Item) /\ Len(r) = o - (n + 1) + 1
          /\ \A k \in 1..(o - (n + 1) + 1) : r[k] = old[(n + 1) + k - 1]
      BY SMTT(60), <3>1, <3>2, SubSeqProperties
    <3>4. \A k \in 1..(o - n) : (n + 1) + k - 1 = n + k
      BY <1>1
    <3> HIDE DEF r
    <3> QED BY <3>2, <3>3, <3>4
  <2>2. Over(new, old) = new \o r
    BY <1>3 DEF Over
  <2> HIDE DEF r
  <2>3. /\ new \o r \in Seq(Item) /\ Len(new \o r) = n + Len(r)
        /\ \A k \in 1..(n + Len(r)) : (new \o r)[k] = IF k <= n THEN new[k] ELSE r[k - n]
    BY <2>1, ConcatProperties
  <2>4. n + Len(r) = o
    BY <1>1, <2>1
  <2> DEFINE s == new \o r
  <2>5. s \in Seq(Item) /\ Len(s) = o /\ Over(new, old) = s
        /\ \A k \in 1..o : s[k] = IF k <= n THEN new[k] ELSE r[k - n]
    BY <2>2, <2>3, <2>4
  <2> HIDE DEF s, n, o
  <2>6. \A k \in 1..n : s[k] = new[k]
    BY <1>1, <1>3, <2>5
  <2>7. ASSUME NEW k \in (n + 1)..o PROVE s[k] = old[k]
    <3>1. k \in 1..o /\ ~ (k <= n) /\ k - n \in 1..(o - n) /\ n + (k - n) = k
      BY <1>1
    <3> QED BY <2>1, <2>5, <3>1
  <2> QED BY <1>1, <1>3, <2>5, <2>6, <2>7 DEF n, o
<1> QED BY <1>2, <1>3

LEMMA ItemsAre ==
  ASSUME NEW ch, Knowing(ch), NEW num \in Nat
  PROVE  /\ Items(ch, num) \in Seq(Item) /\ Len(Items(ch, num)) = 3 + Len(Content(ch))
         /\ Len(Content(ch)) \in Nat
         /\ Items(ch, num)[3] = [is |-> "num", num |-> num]
         /\ \A k \in 1..Len(Content(ch)) : Items(ch, num)[3 + k] = Content(ch)[k]
<1> DEFINE top == <<[is |-> "magic"], [is |-> "version"], [is |-> "num", num |-> num]>>
           c == Content(ch)
           r == top \o c
<1>1. [is |-> "magic"] \in Item /\ [is |-> "version"] \in Item /\ [is |-> "num", num |-> num] \in Item
  BY DEF Item
<1>2. top \in Seq(Item) /\ Len(top) = 3 /\ top[3] = [is |-> "num", num |-> num]
  BY <1>1
<1>3. c \in Seq(Item) /\ Len(c) \in Nat
  <2>1. N \in 0..N
    BY ChatsAre
  <2> QED BY <2>1, ContentBegins, LenProperties
<1>4. Items(ch, num) = top \o c
  BY DEF Items, Content, Body
<1> HIDE DEF top, c
<1>5. /\ r \in Seq(Item) /\ Len(r) = Len(top) + Len(c)
      /\ \A k \in 1..(Len(top) + Len(c)) : r[k] = IF k <= Len(top) THEN top[k] ELSE c[k - Len(top)]
  BY <1>2, <1>3, ConcatProperties
<1> HIDE DEF r
<1>6. Len(r) = 3 + Len(c) /\ r[3] = top[3]
  BY SMTT(60), <1>2, <1>3, <1>5
<1>7. ASSUME NEW k \in 1..Len(c) PROVE r[3 + k] = c[k]
  <2>1. 3 + k \in 1..(Len(top) + Len(c)) /\ ~ (3 + k <= Len(top)) /\ (3 + k) - Len(top) = k
    BY <1>2, <1>3
  <2> QED BY <1>5, <2>1
<1>8. Items(ch, num) = r
  BY <1>4 DEF r
<1> QED BY <1>2, <1>3, <1>5, <1>6, <1>7, <1>8 DEF c

\* After a save the file holds what was saved, and says how many chats that is.
LEMMA SavedHolds ==
  ASSUME NEW ch, Knowing(ch), file \in Seq(Item)
  PROVE  Holds(Saved(ch), ch) /\ Saved(ch)[3].num = Cardinality(DOMAIN ch)
<1> DEFINE num == Cardinality(DOMAIN ch)
           new == Items(ch, num)
           r == Over(new, file)
           c == Content(ch)
<1>1. num \in Nat
  BY ChatsFinite DEF Knowing
<1> HIDE DEF num
<1>2. /\ new \in Seq(Item) /\ Len(new) = 3 + Len(c) /\ Len(c) \in Nat
      /\ new[3] = [is |-> "num", num |-> num]
      /\ \A k \in 1..Len(c) : new[3 + k] = c[k]
  BY <1>1, ItemsAre
<1> HIDE DEF new, c
<1>3. r \in Seq(Item) /\ Len(r) \in Nat /\ Len(r) >= Len(new) /\ \A k \in 1..Len(new) : r[k] = new[k]
  BY <1>2, OverIs
<1>4. Saved(ch) = r
  BY DEF Saved, r, new, num
<1> HIDE DEF r
<1>5. r[3].num = num
  <2>1. 3 \in 1..Len(new)
    BY <1>2
  <2> QED BY <1>2, <1>3, <2>1
<1>6. \A k \in 1..Len(c) : r[3 + k] = c[k]
  BY <1>2, <1>3
<1> QED BY <1>2, <1>3, <1>4, <1>5, <1>6 DEF Holds, c, num

\* From p on, the entries of ch are in f.
Unread(f, ch, p) ==
  /\ f \in Seq(Item) /\ Len(f) \in Nat /\ Len(f) >= 3 + Len(Content(ch))
  /\ \A k \in 1..Len(Content(ch)) : 3 + k >= p => f[3 + k] = Content(ch)[k]

\* A save of others that ends before p leaves them there.
LEMMA SavedLeaves ==
  ASSUME NEW ch, Knowing(ch), NEW p \in Nat, Unread(file, ch, p),
         NEW read, Knowing(read), ~ (p <= Len(Items(read, Placeholder)))
  PROVE  Unread(Saved(read), ch, p)
<1> DEFINE num == Cardinality(DOMAIN read)
           new == Items(read, num)
           r == Over(new, file)
           c == Content(ch)
<1>1. c \in Seq(Item) /\ Len(c) \in Nat
  <2>1. N \in 0..N
    BY ChatsAre
  <2> QED BY <2>1, ContentBegins, LenProperties
<1>2. file \in Seq(Item) /\ Len(file) \in Nat /\ Len(file) >= 3 + Len(c)
      /\ \A k \in 1..Len(c) : 3 + k >= p => file[3 + k] = c[k]
  BY DEF Unread
<1>3. num \in Nat /\ Placeholder \in Nat
  BY ChatsFinite DEF Knowing, Placeholder
<1>4. Saved(read) = r
  BY DEF Saved
<1> HIDE DEF num
<1>5. new \in Seq(Item) /\ Len(new) \in Nat /\ Len(new) < p
  <2>1. new \in Seq(Item) /\ Len(new) = 3 + Len(Content(read)) /\ Len(Content(read)) \in Nat
    BY <1>3, ItemsAre
  <2>2. Len(Items(read, Placeholder)) = 3 + Len(Content(read))
    BY <1>3, ItemsAre
  <2> HIDE DEF new
  <2> QED BY <2>1, <2>2
<1> HIDE DEF new, c
<1>6. /\ r \in Seq(Item) /\ Len(r) \in Nat /\ Len(r) >= Len(file)
      /\ \A k \in (Len(new) + 1)..Len(file) : r[k] = file[k]
  BY <1>2, <1>5, OverIs
<1> HIDE DEF r
<1>7. ASSUME NEW k \in 1..Len(c), 3 + k >= p PROVE r[3 + k] = c[k]
  <2>1. 3 + k \in (Len(new) + 1)..Len(file)
    BY <1>1, <1>2, <1>5, <1>7
  <2> QED BY <1>2, <1>6, <1>7, <2>1
<1>8. Len(r) >= 3 + Len(c)
  BY <1>1, <1>2, <1>6
<1> QED BY <1>4, <1>6, <1>7, <1>8 DEF Unread, c

LEMMA PartIs ==
  ASSUME NEW f \in Seq(Item), NEW p \in Nat, p > 0, NEW l \in Nat, p + 2 + l <= Len(f),
         NEW e \in Seq(Item), Len(e) = 3 + l, \A k \in 1..(3 + l) : f[p + k - 1] = e[k]
  PROVE  SubSeq(f, p, p + 2 + l) = e
<1> DEFINE s == SubSeq(f, p, p + 2 + l)
<1>1. Len(f) \in Nat /\ \A k \in 1..Len(f) : f[k] \in Item
  BY LenProperties
<1>2. \A k \in p..(p + 2 + l) : f[k] \in Item
  BY <1>1
<1>3. p \in Int /\ p + 2 + l \in Int /\ p <= p + 2 + l /\ (p + 2 + l) - p + 1 = 3 + l
  OBVIOUS
<1>4. /\ s \in Seq(Item) /\ Len(s) = (p + 2 + l) - p + 1
      /\ \A k \in 1..((p + 2 + l) - p + 1) : s[k] = f[p + k - 1]
  BY <1>2, <1>3, SubSeqProperties
<1> HIDE DEF s
<1>5. Len(s) = Len(e) /\ \A k \in 1..Len(s) : s[k] = e[k]
  BY <1>3, <1>4
<1>6. s = e
  BY <1>4, <1>5, SeqEqual
<1> QED BY <1>6 DEF s

\* Where the entry of the m-th peer would come.
Place(ch, m) == 4 + Len(Content(First(ch, m - 1)))

\* Behind the entries of the first chats is that of the next, up to where that
\* of the one after it would come.
LEMMA EntryThere ==
  ASSUME NEW ch, Knowing(ch), NEW m \in 1..N, NEW c, c = ById[m], c \in DOMAIN ch,
         pos = Place(ch, m), Unread(file, ch, pos)
  PROVE  EntryIs(c, ch[c]) /\ pos + 3 + ch[c].name = 4 + Len(Content(First(ch, m)))
<1> DEFINE a == Content(First(ch, m - 1))
           b == Content(First(ch, m))
           t == Content(ch)
           e == Entry(c, ch[c])
           l == ch[c].name
           p == pos
<1>0. N \in Nat /\ m - 1 \in 0..N /\ m \in 0..N
  BY ChatsAre
<1>1. c \in Chats /\ ch[c] \in Known
  BY DEF Knowing
<1>2. l \in Nat /\ e \in Seq(Item) /\ Len(e) = 3 + l
  <2> DEFINE known == ch[c]
  <2>1. known \in Known
    BY <1>1
  <2> HIDE DEF known
  <2>2. /\ known.name \in Nat \ {0} /\ Entry(c, known) \in Seq(Item)
        /\ Len(Entry(c, known)) = 3 + known.name
    BY ZenonT(60), <1>1, <2>1, EntryForm
  <2> QED BY <2>2 DEF known
<1>3. b = a \o e
  BY ContentNext
<1>4. a \in Seq(Item) /\ Len(a) \in Nat
  BY <1>0, ContentBegins DEF Begins
<1>5. b \in Seq(Item) /\ t \in Seq(Item) /\ Begins(b, t)
  BY <1>0, ContentBegins
<1>6. file \in Seq(Item) /\ Len(file) \in Nat /\ Len(file) >= 3 + Len(t)
      /\ \A k \in 1..Len(t) : 3 + k >= p => file[3 + k] = t[k]
  BY DEF Unread
<1>7. p = 4 + Len(a)
  BY DEF Place
<1> HIDE DEF a, b, t, e, l, p
<1>8. Len(b) = Len(a) + (3 + l) /\ \A k \in 1..(Len(a) + (3 + l)) :
                                      b[k] = IF k <= Len(a) THEN a[k] ELSE e[k - Len(a)]
  <2>1. /\ Len(a \o e) = Len(a) + Len(e)
        /\ \A k \in 1..(Len(a) + Len(e)) : (a \o e)[k] = IF k <= Len(a) THEN a[k] ELSE e[k - Len(a)]
    BY <1>2, <1>4, ConcatProperties
  <2> QED BY <1>2, <1>3, <2>1
<1>9. Len(b) \in Nat /\ Len(t) \in Nat /\ Len(b) <= Len(t) /\ \A k \in 1..Len(b) : t[k] = b[k]
  BY <1>5 DEF Begins
<1>10. p \in Nat /\ p > 0 /\ p + 2 + l <= Len(file) /\ p + 3 + l = 4 + Len(b)
  BY <1>2, <1>4, <1>6, <1>7, <1>8, <1>9
<1>11. ASSUME NEW k \in 1..(3 + l) PROVE file[p + k - 1] = e[k]
  <2> DEFINE j == Len(a) + k
  <2>1. /\ j \in 1..(Len(a) + (3 + l)) /\ ~ (j <= Len(a)) /\ j - Len(a) = k
        /\ p + k - 1 = 3 + j /\ 3 + j >= p
    BY <1>2, <1>4, <1>7
  <2>2. j \in 1..Len(b) /\ j \in 1..Len(t)
    BY <1>8, <1>9, <2>1
  <2> HIDE DEF j
  <2>3. file[3 + j] = t[j] /\ t[j] = b[j] /\ b[j] = e[j - Len(a)]
    BY <1>6, <1>8, <1>9, <2>1, <2>2
  <2> QED BY <2>1, <2>3
<1>13. SubSeq(file, p, p + 2 + l) = e
  BY ZenonT(60), <1>2, <1>6, <1>10, <1>11, PartIs
<1> QED BY <1>10, <1>13 DEF EntryIs, l, b, e, p

\* What an entry says of where it is.
LEMMA EntryShows ==
  ASSUME file \in Seq(Item), pos \in Nat, pos > 0, NEW c \in Chats, NEW known \in Known,
         EntryIs(c, known)
  PROVE  /\ file[pos] = [is |-> "id", chat |-> c]
         /\ file[pos + 1] = [is |-> "len", chat |-> c, len |-> known.name]
         /\ file[pos + 2 + known.name] =
              [is |-> "rest", chat |-> c, in |-> known.in, out |-> known.out]
<1> DEFINE l == known.name
           p == pos
           e == Entry(c, known)
           s == SubSeq(file, p, p + 2 + l)
<1>1. /\ l \in Nat /\ e[1] = [is |-> "id", chat |-> c]
      /\ e[2] = [is |-> "len", chat |-> c, len |-> l]
      /\ e[3 + l] = [is |-> "rest", chat |-> c, in |-> known.in, out |-> known.out]
  BY EntryForm
<1>2. p + 2 + l <= Len(file) /\ s = e
  BY DEF EntryIs
<1>3. Len(file) \in Nat /\ \A k \in 1..Len(file) : file[k] \in Item
  BY LenProperties
<1> HIDE DEF l, p, e
<1>4. p \in Nat /\ p > 0
  BY DEF p
<1>5. \A k \in p..(p + 2 + l) : file[k] \in Item
  BY <1>1, <1>2, <1>3, <1>4
<1>6. p \in Int /\ p + 2 + l \in Int /\ p <= p + 2 + l /\ (p + 2 + l) - p + 1 = 3 + l
  BY <1>1, <1>4
<1>7. \A k \in 1..((p + 2 + l) - p + 1) : s[k] = file[p + k - 1]
  BY <1>5, <1>6, SubSeqProperties
<1> HIDE DEF s
<1>8. /\ 1 \in 1..(3 + l) /\ 2 \in 1..(3 + l) /\ 3 + l \in 1..(3 + l)
      /\ p + 1 - 1 = p /\ p + 2 - 1 = p + 1 /\ p + (3 + l) - 1 = p + 2 + l
  <2>1. l \in Nat
    BY <1>1
  <2> QED BY <1>4, <2>1
<1>9. s[1] = file[p] /\ s[2] = file[p + 1] /\ s[3 + l] = file[p + 2 + l]
  <2>1. s[1] = file[p + 1 - 1] /\ s[2] = file[p + 2 - 1] /\ s[3 + l] = file[p + (3 + l) - 1]
    BY <1>6, <1>7, <1>8
  <2> QED BY <1>8, <2>1
<1> QED BY <1>1, <1>2, <1>9 DEF l, p

\* So there is one at most.
LEMMA EntryOnce ==
  ASSUME file \in Seq(Item), pos \in Nat, pos > 0, NEW c \in Chats, NEW a \in Known,
         EntryIs(c, a), NEW d \in Chats, NEW b \in Known, EntryIs(d, b)
  PROVE  c = d /\ a = b
<1>1. c = d /\ a.name = b.name
  <2>1. file[pos] = [is |-> "id", chat |-> c]
        /\ file[pos + 1] = [is |-> "len", chat |-> c, len |-> a.name]
    BY ZenonT(60), EntryShows
  <2>2. file[pos] = [is |-> "id", chat |-> d]
        /\ file[pos + 1] = [is |-> "len", chat |-> d, len |-> b.name]
    BY ZenonT(60), EntryShows
  <2> QED BY <2>1, <2>2
<1>2. a.in = b.in /\ a.out = b.out
  <2>1. file[pos + 2 + a.name] = [is |-> "rest", chat |-> c, in |-> a.in, out |-> a.out]
    BY ZenonT(60), EntryShows
  <2>2. file[pos + 2 + b.name] = [is |-> "rest", chat |-> d, in |-> b.in, out |-> b.out]
    BY ZenonT(60), EntryShows
  <2> QED BY <1>1, <2>1, <2>2
<1> QED BY <1>1, <1>2 DEF Known

-----------------------------------------------------------------------------
(* The invariant.                                                          *)

\* What the chats in ch have been told of the first n updates.
Told(ch, n) == \A c \in DOMAIN ch, u \in 1..n : ChatOf[u] = c => ch[c].in >= u

\* The chats in ch go on behind what was acknowledged.
Behind(ch) == \A c \in DOMAIN ch : ch[c].out >= acked[c]

\* Of the process at work, only that messages were sent is not on disk.
OnDisk ==
  /\ chats \in [DOMAIN kept -> Known]
  /\ \A c \in DOMAIN kept : chats[c].in = kept[c].in /\ chats[c].out >= kept[c].out

Typed ==
  /\ pc \in {"down", "up", "aborted", "garbled"}
  /\ state \in 0..Len(ChatOf) /\ qts \in 0..Len(ChatOf) /\ acked \in [Chats -> Nat]
  /\ Knowing(kept)

Reading == pc = "up" /\ left > 0

\* The file is that of the last save, until a start that reads it has saved.
Laid ==
  pc \in {"down", "up"} =>
    \/ file = <<>> /\ DOMAIN kept = {}
    \/ Holds(file, kept) /\ file[3].num = Cardinality(DOMAIN kept)
    \/ Reading /\ pos > 4

\* The first n chats have been read, and the entries of the others are there.
Ahead(n) ==
  /\ SameNumbers(chats, First(kept, n))
  /\ pos = 4 + Len(Content(First(kept, n)))
  /\ Unread(file, kept, pos)
  /\ left = Cardinality(DOMAIN kept \ DOMAIN chats)

Loads ==
  Reading =>
    /\ pos \in Nat /\ pos >= 4
    /\ Knowing(chats) /\ Holds(file, chats)
    /\ Outgrown \/ \E n \in 0..N : Ahead(n)

IInv ==
  ~torn =>
    /\ Typed
    /\ Told(kept, state)
    /\ pc = "up" => left \in Nat /\ state <= qts /\ Told(kept, qts)
    /\ Behind(kept)
    /\ Running => OnDisk
    /\ Laid /\ Loads
    /\ pc \in {"aborted", "garbled"} => Outgrown

\* What RestartRestores says of a step.
Restores ==
  ~torn /\ pc' = "up" /\ left' = 0 /\ (pc = "down" \/ left > 0) => SameNumbers(chats', kept)

LEMMA LengthsAre == Len(ChatOf) \in Nat /\ MaxSent \in Nat
BY ChatsAssumption, LenProperties

\* No chats, no entries.
LEMMA NothingKept == ASSUME NEW ch, Knowing(ch), DOMAIN ch = {} PROVE ch = Nothing
BY DEF Knowing, Nothing

LEMMA NoneRead ==
  ASSUME NEW ch, Knowing(ch)
  PROVE  /\ 0 \in 0..N /\ Nothing = First(ch, 0) /\ Len(Content(First(ch, 0))) = 0
         /\ DOMAIN Nothing = {}
<1>1. 0 \in 0..N /\ N \in Nat
  BY ChatsAre
<1>2. Knowing(First(ch, 0)) /\ DOMAIN First(ch, 0) = {}
  BY <1>1, ContentBegins, FirstAll
<1>3. First(ch, 0) = Nothing
  BY <1>2, NothingKept
<1>4. PICK G : Joins(G, Body(ch), N)
  BY <1>1, JoinsExists
<1>5. G[0] = <<>>
  BY <1>1, <1>4, JoinsStep
<1>6. Content(First(ch, 0)) = <<>>
  BY <1>1, <1>4, <1>5, FirstContent
<1>7. Len(<<>>) = 0
  BY EmptySeq
<1> QED BY <1>1, <1>2, <1>3, <1>6, <1>7

\* Those read have the numbers of those kept.
LEMMA SameAsRead ==
  ASSUME NEW ch, Knowing(ch)
  PROVE  SameNumbers(ch, ch)
BY DEF SameNumbers

LEMMA InitIInv == Init => IInv
<1> SUFFICES ASSUME Init PROVE IInv
  OBVIOUS
<1>1. kept = Nothing /\ DOMAIN kept = {} /\ kept \in [DOMAIN kept -> Known]
  BY DEF Init, Nothing
<1>2. Typed
  BY <1>1, LengthsAre DEF Init, Typed, Knowing
<1>3. Told(kept, state) /\ Behind(kept) /\ ~Running
  BY <1>1 DEF Told, Behind, Running, Init
<1>4. pc # "up" /\ pc \notin {"aborted", "garbled"} /\ Laid /\ Loads
  BY <1>1 DEF Init, Laid, Loads, Reading
<1> QED BY <1>2, <1>3, <1>4 DEF IInv

\* A process that ended in a save promises nothing more.
LEMMA CrashInSaveKeeps == ASSUME NEW ch, CrashInSave(ch) PROVE IInv'
BY DEF CrashInSave, IInv

\* A step that saves nothing and reads nothing.
LEMMA QuietKeeps ==
  ASSUME IInv, ~torn, UNCHANGED <<state, kept, acked>>, qts' \in 0..Len(ChatOf),
         pc' \in {"down", "up"},
         pc' = "up" => left' \in Nat /\ state <= qts' /\ Told(kept, qts'),
         Running' => chats' = kept,
         Laid', Loads'
  PROVE  IInv'
<1>1. Typed'
  BY DEF IInv, Typed, Knowing
<1>2. Told(kept', state') /\ (Behind(kept))'
  BY DEF IInv, Told, Behind
<1>3. /\ pc' = "up" => left' \in Nat /\ state' <= qts' /\ Told(kept', qts')
      /\ ~ (pc' \in {"aborted", "garbled"})
  OBVIOUS
<1>4. ASSUME Running' PROVE OnDisk'
  <2>1. kept' = kept /\ chats' = kept /\ kept \in [DOMAIN kept -> Known]
    BY <1>4 DEF IInv, Typed, Knowing
  <2>2. \A c \in DOMAIN kept : kept[c].out \in Nat
    BY <2>1, LengthsAre DEF Known
  <2> QED BY <2>1, <2>2 DEF OnDisk
<1> QED BY <1>1, <1>2, <1>3, <1>4 DEF IInv

\* A change of what is known that is saved.
LEMMA SavedKeeps ==
  ASSUME IInv, ~torn, pc = "up", pc' = "up", left' = 0, state <= qts,
         ~Reading, NEW ch, Knowing(ch),
         chats' = ch, kept' = ch, file' = Saved(ch), UNCHANGED state,
         qts' \in 0..Len(ChatOf), qts <= qts', Told(ch, qts'),
         acked' \in [Chats -> Nat], \A c \in DOMAIN ch : ch[c].out >= acked'[c]
  PROVE  IInv'
<1>1. state \in 0..Len(ChatOf) /\ qts \in 0..Len(ChatOf) /\ state <= qts'
  BY LengthsAre DEF IInv, Typed
<1>2. Typed'
  BY <1>1 DEF Typed, Knowing
<1>3. Told(kept', state') /\ Told(kept', qts')
  BY <1>1, LengthsAre DEF Told
<1>4. (Behind(kept))' /\ OnDisk'
  <2>1. ch \in [DOMAIN ch -> Known] /\ \A c \in DOMAIN ch : ch[c].out \in Nat
    BY LengthsAre DEF Knowing, Known
  <2> QED BY <2>1 DEF Behind, OnDisk
<1>5. file \in Seq(Item)
  BY EmptySeq DEF IInv, Laid, Holds, Reading
<1>6. Holds(Saved(ch), ch) /\ Saved(ch)[3].num = Cardinality(DOMAIN ch)
  BY <1>5, SavedHolds
<1>7. Laid' /\ Loads'
  BY <1>6 DEF Laid, Loads, Reading, Holds
<1>8. ~ (pc' \in {"aborted", "garbled"})
  OBVIOUS
<1> QED BY <1>1, <1>2, <1>3, <1>4, <1>7, <1>8 DEF IInv

-----------------------------------------------------------------------------
(* Start and end of the process.                                           *)

LEMMA StartKeeps == ASSUME IInv, ~torn, Start PROVE IInv' /\ Restores
<1>1. /\ UNCHANGED <<file, state, kept, acked>> /\ qts' = state
      /\ pc = "down" /\ chats' = Nothing /\ pos' = 4
  BY DEF Start
<1>2. Typed /\ Knowing(kept) /\ Told(kept, state) /\ Laid
  BY DEF IInv, Typed
<1>3. /\ 0 \in 0..N /\ Nothing = First(kept, 0) /\ Len(Content(First(kept, 0))) = 0
      /\ DOMAIN Nothing = {}
  BY <1>2, NoneRead
<1>4. CASE file = <<>>
  <2>1. pc' = "up" /\ left' = 0
    BY <1>4 DEF Start
  <2>2. DOMAIN kept = {}
    BY <1>1, <1>2, <1>4, EmptySeq DEF Laid, Holds, Reading
  <2>3. chats' = kept /\ SameNumbers(chats', kept)
    BY <1>1, <1>2, <2>2, NothingKept, SameAsRead
  <2>4. Laid' /\ Loads'
    BY <1>1, <1>4, <2>1, <2>2 DEF Laid, Loads, Reading
  <2>5. state \in 0..Len(ChatOf) /\ state <= qts' /\ Told(kept, qts')
    BY <1>1, <1>2, LengthsAre DEF Typed
  <2>6. IInv'
    BY <1>1, <2>1, <2>3, <2>4, <2>5, QuietKeeps
  <2> QED BY <2>3, <2>6 DEF Restores
<1>5. CASE file # <<>>
  <2>1. Holds(file, kept) /\ file[3].num = Cardinality(DOMAIN kept)
    BY <1>1, <1>2, <1>5 DEF Laid, Reading
  <2>2. ~ (Len(file) < 3)
    <3>1. 0 \in 0..N /\ Len(Content(kept)) \in Nat
      BY <1>2, <1>3, ContentBegins DEF Begins
    <3> QED BY <2>1, <3>1 DEF Holds
  <2>3. pc' = "up" /\ left' = Cardinality(DOMAIN kept)
    BY <1>5, <2>1, <2>2 DEF Start
  <2>4. IsFiniteSet(DOMAIN kept) /\ Cardinality(DOMAIN kept) \in Nat
    BY <1>2, ChatsFinite DEF Knowing
  <2>5. left' = 0 => chats' = kept
    <3>1. left' = 0 => DOMAIN kept = {}
      BY <2>3, <2>4, FS_EmptySet
    <3> QED BY <1>1, <1>2, <3>1, NothingKept
  <2>11. left' = 0 => SameNumbers(chats', kept)
    BY <1>2, <2>5, SameAsRead
  <2>6. Laid'
    BY <1>1, <2>1 DEF Laid, Holds
  <2>7. Loads'
    <3>1. chats' = First(kept, 0) /\ pos' = 4 + Len(Content(First(kept, 0))) /\ pos' = 4
      BY <1>1, <1>3
    <3>2. DOMAIN kept \ DOMAIN chats' = DOMAIN kept
      BY <1>1, <1>3
    <3>3. Knowing(First(kept, 0)) /\ SameNumbers(First(kept, 0), First(kept, 0))
      BY <1>2, <1>3, ContentBegins, SameAsRead
    <3>4. Unread(file, kept, 4)
      BY <2>1 DEF Unread, Holds
    <3>5. Holds(file, First(kept, 0))
      <4>1. Len(Content(kept)) \in Nat
        BY <1>2, <1>3, ContentBegins DEF Begins
      <4> DEFINE d == Content(First(kept, 0))
      <4>2. Len(d) = 0
        BY <1>3
      <4>3. file \in Seq(Item) /\ Len(file) \in Nat /\ Len(file) >= 3 + Len(Content(kept))
        BY <2>1 DEF Holds
      <4> HIDE DEF d
      <4>4. Len(file) >= 3 + Len(d) /\ \A k \in 1..Len(d) : file[3 + k] = d[k]
        BY <4>1, <4>2, <4>3
      <4> QED BY <4>3, <4>4 DEF Holds, d
    <3>6. (Ahead(0))'
      BY <1>1, <2>3, <3>1, <3>2, <3>3, <3>4 DEF Ahead
    <3>7. Knowing(chats') /\ Holds(file', chats') /\ pos' \in Nat /\ pos' >= 4
      BY <1>1, <3>1, <3>3, <3>5
    <3> QED BY <1>3, <3>6, <3>7 DEF Loads, Knowing, Holds
  <2>8. state \in 0..Len(ChatOf) /\ state <= qts' /\ Told(kept, qts')
    BY <1>1, <1>2, LengthsAre DEF Typed
  <2>9. Running' => chats' = kept
    BY <2>5 DEF Running
  <2>10. IInv'
    BY <1>1, <2>3, <2>4, <2>6, <2>7, <2>8, <2>9, QuietKeeps
  <2> QED BY <2>10, <2>11 DEF Restores
<1> QED BY <1>4, <1>5

LEMMA CrashKeeps == ASSUME IInv, Crash PROVE IInv'
<1> SUFFICES ASSUME ~torn, ~torn' PROVE IInv'
  BY DEF Crash, IInv
<1>1. /\ UNCHANGED <<file, state, kept, acked>> /\ qts' = 0 /\ pc = "up" /\ pc' = "down" /\ ~Running'
      /\ ~Reading' /\ ~ (left > 0 /\ pos > 4)
  BY DEF Crash, Down, Running, Reading
<1>2. Laid'
  BY <1>1 DEF IInv, Laid, Holds, Reading
<1>3. Loads' /\ qts' \in 0..Len(ChatOf)
  BY <1>1, LengthsAre DEF Loads
<1> QED BY <1>1, <1>2, <1>3, QuietKeeps

\* What there is to read next is the entry of the next chat.
LEMMA NextRead ==
  ASSUME IInv, ~torn, Reading, ~Outgrown
  PROVE  \E m \in 1..N, c \in Chats \ DOMAIN chats :
           /\ c \in DOMAIN kept /\ Knowing(kept) /\ Unread(file, kept, pos)
           /\ left = Cardinality(DOMAIN kept \ DOMAIN chats)
           /\ EntryIs(c, kept[c])
           /\ pos + 3 + kept[c].name = 4 + Len(Content(First(kept, m)))
           /\ DOMAIN First(kept, m) = DOMAIN chats \cup {c}
           /\ \A d \in DOMAIN First(kept, m) : First(kept, m)[d] = kept[d]
           /\ \A d \in DOMAIN chats : chats[d].in = kept[d].in /\ chats[d].out = kept[d].out
<1>1. Knowing(kept) /\ left > 0
  BY DEF IInv, Typed, Reading
<1>2. PICK n \in 0..N : Ahead(n)
  BY DEF IInv, Loads
<1>3. /\ SameNumbers(chats, First(kept, n)) /\ pos = 4 + Len(Content(First(kept, n)))
      /\ Unread(file, kept, pos) /\ left = Cardinality(DOMAIN kept \ DOMAIN chats)
      /\ DOMAIN chats = DOMAIN First(kept, n)
  BY <1>2 DEF Ahead, SameNumbers
<1>4. DOMAIN kept \ DOMAIN First(kept, n) # {}
  <2> SUFFICES ASSUME DOMAIN kept \ DOMAIN First(kept, n) = {} PROVE FALSE
    OBVIOUS
  <2>1. Cardinality({}) = 0
    BY FS_EmptySet
  <2>2. DOMAIN kept \ DOMAIN chats = {}
    BY <1>3
  <2>3. left = 0
    BY <1>3, <2>1, <2>2
  <2> QED BY <1>1, <2>3
<1>5. PICK m \in 1..N :
        /\ ById[m] \in DOMAIN kept \ DOMAIN First(kept, n)
        /\ First(kept, m - 1) = First(kept, n)
        /\ First(kept, m) = [d \in DOMAIN First(kept, n) \cup {ById[m]} |->
                              IF d = ById[m] THEN kept[ById[m]] ELSE First(kept, n)[d]]
  BY <1>1, <1>4, FirstAdds
<1> DEFINE c == ById[m]
<1>6. c \in DOMAIN kept \ DOMAIN chats /\ DOMAIN First(kept, m) = DOMAIN chats \cup {c}
  BY <1>3, <1>5
<1>7. \A i \in 0..N : \A d \in DOMAIN First(kept, i) : First(kept, i)[d] = kept[d]
  BY DEF First
<1>8. m \in 0..N
  BY <1>5, ChatsAre
<1>9. pos = Place(kept, m)
  BY <1>3, <1>5 DEF Place
<1>10. /\ EntryIs(ById[m], kept[ById[m]])
       /\ pos + 3 + kept[ById[m]].name = 4 + Len(Content(First(kept, m)))
  <2>1. ById[m] \in DOMAIN kept
    BY <1>5
  <2> QED BY <1>1, <1>3, <1>9, <2>1, EntryThere
<1>11. \A d \in DOMAIN chats : chats[d].in = kept[d].in /\ chats[d].out = kept[d].out
  BY <1>3, <1>7 DEF SameNumbers
<1> HIDE DEF c
<1>12. EntryIs(c, kept[c]) /\ pos + 3 + kept[c].name = 4 + Len(Content(First(kept, m)))
  BY <1>10 DEF c
<1>13. c \in Chats \ DOMAIN chats /\ c \in DOMAIN kept
  BY <1>1, <1>6 DEF Knowing
<1> QED BY <1>1, <1>3, <1>6, <1>7, <1>8, <1>11, <1>12, <1>13

\* Once the names have outgrown what was read, there is no entry.
LEMMA NoneOutgrown ==
  ASSUME IInv, ~torn, Reading, Outgrown, NEW c \in Chats \ DOMAIN chats, NEW known \in Known,
         EntryIs(c, known)
  PROVE  FALSE
<1>1. pos \in Nat /\ pos >= 4 /\ Knowing(chats) /\ Holds(file, chats)
  BY DEF IInv, Loads
<1>2. pos <= 3 + Len(Content(chats)) /\ Len(Content(chats)) \in Nat
  <2>1. Placeholder \in Nat
    BY DEF Placeholder
  <2> QED BY <1>1, <2>1, ItemsAre DEF Outgrown
<1> DEFINE k == pos - 3
<1>3. k \in 1..Len(Content(chats)) /\ 3 + k = pos
  BY <1>1, <1>2
<1> HIDE DEF k
<1>4. file[pos] = Content(chats)[k] /\ file \in Seq(Item)
  BY <1>1, <1>3 DEF Holds
<1>5. file[pos].chat \in DOMAIN chats
  BY <1>1, <1>3, <1>4, ContentOf
<1>6. file[pos].chat = c
  <2>1. pos > 0 /\ c \in Chats
    BY <1>1
  <2>2. file[pos] = [is |-> "id", chat |-> c]
    BY <1>1, <1>4, <2>1, EntryShows
  <2> QED BY <2>2
<1> QED BY <1>5, <1>6

\* One chat fewer is left.
LEMMA OneFewer ==
  ASSUME NEW S, S \subseteq Chats, NEW R, NEW c \in S \ R
  PROVE  /\ Cardinality(S \ (R \cup {c})) = Cardinality(S \ R) - 1
         /\ Cardinality(S \ (R \cup {c})) \in Nat
         /\ Cardinality(S \ (R \cup {c})) = 0 => S \subseteq R \cup {c}
<1>1. IsFiniteSet(S \ R) /\ IsFiniteSet((S \ R) \ {c})
  BY ChatsFinite
<1>2. Cardinality((S \ R) \ {c}) = Cardinality(S \ R) - 1
  BY <1>1, FS_RemoveElement
<1>3. (S \ R) \ {c} = S \ (R \cup {c})
  OBVIOUS
<1>4. Cardinality((S \ R) \ {c}) \in Nat
  BY <1>1, FS_CardinalityType
<1>5. Cardinality((S \ R) \ {c}) = 0 => (S \ R) \ {c} = {}
  BY <1>1, FS_EmptySet
<1> QED BY <1>2, <1>3, <1>4, <1>5

\* It is read, and given a name; those read so far are saved.
LEMMA LoadEntryKeeps ==
  ASSUME IInv, ~torn, Reading, NEW c \in Chats \ DOMAIN chats, NEW known \in Known,
         LoadEntry(c, known)
  PROVE  IInv' /\ Restores
<1>1. EntryIs(c, known) /\ UNCHANGED acked
  BY DEF LoadEntry
<1>2. ~Outgrown
  BY <1>1, NoneOutgrown
<1>3. PICK m \in 1..N, e \in Chats \ DOMAIN chats :
        /\ e \in DOMAIN kept /\ Knowing(kept) /\ Unread(file, kept, pos)
        /\ left = Cardinality(DOMAIN kept \ DOMAIN chats)
        /\ EntryIs(e, kept[e])
        /\ pos + 3 + kept[e].name = 4 + Len(Content(First(kept, m)))
        /\ DOMAIN First(kept, m) = DOMAIN chats \cup {e}
        /\ \A d \in DOMAIN First(kept, m) : First(kept, m)[d] = kept[d]
        /\ \A d \in DOMAIN chats : chats[d].in = kept[d].in /\ chats[d].out = kept[d].out
  BY <1>2, NextRead
<1>4. file \in Seq(Item) /\ pos \in Nat /\ pos >= 4 /\ Knowing(chats) /\ pc = "up" /\ left > 0
  BY <1>3 DEF IInv, Loads, Reading, Unread
<1>5. c = e /\ known = kept[c]
  <2>1. kept[e] \in Known /\ pos > 0
    BY <1>3, <1>4 DEF Knowing
  <2> QED BY <1>1, <1>3, <1>4, <2>1, EntryOnce
<1>6. PICK l \in Lengths :
        LET read == With(c, [known EXCEPT !.name = l])
        IN \/ /\ chats' = read
              /\ pos' = pos + 3 + known.name /\ left' = left - 1
              /\ file' = Saved(read)
              /\ kept' = IF left' = 0 THEN read ELSE kept
              /\ UNCHANGED <<pc, qts, wqts, state, torn>>
           \/ CrashInSave(read)
  BY DEF LoadEntry
<1> DEFINE new == [known EXCEPT !.name = l]
           read == With(c, new)
           first == First(kept, m)
<1>7. new \in Known /\ new.in = kept[c].in /\ new.out = kept[c].out
  BY <1>5 DEF Known
<1> HIDE DEF new
<1>8. /\ DOMAIN read = DOMAIN chats \cup {c} /\ read[c] = new
      /\ \A d \in DOMAIN chats : read[d] = chats[d]
      /\ read = [d \in DOMAIN read |-> read[d]]
  BY DEF With
<1>9. \/ CrashInSave(read)
      \/ /\ chats' = read
         /\ pos' = pos + 3 + known.name /\ left' = left - 1
         /\ file' = Saved(read)
         /\ kept' = IF left' = 0 THEN read ELSE kept
         /\ UNCHANGED <<pc, qts, state, torn>>
  BY <1>6 DEF new
<1> HIDE DEF read
<1>10. Knowing(read)
  BY <1>4, <1>7, <1>8 DEF Knowing
<1>11. SameNumbers(read, first)
  BY <1>3, <1>5, <1>7, <1>8 DEF SameNumbers
<1> HIDE DEF first
<1>12. CASE CrashInSave(read)
  <2>1. pc' = "down"
    BY <1>12 DEF CrashInSave, Down
  <2> QED BY <1>12, <2>1, CrashInSaveKeeps DEF Restores
<1>13. CASE ~ CrashInSave(read)
  <2>1. /\ chats' = read /\ pos' = pos + 3 + kept[c].name /\ left' = left - 1
        /\ file' = Saved(read) /\ kept' = IF left' = 0 THEN read ELSE kept
        /\ UNCHANGED <<pc, qts, state, torn>>
    BY <1>5, <1>9, <1>13
  <2>2. DOMAIN kept \subseteq Chats /\ c \in DOMAIN kept \ DOMAIN chats
        /\ left = Cardinality(DOMAIN kept \ DOMAIN chats)
    BY <1>3, <1>5 DEF Knowing
  <2>3. /\ left' = Cardinality(DOMAIN kept \ DOMAIN read) /\ left' \in Nat
        /\ left' = 0 => DOMAIN kept = DOMAIN read
    <3>1. DOMAIN read \subseteq DOMAIN kept
      <4>1. DOMAIN first \subseteq DOMAIN kept
        BY DEF first, First
      <4> QED BY <1>11, <4>1 DEF SameNumbers
    <3> DEFINE S == DOMAIN kept
               R == DOMAIN chats
    <3>2. S \subseteq Chats /\ c \in S \ R /\ left = Cardinality(S \ R)
      BY <2>2
    <3>3. DOMAIN read = R \cup {c} /\ DOMAIN read \subseteq S
      BY <1>8, <3>1
    <3> HIDE DEF S, R
    <3>4. /\ Cardinality(S \ (R \cup {c})) = Cardinality(S \ R) - 1
          /\ Cardinality(S \ (R \cup {c})) \in Nat
          /\ Cardinality(S \ (R \cup {c})) = 0 => S \subseteq R \cup {c}
      BY <3>2, OneFewer
    <3>5. left' = left - 1
      BY <2>1
    <3>6. left' = Cardinality(S \ DOMAIN read) /\ left' \in Nat /\ (left' = 0 => S = DOMAIN read)
      BY <3>2, <3>3, <3>4, <3>5
    <3> QED BY <3>6 DEF S
  <2>4. Holds(file', read) /\ file'[3].num = Cardinality(DOMAIN read)
    BY <1>4, <1>10, <2>1, SavedHolds
  <2>5. pos' \in Nat /\ pos' >= 4 /\ pos' > 4 /\ pos' = 4 + Len(Content(first))
    <3>1. kept[c].name \in Nat
      <4>1. kept[c] \in Known
        BY <1>5
      <4> QED BY <4>1, EntryForm
    <3>2. pos + 3 + kept[c].name = 4 + Len(Content(first))
      BY <1>3, <1>5 DEF first
    <3> QED BY <1>4, <2>1, <3>1, <3>2
  <2>6. pc' = "up" /\ state <= qts /\ Told(kept, state) /\ Told(kept, qts) /\ Behind(kept) /\ Typed
    BY <1>4, <2>1 DEF IInv
  <2>7. CASE left' = 0
    <3>1. kept' = read /\ chats' = read
      BY <2>1, <2>7
    <3>2. \A d \in DOMAIN read : d \in DOMAIN kept /\ read[d].in = kept[d].in /\ read[d].out = kept[d].out
      BY <1>3, <1>5, <1>7, <1>8, <2>3, <2>7
    <3>3. SameNumbers(read, kept)
      BY <2>3, <2>7, <3>2 DEF SameNumbers
    <3>4. Typed'
      BY <1>1, <1>10, <2>1, <2>6, <3>1 DEF Typed, Knowing
    <3>5. Told(kept', state') /\ Told(kept', qts') /\ (Behind(kept))'
      BY <1>1, <2>1, <2>6, <3>1, <3>2 DEF Told, Behind
    <3>6. OnDisk'
      <4>1. read \in [DOMAIN read -> Known] /\ \A d \in DOMAIN read : read[d].out \in Nat
        BY <1>10, LengthsAre DEF Knowing, Known
      <4> QED BY <3>1, <4>1 DEF OnDisk
    <3>7. Laid' /\ Loads'
      <4>1. Laid'
        BY <2>4, <3>1 DEF Laid, Holds
      <4> QED BY <2>7, <4>1 DEF Loads, Reading
    <3>8. IInv'
      <4>1. left' \in Nat /\ state' <= qts' /\ ~ (pc' \in {"aborted", "garbled"})
        BY <2>1, <2>3, <2>6
      <4> QED BY <3>4, <3>5, <3>6, <3>7, <4>1 DEF IInv
    <3> QED BY <3>1, <3>3, <3>8 DEF Restores
  <2>8. CASE left' # 0
    <3>1. kept' = kept /\ left' > 0 /\ Reading' /\ ~Running'
      <4>1. kept' = kept
        BY <2>1, <2>8
      <4>2. left' > 0 /\ pc' = "up"
        BY <2>3, <2>6, <2>8
      <4> QED BY <4>1, <4>2 DEF Reading, Running
    <3>2. Typed' /\ Told(kept', state') /\ Told(kept', qts') /\ (Behind(kept))'
      BY <1>1, <2>1, <2>6, <3>1 DEF Typed, Knowing, Told, Behind
    <3>3. Laid'
      BY <2>5, <3>1 DEF Laid
    <3>4. ASSUME ~Outgrown' PROVE (Ahead(m))'
      <4>1. ~ (pos' <= Len(Items(read, Placeholder)))
        BY <2>1, <3>1, <3>4 DEF Outgrown
      <4>2. Unread(file, kept, pos')
        <5>1. kept \in [DOMAIN kept -> Known] /\ pos <= pos'
          <6>1. kept[c].name \in Nat
            <7>1. kept[c] \in Known
              BY <1>5
            <7> QED BY <7>1, EntryForm
          <6> QED BY <1>3, <1>4, <2>1, <6>1 DEF Knowing
        <5>2. \A k \in Nat : 3 + k >= pos' => 3 + k >= pos
          BY <1>4, <2>5, <5>1
        <5>3. Len(Content(kept)) \in Nat /\ \A k \in 1..Len(Content(kept)) : k \in Nat
          <6>1. N \in 0..N
            BY ChatsAre
          <6> QED BY <1>3, <6>1, ContentBegins DEF Begins
        <5> QED BY <1>3, <5>2, <5>3 DEF Unread
      <4>3. Unread(Saved(read), kept, pos')
        BY <1>3, <1>10, <2>5, <4>1, <4>2, SavedLeaves
      <4> QED BY <1>11, <2>1, <2>3, <2>5, <3>1, <4>3 DEF Ahead, first
    <3>5. Loads'
      <4>1. m \in 0..N
        BY <1>3, ChatsAre
      <4>2. Knowing(chats') /\ Holds(file', chats')
        BY <1>10, <2>1, <2>4
      <4>3. Outgrown' \/ \E n \in 0..N : (Ahead(n))'
        BY <3>4, <4>1
      <4> QED BY <2>5, <4>2, <4>3 DEF Loads, Knowing, Holds
    <3>6. left' \in Nat /\ state' <= qts' /\ ~ (pc' \in {"aborted", "garbled"})
      BY <2>1, <2>3, <2>6
    <3> QED BY <2>8, <3>1, <3>2, <3>3, <3>5, <3>6 DEF IInv, Restores
  <2> QED BY <2>7, <2>8
<1> QED BY <1>12, <1>13

LEMMA LoadFailsKeeps == ASSUME IInv, ~torn, Reading, LoadFails PROVE IInv' /\ Restores
<1>1. /\ UNCHANGED <<chats, qts, pos, left, file, state, kept, acked, torn>>
      /\ pc' \in {"garbled", "aborted"}
      /\ ~ \E c \in Chats \ DOMAIN chats, known \in Known : EntryIs(c, known)
  BY DEF LoadFails, reading
<1>2. Outgrown
  <2> SUFFICES ASSUME ~Outgrown PROVE FALSE
    OBVIOUS
  <2>1. \E m \in 1..N, c \in Chats \ DOMAIN chats :
          c \in DOMAIN kept /\ Knowing(kept) /\ EntryIs(c, kept[c])
    BY NextRead
  <2>2. PICK c \in Chats \ DOMAIN chats : c \in DOMAIN kept /\ Knowing(kept) /\ EntryIs(c, kept[c])
    BY <2>1
  <2>3. kept[c] \in Known
    BY <2>2 DEF Knowing
  <2> QED BY <1>1, <2>2, <2>3
<1>3. Outgrown'
  BY <1>1, <1>2 DEF Outgrown
<1>4. Typed' /\ Told(kept', state') /\ (Behind(kept))'
  BY <1>1 DEF IInv, Typed, Knowing, Told, Behind
<1>5. pc' # "up" /\ ~Running' /\ Laid' /\ Loads'
  BY <1>1 DEF Running, Laid, Loads, Reading
<1> QED BY <1>3, <1>4, <1>5 DEF IInv, Restores

LEMMA LoadChatKeeps == ASSUME IInv, ~torn, LoadChat PROVE IInv' /\ Restores
<1>1. Reading
  BY DEF LoadChat, Reading
<1> QED BY <1>1, LoadEntryKeeps, LoadFailsKeeps DEF LoadChat

-----------------------------------------------------------------------------
(* The process at work.                                                    *)

\* What the steps of the process at work have in common.
AtWork ==
  /\ ~torn /\ Running /\ Typed /\ OnDisk
  /\ state <= qts /\ Told(kept, qts) /\ Behind(kept)

LEMMA WorkIsSound == IInv /\ ~torn /\ Running => AtWork
BY DEF IInv, AtWork, Running

\* The chats in memory are known as well as those on disk.
LEMMA MemoryIsSound ==
  ASSUME AtWork
  PROVE  /\ Knowing(chats) /\ DOMAIN chats = DOMAIN kept
         /\ Told(chats, qts) /\ Behind(chats)
<1>1. DOMAIN chats = DOMAIN kept /\ chats \in [DOMAIN chats -> Known] /\ Knowing(chats)
  BY DEF AtWork, OnDisk, Typed, Knowing
<1>2. Told(chats, qts)
  BY <1>1 DEF AtWork, OnDisk, Told
<1>3. ASSUME NEW c \in DOMAIN chats PROVE chats[c].out >= acked[c]
  <2>1. kept[c].out \in Nat /\ chats[c].out \in Nat /\ acked[c] \in Nat
    BY <1>1, LengthsAre DEF AtWork, Typed, Knowing, Known
  <2>2. chats[c].out >= kept[c].out /\ kept[c].out >= acked[c]
    BY <1>1 DEF AtWork, OnDisk, Behind
  <2> QED BY <2>1, <2>2
<1> QED BY <1>1, <1>2, <1>3 DEF Behind

\* What is not written stays as it is.
LEMMA LaidStays ==
  ASSUME IInv, ~torn, Running, UNCHANGED <<pc, left, file, kept>>
  PROVE  Running' /\ Laid' /\ Loads'
<1>1. ~Reading /\ ~Reading' /\ Running'
  BY DEF Running, Reading
<1>2. Laid'
  BY <1>1 DEF IInv, Laid, Holds
<1> QED BY <1>1, <1>2 DEF Loads

\* A change that is saved, if the save is not cut.
LEMMA SaveIs ==
  ASSUME AtWork, NEW ch, Save(ch)
  PROVE  \/ CrashInSave(ch)
         \/ /\ pc = "up" /\ pc' = "up" /\ left' = 0 /\ ~Reading
            /\ chats' = ch /\ kept' = ch /\ file' = Saved(ch) /\ UNCHANGED state
BY DEF AtWork, Running, Reading, Save, reading

LEMMA EstablishKeeps == ASSUME IInv, ~torn, NEW c \in Chats, Establish(c) PROVE IInv'
<1>0. PICK l \in Lengths : Save(With(c, [in |-> qts, out |-> 0, name |-> l]))
  BY DEF Establish
<1> DEFINE ch == With(c, [in |-> qts, out |-> 0, name |-> l])
<1>1. AtWork /\ c \notin DOMAIN chats /\ acked' = [acked EXCEPT ![c] = 0] /\ Save(ch)
  BY <1>0, WorkIsSound DEF Establish
<1>2. DOMAIN ch = DOMAIN chats \cup {c} /\ ch[c] = [in |-> qts, out |-> 0, name |-> l]
      /\ \A d \in DOMAIN chats : ch[d] = chats[d]
  BY <1>1 DEF With
<1>3. qts \in 0..Len(ChatOf) /\ acked \in [Chats -> Nat]
  BY <1>1 DEF AtWork, Typed
<1>4. /\ Knowing(ch) /\ Told(ch, qts)
      /\ acked' \in [Chats -> Nat] /\ \A d \in DOMAIN ch : ch[d].out >= acked'[d]
  <2>1. ch = [d \in DOMAIN ch |-> ch[d]]
    BY DEF With
  <2> HIDE DEF ch
  <2>2. \A d \in DOMAIN ch : ch[d] \in Known
    <3>1. [in |-> qts, out |-> 0, name |-> l] \in Known
      BY <1>3, LengthsAre DEF Known
    <3> QED BY <1>1, <1>2, <3>1, MemoryIsSound DEF Knowing
  <2>3. Told(ch, qts)
    BY <1>1, <1>2, <1>3, LengthsAre, MemoryIsSound DEF Told
  <2>4. acked' \in [Chats -> Nat] /\ \A d \in DOMAIN ch : ch[d].out >= acked'[d]
    BY <1>1, <1>2, <1>3, MemoryIsSound DEF Behind
  <2> QED BY <1>1, <1>2, <2>1, <2>2, <2>3, <2>4, MemoryIsSound DEF Knowing
<1> HIDE DEF ch
<1>5. CASE CrashInSave(ch)
  BY <1>5, CrashInSaveKeeps
<1>6. CASE ~CrashInSave(ch)
  <2>1. /\ pc = "up" /\ pc' = "up" /\ left' = 0 /\ ~Reading
        /\ chats' = ch /\ kept' = ch /\ file' = Saved(ch) /\ UNCHANGED state
    BY <1>1, <1>6, SaveIs
  <2>2. qts' = qts /\ state <= qts /\ qts <= qts'
    BY <1>1, <1>3, <2>1, LengthsAre DEF Establish, AtWork
  <2> QED BY <1>3, <1>4, <2>1, <2>2, SavedKeeps
<1> QED BY <1>5, <1>6

LEMMA DiscardKeeps == ASSUME IInv, ~torn, NEW c \in Chats, Discard(c) PROVE IInv'
<1> DEFINE ch == [d \in DOMAIN chats \ {c} |-> chats[d]]
<1>1. AtWork /\ acked' = [acked EXCEPT ![c] = 0] /\ Save(ch)
  BY WorkIsSound DEF Discard
<1>2. /\ DOMAIN ch = DOMAIN chats \ {c} /\ \A d \in DOMAIN ch : ch[d] = chats[d]
      /\ ch = [d \in DOMAIN ch |-> ch[d]]
  OBVIOUS
<1>3. qts \in 0..Len(ChatOf) /\ acked \in [Chats -> Nat]
  BY <1>1 DEF AtWork, Typed
<1> HIDE DEF ch
<1>4. /\ Knowing(ch) /\ Told(ch, qts)
      /\ acked' \in [Chats -> Nat] /\ \A d \in DOMAIN ch : ch[d].out >= acked'[d]
  <2>1. Knowing(ch)
    BY <1>1, <1>2, MemoryIsSound DEF Knowing
  <2>2. Told(ch, qts)
    BY <1>1, <1>2, MemoryIsSound DEF Told
  <2>3. acked' \in [Chats -> Nat] /\ \A d \in DOMAIN ch : ch[d].out >= acked'[d]
    BY <1>1, <1>2, <1>3, MemoryIsSound DEF Behind, Knowing
  <2> QED BY <2>1, <2>2, <2>3
<1>5. CASE CrashInSave(ch)
  BY <1>5, CrashInSaveKeeps
<1>6. CASE ~CrashInSave(ch)
  <2>1. /\ pc = "up" /\ pc' = "up" /\ left' = 0 /\ ~Reading
        /\ chats' = ch /\ kept' = ch /\ file' = Saved(ch) /\ UNCHANGED state
    BY <1>1, <1>6, SaveIs
  <2>2. qts' = qts /\ state <= qts /\ qts <= qts'
    BY <1>1, <1>3, <2>1, LengthsAre DEF Discard, AtWork
  <2> QED BY <1>3, <1>4, <2>1, <2>2, SavedKeeps
<1> QED BY <1>5, <1>6

LEMMA AcknowledgeKeeps == ASSUME IInv, ~torn, NEW c \in Chats, Acknowledge(c) PROVE IInv'
<1>1. AtWork /\ c \in DOMAIN chats /\ acked[c] < chats[c].out /\ Save(chats)
  BY WorkIsSound DEF Acknowledge
<1>2. CASE CrashInSave(chats)
  BY <1>2, CrashInSaveKeeps
<1>3. CASE ~CrashInSave(chats)
  <2>1. /\ pc = "up" /\ pc' = "up" /\ left' = 0 /\ ~Reading
        /\ chats' = chats /\ kept' = chats /\ file' = Saved(chats) /\ UNCHANGED state
    BY <1>1, <1>3, SaveIs
  <2>2. qts \in 0..Len(ChatOf) /\ qts' = qts /\ state <= qts /\ qts <= qts'
        /\ acked' = [acked EXCEPT ![c] = @ + 1]
    BY <1>1, <2>1, LengthsAre DEF Acknowledge, AtWork, Typed
  <2>3. acked' \in [Chats -> Nat] /\ \A d \in DOMAIN chats : chats[d].out >= acked'[d]
    <3>1. acked \in [Chats -> Nat] /\ chats[c].out \in Nat
      BY <1>1, MemoryIsSound, LengthsAre DEF AtWork, Typed, Knowing, Known
    <3> QED BY <1>1, <2>2, <3>1, MemoryIsSound DEF Behind, Knowing
  <2>4. Knowing(chats) /\ Told(chats, qts')
    BY <1>1, <2>2, MemoryIsSound
  <2> QED BY <2>1, <2>2, <2>3, <2>4, SavedKeeps
<1> QED BY <1>2, <1>3

\* A new update of a chat.
LEMMA ReceiveNewKeeps ==
  ASSUME IInv, ~torn, Receive, NEW c, c = ChatOf[qts + 1],
         c \in DOMAIN chats, chats[c].in <= qts
  PROVE  IInv'
<1> DEFINE ch == [chats EXCEPT ![c].in = qts + 1]
<1>1. AtWork /\ qts \in 0..Len(ChatOf) /\ qts < Len(ChatOf) /\ Save(ch) /\ UNCHANGED acked
  BY WorkIsSound DEF Receive, AtWork, Typed
<1>2. qts + 1 \in 0..Len(ChatOf)
  BY <1>1, LengthsAre
<1>3. /\ DOMAIN ch = DOMAIN chats /\ ch = [d \in DOMAIN ch |-> ch[d]]
      /\ \A d \in DOMAIN chats : d # c => ch[d] = chats[d]
      /\ ch[c] = [in |-> qts + 1, out |-> chats[c].out, name |-> chats[c].name]
  BY <1>1, MemoryIsSound DEF Known, Knowing
<1> HIDE DEF ch
<1>4. Knowing(ch)
  <2>1. ch[c] \in Known
    BY <1>1, <1>2, <1>3, MemoryIsSound DEF Known, Knowing
  <2> QED BY <1>1, <1>3, <2>1, MemoryIsSound DEF Knowing
<1>5. Told(ch, qts + 1)
  <2> SUFFICES ASSUME NEW d \in DOMAIN ch, NEW u \in 1..(qts + 1), ChatOf[u] = d
               PROVE  ch[d].in >= u
    BY DEF Told
  <2> QED BY <1>1, <1>2, <1>3, LengthsAre, MemoryIsSound DEF Told
<1>6. \A d \in DOMAIN ch : ch[d].out >= acked'[d]
  BY <1>1, <1>3, MemoryIsSound DEF Behind
<1>7. CASE CrashInSave(ch)
  BY <1>7, CrashInSaveKeeps
<1>8. CASE ~CrashInSave(ch)
  <2>1. /\ pc = "up" /\ pc' = "up" /\ left' = 0 /\ ~Reading
        /\ chats' = ch /\ kept' = ch /\ file' = Saved(ch) /\ UNCHANGED state
    BY <1>1, <1>8, SaveIs
  <2>2. qts' = qts + 1 /\ state <= qts /\ qts <= qts'
    BY <1>1, <2>1, LengthsAre DEF Receive, AtWork
  <2>3. acked' \in [Chats -> Nat] /\ qts' \in 0..Len(ChatOf) /\ Told(ch, qts')
    BY <1>1, <1>2, <1>5, <2>2 DEF AtWork, Typed
  <2> QED BY <1>4, <1>6, <2>1, <2>2, <2>3, SavedKeeps
<1> QED BY <1>7, <1>8

\* An update that is of no chat, or that its chat had before.
LEMMA ReceiveOldKeeps ==
  ASSUME IInv, ~torn, Receive, NEW c, c = ChatOf[qts + 1],
         ~ (c \in DOMAIN chats /\ chats[c].in <= qts)
  PROVE  IInv'
<1>1. AtWork /\ qts \in 0..Len(ChatOf) /\ qts < Len(ChatOf) /\ Running /\ pc = "up" /\ left = 0
      /\ UNCHANGED <<pc, chats, left, file, state, kept, torn, acked>> /\ qts' = qts + 1
  BY WorkIsSound DEF Receive, AtWork, Typed, Running, reading
<1>2. qts' \in 0..Len(ChatOf) /\ qts \in Nat
  BY <1>1, LengthsAre
<1>3. Told(kept, qts')
  <2> SUFFICES ASSUME NEW d \in DOMAIN kept, NEW u \in 1..(qts + 1), ChatOf[u] = d
               PROVE  kept[d].in >= u
    BY <1>1 DEF Told
  <2>1. kept[d].in \in Nat /\ kept[d].in = chats[d].in /\ d \in DOMAIN chats
    BY <1>1, LengthsAre DEF AtWork, OnDisk, Typed, Knowing, Known
  <2>2. CASE u \in 1..qts
    BY <1>1, <2>2 DEF AtWork, Told
  <2>3. CASE u = qts + 1
    BY <1>2, <2>1, <2>3
  <2> QED BY <1>2, <2>2, <2>3
<1>4. Laid' /\ Loads' /\ pc' = "up"
  BY <1>1, LaidStays
<1>5. Typed' /\ OnDisk' /\ (Behind(kept))' /\ state' <= qts' /\ Told(kept', state') /\ left' \in Nat
  BY <1>1, <1>2, LengthsAre DEF AtWork, Typed, Knowing, OnDisk, Behind, IInv, Told
<1> QED BY <1>1, <1>3, <1>4, <1>5 DEF IInv

LEMMA ReceiveKeeps == ASSUME IInv, ~torn, Receive PROVE IInv'
<1> DEFINE c == ChatOf[qts + 1]
<1>1. c = ChatOf[qts + 1]
  OBVIOUS
<1> HIDE DEF c
<1> QED BY <1>1, ReceiveNewKeeps, ReceiveOldKeeps

LEMMA SendKeeps == ASSUME IInv, ~torn, NEW c \in Chats, Send(c) PROVE IInv'
<1>1. AtWork /\ Running /\ c \in DOMAIN chats /\ chats[c].out < MaxSent
      /\ chats' = [chats EXCEPT ![c].out = @ + 1]
      /\ UNCHANGED <<pc, left, qts, file, state, kept, acked, torn>>
  BY WorkIsSound DEF Send, reading
<1>2. /\ chats' \in [DOMAIN kept -> Known]
      /\ \A d \in DOMAIN kept : chats'[d].in = chats[d].in /\ chats'[d].out >= chats[d].out
  <2>1. Knowing(chats) /\ DOMAIN chats = DOMAIN kept
    BY <1>1, MemoryIsSound
  <2>2. chats[c].out + 1 \in 0..MaxSent /\ \A d \in DOMAIN chats : chats[d].out \in Nat
    BY <1>1, <2>1, LengthsAre DEF Knowing, Known
  <2> QED BY <1>1, <2>1, <2>2 DEF Knowing, Known
<1>3. OnDisk'
  <2>1. \A d \in DOMAIN kept : chats[d].out \in Nat /\ kept[d].out \in Nat /\ chats'[d].out \in Nat
    BY <1>1, <1>2, LengthsAre, MemoryIsSound DEF Known, Knowing, AtWork, Typed
  <2> QED BY <1>1, <1>2, <2>1 DEF AtWork, OnDisk
<1>4. Laid' /\ Loads' /\ left' \in Nat /\ pc' = "up"
  BY <1>1, LaidStays DEF Running
<1>5. Typed' /\ (Behind(kept))' /\ Told(kept', state') /\ Told(kept', qts') /\ state' <= qts'
  BY <1>1 DEF AtWork, IInv, Typed, Knowing, Behind, Told
<1> QED BY <1>3, <1>4, <1>5 DEF IInv

LEMMA EndTurnKeeps == ASSUME IInv, ~torn, EndTurn PROVE IInv'
<1>1. AtWork /\ Running /\ state' = qts
      /\ UNCHANGED <<pc, chats, left, qts, file, kept, acked, torn>>
  BY WorkIsSound DEF EndTurn, reading
<1>2. Laid' /\ Loads' /\ left' \in Nat /\ pc' = "up"
  BY <1>1, LaidStays DEF Running
<1>3. Typed' /\ OnDisk' /\ (Behind(kept))' /\ Told(kept', state') /\ Told(kept', qts')
      /\ state' <= qts'
  BY <1>1, LengthsAre DEF AtWork, Typed, Knowing, OnDisk, Behind, Told
<1> QED BY <1>2, <1>3 DEF IInv

-----------------------------------------------------------------------------
(* Every step.                                                             *)

\* Once torn, nothing is promised.
LEMMA TornStays == ASSUME torn, Start \/ Crash \/ LoadChat PROVE torn'
BY DEF Start, Crash, LoadChat, LoadEntry, LoadFails, CrashInSave

LEMMA NextIInv == IInv /\ [Next]_vars => IInv'
<1> SUFFICES ASSUME IInv, [Next]_vars PROVE IInv'
  OBVIOUS
<1>1. CASE UNCHANGED vars
  BY <1>1 DEF vars, reading, IInv, Typed, Told, Behind, OnDisk, Running, Knowing, Reading,
     Laid, Holds, Loads, Outgrown, Ahead, SameNumbers, Unread
<1>2. CASE Next /\ torn
  BY <1>2, TornStays DEF Next, IInv
<1>3. CASE Next /\ ~torn
  BY <1>3, StartKeeps, CrashKeeps, LoadChatKeeps, EstablishKeeps, DiscardKeeps, SendKeeps,
     AcknowledgeKeeps, ReceiveKeeps, EndTurnKeeps DEF Next
<1> QED BY <1>1, <1>2, <1>3

LEMMA Inductive == Spec => []IInv
BY InitIInv, NextIInv, PTL DEF Spec

\* A process at work reads nothing, and ends in reading nothing.
LEMMA WorkRestores ==
  ASSUME NEW c \in Chats,
         Establish(c) \/ Discard(c) \/ Send(c) \/ Acknowledge(c) \/ Receive \/ EndTurn
  PROVE  Restores
BY DEF Establish, Discard, Send, Acknowledge, Receive, EndTurn, Running, Restores

LEMMA StepRestores == IInv /\ [Next]_vars => [Restores]_vars
<1> SUFFICES ASSUME IInv, Next, ~torn PROVE Restores
  BY DEF Restores
<1>1. CASE Start \/ LoadChat
  BY <1>1, StartKeeps, LoadChatKeeps
<1>2. CASE Crash
  BY <1>2 DEF Crash, Down, Restores
<1>3. CASE \E c \in Chats : Establish(c) \/ Discard(c) \/ Send(c) \/ Acknowledge(c)
  BY <1>3, WorkRestores
<1>4. CASE Receive \/ EndTurn
  BY <1>4 DEF Receive, EndTurn, Running, Restores
<1> QED BY <1>1, <1>2, <1>3, <1>4 DEF Next

LEMMA IInvLoads == IInv => LoadsUnlessOutgrown
BY DEF IInv, Typed, LoadsUnlessOutgrown

LEMMA IInvAhead == IInv => StateNotAhead
<1> SUFFICES ASSUME IInv, ~torn, NEW c \in DOMAIN kept, NEW u \in 1..state, ChatOf[u] = c
             PROVE  kept[c].in >= u
  BY DEF StateNotAhead
<1> QED BY DEF IInv, Told

LEMMA IInvAcked == IInv => AckedNotSentAgain
<1> SUFFICES ASSUME IInv, ~torn, Running, NEW c \in DOMAIN chats PROVE chats[c].out >= acked[c]
  BY DEF AckedNotSentAgain
<1> QED BY WorkIsSound, MemoryIsSound DEF Behind

\* A start that comes through reads what was saved, but for the names, whatever
\* history of chats come and gone, whatever is left in the file of longer lists
\* before, though it is written over while it is read (loop.c:492-690).
THEOREM Restored == Spec => RestartRestores
<1>1. RestartRestores <=> [][Restores]_vars
  BY PTL DEF RestartRestores, Restores
<1> QED BY <1>1, Inductive, StepRestores, PTL DEF Spec

\* And it comes through, unless the process had ended in a save or a load that
\* had saved, or the library gives the chats that are read names that are longer
\* together than those read (loop.c:620-686, interface.c:3264).
THEOREM SoundUnlessOutgrown == Spec => []LoadsUnlessOutgrown
BY Inductive, IInvLoads, PTL

\* No update for a chat is skipped after a restart, whatever is saved when and
\* wherever between two saves the process ends (loop.c:350, interface.c:3057).
THEOREM NoneSkipped == Spec => []StateNotAhead
BY Inductive, IInvAhead, PTL

\* Nor is the number of an acknowledged message used again (interface.c:2337).
THEOREM NoneReused == Spec => []AckedNotSentAgain
BY Inductive, IInvAcked, PTL
=============================================================================
