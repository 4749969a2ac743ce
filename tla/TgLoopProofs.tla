---------------------------- MODULE TgLoopProofs ----------------------------
(***************************************************************************)
(* Proofs about TgMarks, for any messages, peers, room in the list and     *)
(* updates: what was marked read is counted once, or waits with the timer. *)
(* And about TgConsole, for any number of keys, asks and strings and any   *)
(* room in a string: each key goes where it was typed to. And about        *)
(* TgCommands, for any commands of the table, lines and room for arguments:*)
(* what a line is read as is what the table declares, or one of two kinds. *)
(***************************************************************************)
EXTENDS TgMarks, TgConsole, TgCommands, FiniteSetTheorems, SequenceTheorems, WellFoundedInduction, TLAPS

-----------------------------------------------------------------------------
(* Messages marked read.                                                  *)

\* The messages of a set that are a peer's.
Part(S, p) == {m \in S : PeerOf[m] = p}

\* A set made of two that have no message in common.
Joined(U, S, T) == U = S \cup T /\ S \cap T = {}

Waiting == ToSet(unread_message_list)

\* A message is there of a peer that a report does not know.
Strange(S) == \E m \in S : PeerOf[m] \notin Printed

IInv ==
  /\ unread_message_list \in Seq(Messages) /\ IsInjective(unread_message_list)
  /\ unread_message_event \in BOOLEAN
  /\ unread_message_event <=> unread_message_list # <<>>
  /\ marked \subseteq Messages /\ IsFiniteSet(marked)
  /\ Waiting \subseteq marked
  /\ counted \in [Peers -> Nat]
  /\ ~enable_json => \A p \in Peers :
       LET seen == counted[p] + Cardinality(Part(Waiting, p))
       IN seen <= Cardinality(Part(marked, p)) /\ (~aborted => seen = Cardinality(Part(marked, p)))
  /\ aborted => ~enable_json /\ Strange(marked)
  /\ aborted \in BOOLEAN
  /\ enable_json => \A p \in Peers : Part(marked, p) # {} =>
       Part(named, p) # {} \/ Part(Waiting, p) # {}

-----------------------------------------------------------------------------
(* Lists of messages.                                                      *)

\* A list without repetition is as long as the set of what is in it, for each
\* peer (the inner loop of print_read_list).
LEMMA OfCounts ==
  ASSUME NEW list \in Seq(Messages), IsInjective(list), NEW p
  PROVE  /\ IsFiniteSet(Part(ToSet(list), p))
         /\ Cardinality(Of(list, p)) = Cardinality(Part(ToSet(list), p))
         /\ Cardinality(Of(list, p)) \in Nat
<1>1. DOMAIN list = 1..Len(list) /\ Len(list) \in Nat
  OBVIOUS
<1>2. IsFiniteSet(1..Len(list))
  BY <1>1, FS_Interval
<1>3. Of(list, p) \in SUBSET (1..Len(list))
  BY <1>1 DEF Of
<1>4. IsFiniteSet(Of(list, p))
  BY <1>2, <1>3, FS_Subset
<1> DEFINE f == [i \in Of(list, p) |-> list[i]]
<1>5. f \in Bijection(Of(list, p), Part(ToSet(list), p))
  <2>1. f \in [Of(list, p) -> Part(ToSet(list), p)]
    BY DEF Of, Part, ToSet
  <2>2. IsInjective(f)
    BY DEF Of, IsInjective
  <2>3. \A m \in Part(ToSet(list), p) : \E i \in Of(list, p) : f[i] = m
    BY DEF Of, Part, ToSet
  <2> QED BY <2>1, <2>2, <2>3 DEF Bijection, Injection, Surjection
<1>6. ExistsBijection(Of(list, p), Part(ToSet(list), p))
  BY <1>5 DEF ExistsBijection
<1>7. /\ IsFiniteSet(Part(ToSet(list), p))
      /\ Cardinality(Part(ToSet(list), p)) = Cardinality(Of(list, p))
  BY <1>4, <1>6, FS_Bijection
<1> QED BY <1>4, <1>7, FS_CardinalityType

\* A peer that is in a list is named by the report of it: there is a first of its
\* messages.
LEMMA FirstsName ==
  ASSUME NEW list \in Seq(Messages), NEW p, Part(ToSet(list), p) # {}
  PROVE  Part(Firsts(list), p) # {}
<1>1. DOMAIN list = 1..Len(list) /\ Len(list) \in Nat
  OBVIOUS
<1> DEFINE S == 1..Len(list)
           T == {1..i : i \in Of(list, p)}
<1>2. IsWellFoundedOn(StrictSubsetOrdering(S), FiniteSubsetsOf(S))
  BY FS_StrictSubsetOrderingWellFounded
<1>3. T \subseteq FiniteSubsetsOf(S)
  <2> SUFFICES ASSUME NEW i \in Of(list, p) PROVE 1..i \in FiniteSubsetsOf(S)
    OBVIOUS
  <2>1. i \in 1..Len(list)
    BY <1>1 DEF Of
  <2>2. 1..i \in SUBSET S
    BY <2>1, <1>1
  <2>3. IsFiniteSet(1..i)
    BY <2>1, FS_Interval
  <2> HIDE DEF S
  <2> QED BY <2>2, <2>3 DEF FiniteSubsetsOf
<1>4. T # {}
  BY DEF Of, Part, ToSet
<1>5. \E x \in T : \A y \in T : ~ (<<y, x>> \in StrictSubsetOrdering(S))
  <2> HIDE DEF S, T
  <2> QED BY <1>2, <1>3, <1>4, WFMin
<1>6. PICK i \in Of(list, p) :
        \A k \in Of(list, p) : ~ (<<1..k, 1..i>> \in StrictSubsetOrdering(S))
  BY <1>5
<1>7. \A k \in Of(list, p) : ~ (k < i)
  <2> SUFFICES ASSUME NEW k \in Of(list, p), k < i PROVE FALSE
    OBVIOUS
  <2>1. i \in 1..Len(list) /\ k \in 1..Len(list)
    BY <1>1 DEF Of
  <2>2. 1..k \subseteq 1..i /\ 1..k # 1..i /\ 1..k \subseteq S /\ 1..i \subseteq S
    BY <2>1, <1>1
  <2>3. <<1..k, 1..i>> \in StrictSubsetOrdering(S)
    BY <2>2 DEF StrictSubsetOrdering
  <2> QED BY <2>3, <1>6
<1>8. i \in DOMAIN list /\ PeerOf[list[i]] = p
  BY DEF Of
<1>9. \A k \in 1..(i - 1) : PeerOf[list[k]] # PeerOf[list[i]]
  BY <1>1, <1>7, <1>8 DEF Of
<1>10. list[i] \in Part(Firsts(list), p)
  BY <1>8, <1>9 DEF Part, Firsts
<1> QED BY <1>10

\* Two lists one after the other.
LEMMA Appended ==
  ASSUME NEW s \in Seq(Messages), NEW t \in Seq(Messages),
         IsInjective(s), IsInjective(t), ToSet(s) \cap ToSet(t) = {}
  PROVE  /\ s \o t \in Seq(Messages) /\ IsInjective(s \o t)
         /\ ToSet(s \o t) = ToSet(s) \cup ToSet(t)
         /\ t # <<>> => s \o t # <<>>
<1>1. /\ s \o t \in Seq(Messages)
      /\ Len(s \o t) = Len(s) + Len(t)
      /\ \A i \in 1 .. Len(s) + Len(t) : (s \o t)[i] =
           IF i <= Len(s) THEN s[i] ELSE t[i - Len(s)]
  BY ConcatProperties
<1>2. /\ Len(s) \in Nat /\ Len(t) \in Nat
      /\ DOMAIN s = 1..Len(s) /\ DOMAIN t = 1..Len(t)
      /\ DOMAIN (s \o t) = 1..(Len(s) + Len(t))
  BY <1>1
<1>3. \A i \in 1..(Len(s) + Len(t)) :
        \/ i \in 1..Len(s) /\ (s \o t)[i] = s[i]
        \/ i - Len(s) \in 1..Len(t) /\ (s \o t)[i] = t[i - Len(s)]
  BY <1>1, <1>2
<1>4. \A i \in 1..Len(s) : i \in 1..(Len(s) + Len(t)) /\ (s \o t)[i] = s[i]
  BY <1>1, <1>2
<1>5. \A i \in 1..Len(t) :
        Len(s) + i \in 1..(Len(s) + Len(t)) /\ (s \o t)[Len(s) + i] = t[i]
  BY <1>1, <1>2
<1>6. IsInjective(s \o t)
  <2> SUFFICES ASSUME NEW a \in 1..(Len(s) + Len(t)), NEW b \in 1..(Len(s) + Len(t)),
                      (s \o t)[a] = (s \o t)[b]
               PROVE  a = b
    BY <1>2 DEF IsInjective
  <2>1. CASE a \in 1..Len(s) /\ b \in 1..Len(s)
    BY <2>1, <1>2, <1>4 DEF IsInjective
  <2>2. CASE a \notin 1..Len(s) /\ b \notin 1..Len(s)
    <3>1. /\ a - Len(s) \in DOMAIN t /\ b - Len(s) \in DOMAIN t
          /\ t[a - Len(s)] = t[b - Len(s)]
      BY <2>2, <1>2, <1>3
    <3>2. a - Len(s) = b - Len(s)
      BY <3>1 DEF IsInjective
    <3> QED BY <3>2, <1>2
  <2>3. CASE a \in 1..Len(s) /\ b \notin 1..Len(s)
    BY <2>3, <1>2, <1>3, <1>4 DEF ToSet
  <2>4. CASE a \notin 1..Len(s) /\ b \in 1..Len(s)
    BY <2>4, <1>2, <1>3, <1>4 DEF ToSet
  <2> QED BY <2>1, <2>2, <2>3, <2>4
<1>7. ToSet(s \o t) = ToSet(s) \cup ToSet(t)
  <2>1. \A i \in DOMAIN (s \o t) : (s \o t)[i] \in ToSet(s) \cup ToSet(t)
    BY <1>2, <1>3 DEF ToSet
  <2>2. \A i \in DOMAIN s : s[i] \in ToSet(s \o t)
    BY <1>2, <1>4 DEF ToSet
  <2>3. \A i \in DOMAIN t : t[i] \in ToSet(s \o t)
    BY <1>2, <1>5 DEF ToSet
  <2> QED BY ZenonT(60), <2>1, <2>2, <2>3 DEF ToSet
<1> QED BY <1>1, <1>6, <1>7, <1>2, ConcatEqualIffEmpty

\* A peer's messages in a set joined of two.
LEMMA PartsAdd ==
  ASSUME NEW S, NEW T, NEW U, Joined(U, S, T), IsFiniteSet(S), IsFiniteSet(T), NEW p
  PROVE  /\ Cardinality(Part(U, p)) = Cardinality(Part(S, p)) + Cardinality(Part(T, p))
         /\ Cardinality(Part(S, p)) \in Nat /\ Cardinality(Part(T, p)) \in Nat
<1>1. Part(S, p) \in SUBSET S /\ Part(T, p) \in SUBSET T
  BY DEF Part
<1>2. IsFiniteSet(Part(S, p)) /\ IsFiniteSet(Part(T, p))
  BY <1>1, FS_Subset
<1>3. Part(U, p) = Part(S, p) \cup Part(T, p) /\ Part(S, p) \cap Part(T, p) = {}
  BY DEF Part, Joined
<1>4. Cardinality(Part(S, p) \cup Part(T, p)) =
        Cardinality(Part(S, p)) + Cardinality(Part(T, p)) - Cardinality(Part(S, p) \cap Part(T, p))
  BY <1>2, FS_Union
<1>5. Cardinality(Part(U, p)) =
        Cardinality(Part(S, p)) + Cardinality(Part(T, p)) - Cardinality({})
  BY <1>3, <1>4, Zenon
<1>6. Cardinality(Part(S, p)) \in Nat /\ Cardinality(Part(T, p)) \in Nat
  BY <1>2, FS_CardinalityType
<1> QED BY <1>5, <1>6, FS_EmptySet

LEMMA ListIsFinite ==
  ASSUME NEW list \in Seq(Messages), IsInjective(list)
  PROVE  IsFiniteSet(ToSet(list))
<1>1. DOMAIN list = 1..Len(list) /\ Len(list) \in Nat
  OBVIOUS
<1>2. IsFiniteSet(DOMAIN list)
  BY <1>1, FS_Interval
<1>3. list \in Surjection(DOMAIN list, ToSet(list))
  <2>1. list = [i \in DOMAIN list |-> list[i]]
    BY <1>1
  <2>2. list \in [DOMAIN list -> ToSet(list)]
    BY <2>1 DEF ToSet
  <2> QED BY <2>2 DEF ToSet, Surjection
<1> QED BY <1>2, <1>3, FS_Surjection

\* The empty list, which the report of the timer goes on to.
LEMMA EmptyList ==
  /\ ToSet(<<>>) = {} /\ IsInjective(<<>>) /\ <<>> \in Seq(Messages)
  /\ \A p : Part({}, p) = {} /\ Of(<<>>, p) = {}
BY DEF ToSet, IsInjective, Part, Of

-----------------------------------------------------------------------------
(* The steps.                                                              *)

LEMMA InitIInv == MarksInit => IInv
<1> SUFFICES ASSUME MarksInit PROVE IInv
  OBVIOUS
<1>1. Waiting = {} /\ \A p : Part(Waiting, p) = {} /\ Part(marked, p) = {}
  BY EmptyList DEF MarksInit, Waiting
<1>2. \A p \in Peers : counted[p] = 0
  BY DEF MarksInit
<1>3. \A p \in Peers : LET seen == counted[p] + Cardinality(Part(Waiting, p))
                       IN /\ seen <= Cardinality(Part(marked, p))
                          /\ seen = Cardinality(Part(marked, p))
  <2> SUFFICES ASSUME NEW p \in Peers
               PROVE  LET seen == counted[p] + Cardinality(Part(Waiting, p))
                      IN /\ seen <= Cardinality(Part(marked, p))
                         /\ seen = Cardinality(Part(marked, p))
    OBVIOUS
  <2>1. Part(Waiting, p) = {} /\ Part(marked, p) = {} /\ counted[p] = 0
    BY <1>1, <1>2
  <2> QED BY <2>1, FS_EmptySet
<1>4. unread_message_list \in Seq(Messages) /\ IsInjective(unread_message_list)
  BY EmptyList DEF MarksInit
<1>5. marked = {} /\ IsFiniteSet(marked) /\ Waiting \subseteq marked
  BY <1>1, FS_EmptySet DEF MarksInit
<1>6. /\ unread_message_event = FALSE /\ unread_message_list = <<>>
      /\ counted \in [Peers -> Nat] /\ aborted = FALSE
  BY DEF MarksInit
<1> HIDE DEF MarksInit
<1> QED BY <1>1, <1>3, <1>4, <1>5, <1>6 DEF IInv

\* A list's messages of a peer are counted, or none of them; all, if the report knows
\* every peer in it.
LEMMA TotalIs ==
  ASSUME NEW list \in Seq(Messages), IsInjective(list), NEW p
  PROVE  /\ Total(list, p) \in {0, Cardinality(Part(ToSet(list), p))}
         /\ AllPrinted(list) => Total(list, p) = Cardinality(Part(ToSet(list), p))
         /\ Cardinality(Part(ToSet(list), p)) \in Nat /\ Total(list, p) \in Nat
<1>1. /\ Cardinality(Of(list, p)) = Cardinality(Part(ToSet(list), p))
      /\ Cardinality(Of(list, p)) \in Nat
  BY OfCounts
<1>2. Total(list, p) \in {0, Cardinality(Part(ToSet(list), p))}
  BY <1>1 DEF Total
<1>3. ASSUME AllPrinted(list)
      PROVE  Total(list, p) = Cardinality(Part(ToSet(list), p))
  <2>1. CASE Of(list, p) = {}
    <3>1. Cardinality(Of(list, p)) = 0
      BY <2>1, FS_EmptySet
    <3> QED BY <3>1, <1>1, <1>2
  <2>2. CASE Of(list, p) # {}
    <3>1. PICK i \in Of(list, p) : TRUE
      BY <2>2
    <3>2. DOMAIN list = 1..Len(list) /\ Len(list) \in Nat /\ i \in DOMAIN list
      BY DEF Of
    <3>3. \A k \in 1..i : k \in DOMAIN list
      BY <3>2
    <3>4. \A k \in 1..i : PeerOf[list[k]] \in Printed
      BY <3>3, <1>3 DEF AllPrinted
    <3> QED BY <3>4, <1>1 DEF Total
  <2> QED BY <2>1, <2>2
<1> QED BY <1>1, <1>2, <1>3

\* Two lists that are reported are counted for each peer, none of their messages twice,
\* and all of them unless the report ends the process.
LEMMA ReportCounts ==
  ASSUME NEW s \in Seq(Messages), NEW t \in Seq(Messages), IsInjective(s), IsInjective(t),
         counted \in [Peers -> Nat], print_read_lists(s, t), ~enable_json
  PROVE  /\ counted' \in [Peers -> Nat] /\ aborted' \in BOOLEAN
         /\ \A p \in Peers :
              LET all == counted[p] + Cardinality(Part(ToSet(s), p))
                                    + Cardinality(Part(ToSet(t), p))
              IN counted'[p] <= all /\ (~aborted' => counted'[p] = all)
         /\ aborted' => Strange(ToSet(s) \cup ToSet(t))
<1>1. /\ counted' = [p \in Peers |-> counted[p] + Total(s, p)
                                     + IF AllPrinted(s) THEN Total(t, p) ELSE 0]
      /\ aborted' = ~(AllPrinted(s) /\ AllPrinted(t))
  BY DEF print_read_lists
<1>2. \A p \in Peers :
        /\ Total(s, p) \in Nat /\ Total(t, p) \in Nat /\ counted[p] \in Nat
        /\ Total(s, p) \in {0, Cardinality(Part(ToSet(s), p))}
        /\ Total(t, p) \in {0, Cardinality(Part(ToSet(t), p))}
        /\ Cardinality(Part(ToSet(s), p)) \in Nat /\ Cardinality(Part(ToSet(t), p)) \in Nat
        /\ AllPrinted(s) => Total(s, p) = Cardinality(Part(ToSet(s), p))
        /\ AllPrinted(t) => Total(t, p) = Cardinality(Part(ToSet(t), p))
  BY TotalIs
<1>3. aborted' => Strange(ToSet(s) \cup ToSet(t))
  BY <1>1 DEF AllPrinted, Strange, ToSet
<1>4. aborted' \in BOOLEAN
  BY <1>1
<1>5. counted' \in [Peers -> Nat]
  BY <1>1, <1>2
<1>6. ASSUME NEW p \in Peers
      PROVE  LET all == counted[p] + Cardinality(Part(ToSet(s), p))
                                   + Cardinality(Part(ToSet(t), p))
             IN counted'[p] <= all /\ (~aborted' => counted'[p] = all)
  <2>1. counted'[p] = counted[p] + Total(s, p) + IF AllPrinted(s) THEN Total(t, p) ELSE 0
    BY <1>1
  <2> HIDE DEF print_read_lists
  <2> DEFINE cs == Cardinality(Part(ToSet(s), p))
             ct == Cardinality(Part(ToSet(t), p))
  <2>2. /\ cs \in Nat /\ ct \in Nat /\ counted[p] \in Nat
        /\ Total(s, p) \in {0, cs} /\ Total(t, p) \in {0, ct}
        /\ AllPrinted(s) => Total(s, p) = cs
        /\ AllPrinted(t) => Total(t, p) = ct
    BY <1>2
  <2>3. ~aborted' => AllPrinted(s) /\ AllPrinted(t)
    BY <1>1
  <2> HIDE DEF cs, ct
  <2>4. counted'[p] <= counted[p] + cs + ct /\ (~aborted' => counted'[p] = counted[p] + cs + ct)
    BY <2>1, <2>2, <2>3
  <2> QED BY <2>4 DEF cs, ct
<1> QED BY <1>3, <1>4, <1>5, <1>6

\* And each peer in them is named.
LEMMA ReportNames ==
  ASSUME NEW s \in Seq(Messages), NEW t \in Seq(Messages), print_read_lists(s, t), enable_json,
         NEW p
  PROVE  /\ UNCHANGED <<counted, aborted>>
         /\ Part(named, p) # {} \/ Part(ToSet(s), p) # {} \/ Part(ToSet(t), p) # {}
              => Part(named', p) # {}
<1>1. UNCHANGED <<counted, aborted>> /\ named' = named \cup Firsts(s) \cup Firsts(t)
  BY DEF print_read_lists
<1>2. Part(named', p) = Part(named, p) \cup Part(Firsts(s), p) \cup Part(Firsts(t), p)
  BY <1>1 DEF Part
<1> QED BY <1>1, <1>2, FirstsName

LEMMA AlarmKeeps == ASSUME IInv, unread_message_alarm PROVE IInv'
<1>1. /\ print_read_lists(unread_message_list, <<>>) /\ ~aborted
      /\ unread_message_list' = <<>> /\ unread_message_event' = FALSE
      /\ UNCHANGED <<enable_json, marked>>
  BY DEF unread_message_alarm, levelVars
<1>2. Waiting' = {} /\ \A p : Cardinality(Part(Waiting', p)) = 0
  BY <1>1, EmptyList, FS_EmptySet DEF Waiting
<1>3. unread_message_list \in Seq(Messages) /\ IsInjective(unread_message_list)
  BY DEF IInv
<1>4. CASE ~enable_json
  <2>1. /\ counted' \in [Peers -> Nat] /\ aborted' \in BOOLEAN
        /\ \A p \in Peers :
             LET all == counted[p] + Cardinality(Part(Waiting, p))
                                   + Cardinality(Part(ToSet(<<>>), p))
             IN counted'[p] <= all /\ (~aborted' => counted'[p] = all)
        /\ aborted' => Strange(Waiting \cup ToSet(<<>>))
    BY <1>1, <1>3, <1>4, EmptyList, ReportCounts DEF IInv, Waiting
  <2>2. ASSUME NEW p \in Peers
        PROVE  LET seen == counted'[p] + Cardinality(Part(Waiting', p))
               IN /\ seen <= Cardinality(Part(marked', p))
                  /\ ~aborted' => seen = Cardinality(Part(marked', p))
    <3>1. Cardinality(Part(ToSet(<<>>), p)) = 0
      BY EmptyList, FS_EmptySet
    <3>2. counted[p] + Cardinality(Part(Waiting, p)) = Cardinality(Part(marked, p))
      BY <1>1, <1>4 DEF IInv
    <3>3. /\ counted[p] \in Nat /\ Cardinality(Part(Waiting, p)) \in Nat /\ counted'[p] \in Nat
      BY <1>3, <2>1, OfCounts DEF IInv, Waiting
    <3>4. marked' = marked
      BY <1>1
    <3> QED BY <1>2, <2>1, <3>1, <3>2, <3>3, <3>4
  <2>3. aborted' => Strange(marked')
    BY <2>1, <1>1, EmptyList DEF Strange, IInv
  <2> QED BY <2>1, <2>2, <2>3, <1>1, <1>2, <1>4, EmptyList DEF IInv
<1>5. CASE enable_json
  <2>1. UNCHANGED <<counted, aborted>>
    BY <1>1, <1>5 DEF print_read_lists
  <2>2. ASSUME NEW p \in Peers, Part(marked, p) # {} PROVE Part(named', p) # {}
    BY <1>1, <1>3, <1>5, <2>2, EmptyList, ReportNames DEF IInv, Waiting
  <2> QED BY <2>1, <2>2, <1>1, <1>2, <1>5, EmptyList DEF IInv
<1> QED BY <1>4, <1>5 DEF IInv

LEMMA PassOverKeeps == ASSUME IInv, NEW batch, PassOver(batch) PROVE IInv'
BY DEF PassOver, levelVars, IInv, Waiting

\* A message that is taken: it is added to the list, or reported with it.
Taken(batch) ==
  /\ Fresh(batch)
  /\ marked' = marked \cup ToSet(batch)
  /\ \/ /\ unread_message_list' = unread_message_list \o batch
        /\ unread_message_event' = TRUE
        /\ UNCHANGED <<counted, named, aborted>>
     \/ /\ print_read_lists(unread_message_list, batch)
        /\ unread_message_list' = <<>>
        /\ unread_message_event' = FALSE
  /\ UNCHANGED enable_json

LEMMA TakenKeeps == ASSUME IInv, NEW batch \in Batches, Taken(batch) PROVE IInv'
<1> DEFINE B == ToSet(batch)
<1>0. ~aborted /\ UNCHANGED enable_json
  BY DEF Taken, Fresh
<1>1. batch \in Seq(Messages) /\ IsInjective(batch) /\ batch # <<>>
  BY DEF Batches
<1>2. B \subseteq Messages /\ B \cap marked = {} /\ IsFiniteSet(B) /\ B \cap Waiting = {}
  <2>1. B \subseteq Messages
    BY <1>1 DEF ToSet
  <2> QED BY <2>1, <1>1, ListIsFinite DEF IInv, Taken, Fresh
<1>3. /\ IsFiniteSet(Waiting) /\ unread_message_list \in Seq(Messages)
      /\ IsInjective(unread_message_list)
  BY ListIsFinite DEF IInv, Waiting
<1>4. marked' = marked \cup B /\ IsFiniteSet(marked') /\ marked' \subseteq Messages
  <2>1. marked' = marked \cup B
    BY DEF Taken
  <2> QED BY <2>1, <1>2, FS_Union DEF IInv
<1>5. \A p : /\ Cardinality(Part(marked', p)) = Cardinality(Part(marked, p))
                                                + Cardinality(Part(B, p))
             /\ Cardinality(Part(marked, p)) \in Nat /\ Cardinality(Part(B, p)) \in Nat
  <2>1. Joined(marked', marked, B) /\ IsFiniteSet(marked) /\ IsFiniteSet(B)
    BY <1>2, <1>4 DEF Joined, IInv
  <2> HIDE DEF B
  <2> QED BY <2>1, PartsAdd
<1>6. \A p : Cardinality(Part(Waiting, p)) \in Nat
  BY <1>3, OfCounts DEF Waiting
<1>7. \A p : Part(marked', p) = Part(marked, p) \cup Part(B, p)
  BY <1>4 DEF Part
<1>8. ~enable_json => \A p \in Peers :
        counted[p] + Cardinality(Part(Waiting, p)) = Cardinality(Part(marked, p))
  BY <1>0 DEF IInv
<1>9. CASE /\ unread_message_list' = unread_message_list \o batch
           /\ unread_message_event' = TRUE
           /\ UNCHANGED <<counted, named, aborted>>
  <2>1. /\ unread_message_list' \in Seq(Messages) /\ IsInjective(unread_message_list')
        /\ unread_message_list' # <<>>
        /\ Waiting' = Waiting \cup B
    BY <1>1, <1>2, <1>3, <1>9, Appended DEF Waiting
  <2>2. Waiting' \subseteq marked'
    BY <2>1, <1>4 DEF IInv
  <2>3. ASSUME ~enable_json, NEW p \in Peers
        PROVE  counted'[p] + Cardinality(Part(Waiting', p)) = Cardinality(Part(marked', p))
    <3>1. counted[p] + Cardinality(Part(Waiting, p)) = Cardinality(Part(marked, p))
      BY <2>3, <1>8
    <3>2. counted' = counted /\ counted[p] \in Nat
      BY <1>9 DEF IInv
    <3> HIDE DEF B
    <3>3. Cardinality(Part(Waiting', p)) = Cardinality(Part(Waiting, p)) + Cardinality(Part(B, p))
      <4>1. Joined(Waiting', Waiting, B)
        BY <1>2, <2>1 DEF Joined
      <4> QED BY <4>1, <1>2, <1>3, PartsAdd
    <3>4. Cardinality(Part(Waiting, p)) \in Nat
      BY <1>6
    <3> QED BY <3>1, <3>2, <3>3, <3>4, <1>5
  <2>4. \A p \in Peers : Cardinality(Part(marked', p)) \in Nat
    BY <1>5
  <2>5. ASSUME enable_json, NEW p \in Peers, Part(marked', p) # {}
        PROVE  Part(named', p) # {} \/ Part(Waiting', p) # {}
    <3>1. Part(Waiting', p) = Part(Waiting, p) \cup Part(B, p)
      BY <2>1 DEF Part
    <3> QED BY <3>1, <1>9, <2>5, <1>0, <1>7 DEF IInv
  <2> HIDE DEF B
  <2>6. ASSUME ~enable_json', NEW p \in Peers
        PROVE  LET seen == counted'[p] + Cardinality(Part(Waiting', p))
               IN /\ seen <= Cardinality(Part(marked', p))
                  /\ ~aborted' => seen = Cardinality(Part(marked', p))
    BY <2>3, <2>4, <2>6, <1>0
  <2>7. counted' \in [Peers -> Nat] /\ aborted' = FALSE
    BY <1>0, <1>9 DEF IInv
  <2> QED BY <2>1, <2>2, <2>5, <2>6, <2>7, <1>0, <1>4, <1>9 DEF IInv
<1>10. CASE /\ print_read_lists(unread_message_list, batch)
            /\ unread_message_list' = <<>>
            /\ unread_message_event' = FALSE
  <2>1. Waiting' = {} /\ \A p : Part(Waiting', p) = {} /\ Cardinality(Part(Waiting', p)) = 0
    BY <1>10, EmptyList, FS_EmptySet DEF Waiting
  <2>2. CASE ~enable_json
    <3>1. /\ counted' \in [Peers -> Nat] /\ aborted' \in BOOLEAN
          /\ \A p \in Peers :
               LET all == counted[p] + Cardinality(Part(Waiting, p)) + Cardinality(Part(B, p))
               IN counted'[p] <= all /\ (~aborted' => counted'[p] = all)
          /\ aborted' => Strange(Waiting \cup B)
      BY <1>10, <2>2, <1>1, <1>3, ReportCounts DEF IInv, Waiting
    <3> HIDE DEF B
    <3>2. ASSUME NEW p \in Peers
          PROVE  LET seen == counted'[p] + Cardinality(Part(Waiting', p))
                 IN /\ seen <= Cardinality(Part(marked', p))
                    /\ ~aborted' => seen = Cardinality(Part(marked', p))
      <4>1. counted[p] + Cardinality(Part(Waiting, p)) = Cardinality(Part(marked, p))
        BY <2>2, <1>8
      <4>2. counted[p] \in Nat /\ counted'[p] \in Nat
        BY <3>1 DEF IInv
      <4> QED BY <2>1, <3>1, <4>1, <4>2, <1>5, <1>6
    <3>3. aborted' => Strange(marked')
      BY <3>1, <1>4 DEF Strange, IInv
    <3> QED BY <3>1, <3>2, <3>3, <1>0, <1>4, <1>10, <2>1, <2>2, EmptyList DEF IInv
  <2>3. CASE enable_json
    <3>1. UNCHANGED <<counted, aborted>>
      BY <1>10, <2>3 DEF print_read_lists
    <3>2. ASSUME NEW p \in Peers, Part(marked', p) # {} PROVE Part(named', p) # {}
      <4>1. Part(named, p) # {} \/ Part(Waiting, p) # {} \/ Part(B, p) # {}
        BY <3>2, <2>3, <1>7 DEF IInv
      <4> QED BY <4>1, <1>10, <2>3, <1>1, <1>3, ReportNames DEF Waiting
    <3> HIDE DEF B
    <3> QED BY <3>1, <3>2, <1>0, <1>4, <1>10, <2>1, <2>3, EmptyList DEF IInv
  <2> QED BY <2>2, <2>3
<1> QED BY <1>9, <1>10 DEF Taken

LEMMA MarkKeeps == ASSUME IInv, NEW batch \in Batches, mark_read_upd(batch) PROVE IInv'
<1>1. PassOver(batch) \/ Taken(batch)
  BY DEF mark_read_upd, Taken, levelVars
<1> QED BY <1>1, PassOverKeeps, TakenKeeps

LEMMA NextIInv == IInv /\ [MarksNext]_marksVars => IInv'
<1> SUFFICES ASSUME IInv, [MarksNext]_marksVars PROVE IInv'
  OBVIOUS
<1>1. CASE UNCHANGED marksVars
  BY <1>1 DEF marksVars, levelVars, IInv, Waiting
<1>2. CASE Loaded
  BY <1>2 DEF Loaded, IInv, Waiting
<1>3. ASSUME NEW num, do_set(num) PROVE IInv'
  BY <1>3 DEF do_set, IInv, Waiting
<1> QED BY <1>1, <1>2, <1>3, AlarmKeeps, MarkKeeps DEF MarksNext

LEMMA IInvAddsUp == IInv => MarksAddUp
<1> SUFFICES ASSUME IInv PROVE MarksAddUp
  OBVIOUS
<1>1. \A p : Part(marked, p) = {m \in marked : PeerOf[m] = p}
  BY DEF Part
<1>2. \A p : Cardinality(Of(unread_message_list, p)) = Cardinality(Part(Waiting, p))
  BY OfCounts DEF IInv, Waiting
<1>3. \A p : Part(Waiting, p) # {} => Of(unread_message_list, p) # {}
  BY DEF Part, Waiting, ToSet, Of
<1>4. \A p : Part(named, p) # {} => \E m \in named : PeerOf[m] = p
  BY DEF Part
<1>5. aborted => ~enable_json /\ \E m \in marked : PeerOf[m] \notin Printed
  BY DEF IInv, Strange
<1> QED BY <1>1, <1>2, <1>3, <1>4, <1>5 DEF IInv, MarksAddUp

\* Each message that was marked read once the state was loaded and with log_level at
\* least 1 waits with the timer running or has been counted, once, unless a message of a
\* channel has ended the process, and then no message has been counted twice
\* (interface.c:2881-2976).
THEOREM AddUp == MarksSpec => []MarksAddUp
<1>1. MarksSpec => []IInv
  BY InitIInv, NextIInv, PTL DEF MarksSpec
<1> QED BY <1>1, IInvAddsUp, PTL

-----------------------------------------------------------------------------
(* The terminal.                                                          *)

-----------------------------------------------------------------------------
(* Counting up.                                                            *)

\* Some natural numbers: one is the least.
LEMMA Least ==
  ASSUME NEW T \in SUBSET Nat, T # {}
  PROVE  \E m \in T : \A k \in T : m <= k
<1>1. \E m \in T : \A k \in T : ~ (<<k, m>> \in OpToRel(<, Nat))
  BY NatLessThanWellFounded, WFMin
<1>2. PICK m \in T : \A k \in T : ~ (<<k, m>> \in OpToRel(<, Nat))
  BY <1>1
<1>3. ASSUME NEW k \in T, k < m PROVE FALSE
  <2>1. <<k, m>> \in OpToRel(<, Nat)
    BY <1>3 DEF OpToRel
  <2> QED BY <1>2, <2>1
<1>4. \A k \in T : m <= k
  BY <1>3
<1> QED BY <1>4

\* What fails neither at 0 nor first at a later number never fails.
LEMMA NoCounterexample ==
  ASSUME NEW T \in SUBSET Nat, 0 \notin T, \A k \in Nat : k \notin T => k + 1 \notin T
  PROVE  T = {}
<1> SUFFICES ASSUME T # {} PROVE FALSE
  OBVIOUS
<1>1. PICK m \in T : \A k \in T : m <= k
  BY Least
<1>2. m # 0 /\ m - 1 \in Nat /\ ~ (m <= m - 1) /\ (m - 1) + 1 = m
  OBVIOUS
<1>3. m - 1 \notin T
  BY <1>1, <1>2
<1> QED BY <1>2, <1>3

-----------------------------------------------------------------------------
(* Keys cut into lines.                                                    *)

NoKeys == [whole |-> <<>>, left |-> <<>>]
Cuts == [whole : Seq(Seq(Nat)), left : Seq(Nat)]

\* The first n of some keys, but for those that are not mine, behind what first is.
Scan(first, n, key, mine, ends) ==
  LET s[i \in 0..n] == IF i = 0 THEN first
                       ELSE IF i \in mine THEN WithKey(s[i - 1], key[i], ends) ELSE s[i - 1]
  IN s[n]

Scans(G, first, n, key, mine, ends) ==
  G = [i \in 0..n |-> IF i = 0 THEN first
                      ELSE IF i \in mine THEN WithKey(G[i - 1], key[i], ends) ELSE G[i - 1]]

LEMMA ScansStep ==
  ASSUME NEW first, NEW n \in Nat, NEW key, NEW mine, NEW ends, NEW G,
         Scans(G, first, n, key, mine, ends)
  PROVE  /\ G[0] = first
         /\ \A i \in 1..n : G[i] = IF i \in mine THEN WithKey(G[i - 1], key[i], ends) ELSE G[i - 1]
<1>1. \A i \in 0..n : G[i] = IF i = 0 THEN first
                      ELSE IF i \in mine THEN WithKey(G[i - 1], key[i], ends) ELSE G[i - 1]
  BY DEF Scans
<1>2. 0 \in 0..n /\ \A i \in 1..n : i \in 0..n /\ i # 0
  OBVIOUS
<1> QED BY <1>1, <1>2

LEMMA ScansExist ==
  ASSUME NEW first, NEW key, NEW mine, NEW ends
  PROVE  \A n \in Nat : \E G : Scans(G, first, n, key, mine, ends)
<1> DEFINE T == {n \in Nat : ~ \E G : Scans(G, first, n, key, mine, ends)}
<1>1. 0 \notin T
  <2> DEFINE G == [i \in 0..0 |-> first]
  <2>1. G = [i \in 0..0 |-> IF i = 0 THEN first
                      ELSE IF i \in mine THEN WithKey(G[i - 1], key[i], ends) ELSE G[i - 1]]
    OBVIOUS
  <2>2. Scans(G, first, 0, key, mine, ends)
    BY <2>1 DEF Scans
  <2> QED BY <2>2
<1>2. ASSUME NEW n \in Nat, n \notin T PROVE n + 1 \notin T
  <2>1. PICK G : Scans(G, first, n, key, mine, ends)
    BY <1>2
  <2> DEFINE l == IF n + 1 \in mine THEN WithKey(G[n], key[n + 1], ends) ELSE G[n]
             H == [i \in 0..(n + 1) |-> IF i = n + 1 THEN l ELSE G[i]]
  <2>2. /\ G[0] = first
        /\ \A i \in 1..n : G[i] = IF i \in mine THEN WithKey(G[i - 1], key[i], ends) ELSE G[i - 1]
    BY <2>1, ScansStep
  <2>3. \A i \in 0..(n + 1) : H[i] = IF i = n + 1 THEN l ELSE G[i]
    OBVIOUS
  <2>4. H = [i \in 0..(n + 1) |-> H[i]]
    OBVIOUS
  <2> HIDE DEF H
  <2>5. \A i \in 0..(n + 1) : H[i] = IF i = 0 THEN first
                      ELSE IF i \in mine THEN WithKey(H[i - 1], key[i], ends) ELSE H[i - 1]
    <3> SUFFICES ASSUME NEW i \in 0..(n + 1)
                 PROVE  H[i] = IF i = 0 THEN first
                               ELSE IF i \in mine THEN WithKey(H[i - 1], key[i], ends) ELSE H[i - 1]
      OBVIOUS
    <3>1. CASE i = 0
      BY <2>2, <2>3, <3>1
    <3>2. CASE i = n + 1
      <4>1. i # 0 /\ i - 1 = n /\ n \in 0..(n + 1) /\ n # n + 1
        BY <3>2
      <4>2. H[i - 1] = G[n] /\ H[i] = l
        BY <2>3, <3>2, <4>1
      <4> QED BY <3>2, <4>1, <4>2
    <3>3. CASE i # 0 /\ i # n + 1
      <4>1. i \in 1..n /\ i - 1 \in 0..(n + 1) /\ i - 1 # n + 1
        BY <3>3
      <4>2. H[i] = G[i] /\ H[i - 1] = G[i - 1]
        BY <2>3, <3>3, <4>1
      <4> QED BY <2>2, <3>3, <4>1, <4>2
    <3> QED BY <3>1, <3>2, <3>3
  <2>6. Scans(H, first, n + 1, key, mine, ends)
    <3> HIDE DEF l
    <3> QED BY <2>4, <2>5 DEF Scans
  <2> QED BY <2>6
<1> HIDE DEF T
<1>3. T \in SUBSET Nat
  BY DEF T
<1>4. T = {}
  BY <1>1, <1>2, <1>3, NoCounterexample
<1> QED BY <1>4 DEF T

LEMMA ScansOnce ==
  ASSUME NEW first, NEW n \in Nat, NEW m \in 0..n, NEW key, NEW mine, NEW ends, NEW G, NEW H,
         Scans(G, first, n, key, mine, ends), Scans(H, first, m, key, mine, ends)
  PROVE  G[m] = H[m]
<1> DEFINE T == {i \in Nat : i <= m /\ G[i] # H[i]}
<1>1. /\ G[0] = first /\ H[0] = first
      /\ \A i \in 1..n : G[i] = IF i \in mine THEN WithKey(G[i - 1], key[i], ends) ELSE G[i - 1]
      /\ \A i \in 1..m : H[i] = IF i \in mine THEN WithKey(H[i - 1], key[i], ends) ELSE H[i - 1]
  BY ScansStep
<1>2. 0 \notin T
  BY <1>1
<1>3. ASSUME NEW i \in Nat, i \notin T PROVE i + 1 \notin T
  <2> SUFFICES ASSUME i + 1 <= m PROVE G[i + 1] = H[i + 1]
    OBVIOUS
  <2>1. i + 1 \in 1..m /\ i + 1 \in 1..n /\ (i + 1) - 1 = i /\ i <= m
    OBVIOUS
  <2>2. G[i] = H[i]
    BY <1>3, <2>1
  <2> QED BY <1>1, <2>1, <2>2
<1>4. T \in SUBSET Nat
  OBVIOUS
<1> HIDE DEF T
<1>5. T = {}
  BY <1>2, <1>3, <1>4, NoCounterexample
<1>6. m \in Nat /\ m <= m
  OBVIOUS
<1> QED BY <1>5, <1>6 DEF T

LEMMA ScanIs ==
  ASSUME NEW first, NEW key, NEW mine, NEW ends, NEW n \in Nat
  PROVE  \E G : Scans(G, first, n, key, mine, ends) /\ Scan(first, n, key, mine, ends) = G[n]
<1>1. \E G : Scans(G, first, n, key, mine, ends)
  BY ScansExist
<1> DEFINE G == CHOOSE s : s = [i \in 0..n |->
                  IF i = 0 THEN first
                  ELSE IF i \in mine THEN WithKey(s[i - 1], key[i], ends) ELSE s[i - 1]]
<1>2. \E s : s = [i \in 0..n |->
                  IF i = 0 THEN first
                  ELSE IF i \in mine THEN WithKey(s[i - 1], key[i], ends) ELSE s[i - 1]]
  BY <1>1 DEF Scans
<1>3. Scans(G, first, n, key, mine, ends)
  BY <1>2 DEF Scans
<1>4. Scan(first, n, key, mine, ends) = G[n]
  BY DEF Scan
<1> HIDE DEF G
<1> QED BY <1>3, <1>4

LEMMA ScanFirst ==
  ASSUME NEW first, NEW key, NEW mine, NEW ends
  PROVE  Scan(first, 0, key, mine, ends) = first
BY ScanIs, ScansStep

LEMMA ScanStep ==
  ASSUME NEW first, NEW key, NEW mine, NEW ends, NEW n \in Nat
  PROVE  /\ n + 1 \in mine => Scan(first, n + 1, key, mine, ends)
                               = WithKey(Scan(first, n, key, mine, ends), key[n + 1], ends)
         /\ n + 1 \notin mine => Scan(first, n + 1, key, mine, ends)
                                  = Scan(first, n, key, mine, ends)
<1>1. PICK H : Scans(H, first, n, key, mine, ends) /\ Scan(first, n, key, mine, ends) = H[n]
  BY ScanIs
<1>2. n + 1 \in Nat /\ n + 1 \in 1..(n + 1) /\ n \in 0..(n + 1) /\ (n + 1) - 1 = n
  OBVIOUS
<1>3. PICK G : Scans(G, first, n + 1, key, mine, ends)
               /\ Scan(first, n + 1, key, mine, ends) = G[n + 1]
  BY <1>2, ScanIs
<1>4. G[n] = H[n]
  BY <1>1, <1>2, <1>3, ScansOnce
<1>5. G[n + 1] = IF n + 1 \in mine THEN WithKey(G[(n + 1) - 1], key[n + 1], ends) ELSE G[(n + 1) - 1]
  BY <1>2, <1>3, ScansStep
<1> QED BY <1>1, <1>2, <1>3, <1>4, <1>5

LEMMA CutIs ==
  ASSUME NEW s, NEW x, NEW y, s = [whole |-> x, left |-> y]
  PROVE  s.whole = x /\ s.left = y
OBVIOUS

LEMMA OneLineMore ==
  ASSUME NEW s \in Seq(Seq(Nat)), NEW t \in Seq(Seq(Nat)), NEW e \in Seq(Nat)
  PROVE  Append(s \o t, e) = s \o Append(t, e)
<1> DEFINE S == Seq(Nat)
<1>0. s \in Seq(S) /\ t \in Seq(S) /\ e \in S
  OBVIOUS
<1> HIDE DEF S
<1>1. s \o t \in Seq(S)
  BY <1>0, ConcatProperties
<1>2. <<e>> \in Seq(S)
  BY <1>0
<1>3. Append(s \o t, e) = (s \o t) \o <<e>> /\ Append(t, e) = t \o <<e>>
  BY <1>0, <1>1, AppendIsConcat
<1>4. (s \o t) \o <<e>> = s \o (t \o <<e>>)
  BY <1>0, <1>2, ConcatAssociative
<1> QED BY <1>3, <1>4

LEMMA WithKeyIs ==
  ASSUME NEW s \in Cuts, NEW k \in Nat, NEW ends
  PROVE  /\ WithKey(s, k, ends) \in Cuts
         /\ k \in ends => /\ WithKey(s, k, ends).whole = Append(s.whole, s.left)
                          /\ WithKey(s, k, ends).left = <<>>
         /\ k \notin ends => /\ WithKey(s, k, ends).whole = s.whole
                             /\ WithKey(s, k, ends).left = Append(s.left, k)
<1>1. s.whole \in Seq(Seq(Nat)) /\ s.left \in Seq(Nat)
  BY DEF Cuts
<1>2. Append(s.whole, s.left) \in Seq(Seq(Nat)) /\ Append(s.left, k) \in Seq(Nat)
      /\ <<>> \in Seq(Nat)
  BY <1>1, AppendProperties, EmptySeq
<1>3. CASE k \in ends
  <2>1. WithKey(s, k, ends) = [whole |-> Append(s.whole, s.left), left |-> <<>>]
    BY <1>3 DEF WithKey
  <2> QED BY <1>2, <1>3, <2>1 DEF Cuts
<1>4. CASE k \notin ends
  <2>1. WithKey(s, k, ends) = [whole |-> s.whole, left |-> Append(s.left, k)]
    BY <1>4 DEF WithKey
  <2> QED BY <1>1, <1>2, <1>4, <2>1 DEF Cuts
<1> QED BY <1>3, <1>4

LEMMA ScanType ==
  ASSUME NEW first \in Cuts, NEW key \in [Nat -> Nat], NEW mine, NEW ends
  PROVE  \A n \in Nat : Scan(first, n, key, mine, ends) \in Cuts
<1> DEFINE T == {n \in Nat : Scan(first, n, key, mine, ends) \notin Cuts}
<1>1. 0 \notin T
  BY ScanFirst
<1>2. ASSUME NEW n \in Nat, n \notin T PROVE n + 1 \notin T
  <2>1. Scan(first, n, key, mine, ends) \in Cuts /\ n + 1 \in Nat /\ key[n + 1] \in Nat
    BY <1>2
  <2>2. WithKey(Scan(first, n, key, mine, ends), key[n + 1], ends) \in Cuts
    BY <2>1, WithKeyIs
  <2>3. Scan(first, n + 1, key, mine, ends) \in Cuts
    <3> HIDE DEF T
    <3> QED BY <2>1, <2>2, ScanStep
  <2> QED BY <2>3
<1>3. T \in SUBSET Nat
  OBVIOUS
<1> HIDE DEF T
<1>4. T = {}
  BY <1>1, <1>2, <1>3, NoCounterexample
<1> QED BY <1>4 DEF T

\* What is cut depends on nothing but the keys and which of them end a line.
LEMMA ScanAgrees ==
  ASSUME NEW first, NEW key, NEW m \in Nat, NEW mine, NEW ends, NEW mine2, NEW ends2,
         \A i \in 1..m : /\ i \in mine <=> i \in mine2
                         /\ i \in mine => (key[i] \in ends <=> key[i] \in ends2)
  PROVE  Scan(first, m, key, mine, ends) = Scan(first, m, key, mine2, ends2)
<1> DEFINE T == {n \in Nat : n <= m /\ Scan(first, n, key, mine, ends)
                                     # Scan(first, n, key, mine2, ends2)}
<1>1. 0 \notin T
  BY ScanFirst
<1>2. ASSUME NEW n \in Nat, n \notin T PROVE n + 1 \notin T
  <2> SUFFICES ASSUME n + 1 <= m
               PROVE  Scan(first, n + 1, key, mine, ends) = Scan(first, n + 1, key, mine2, ends2)
    OBVIOUS
  <2>1. n <= m /\ n + 1 \in 1..m
    OBVIOUS
  <2> DEFINE s == Scan(first, n, key, mine, ends)
  <2>2. s = Scan(first, n, key, mine2, ends2)
    BY <1>2, <2>1
  <2>3. Scan(first, n + 1, key, mine, ends)
          = IF n + 1 \in mine THEN WithKey(s, key[n + 1], ends) ELSE s
    <3> HIDE DEF T
    <3> QED BY ScanStep
  <2>4. Scan(first, n + 1, key, mine2, ends2)
          = IF n + 1 \in mine2 THEN WithKey(s, key[n + 1], ends2) ELSE s
    <3> HIDE DEF T
    <3>1. Scan(first, n + 1, key, mine2, ends2)
            = IF n + 1 \in mine2 THEN WithKey(Scan(first, n, key, mine2, ends2), key[n + 1], ends2)
              ELSE Scan(first, n, key, mine2, ends2)
      BY ScanStep
    <3> QED BY <2>2, <3>1
  <2> HIDE DEF s
  <2>5. n + 1 \in mine => WithKey(s, key[n + 1], ends) = WithKey(s, key[n + 1], ends2)
    BY <2>1 DEF WithKey
  <2> QED BY <2>1, <2>3, <2>4, <2>5
<1>3. T \in SUBSET Nat
  OBVIOUS
<1> HIDE DEF T
<1>4. T = {}
  BY <1>1, <1>2, <1>3, NoCounterexample
<1>5. m <= m
  OBVIOUS
<1> QED BY <1>4, <1>5 DEF T

NoneOf(mine, m, n) == \A i \in 1..n : m + i \notin mine

\* Keys that are not mine change nothing.
LEMMA ScanSkips ==
  ASSUME NEW first, NEW key, NEW mine, NEW ends, NEW m \in Nat, NEW n \in Nat,
         NoneOf(mine, m, n), NEW l, l = m + n
  PROVE  Scan(first, l, key, mine, ends) = Scan(first, m, key, mine, ends)
<1> DEFINE T == {i \in Nat : i <= n /\ Scan(first, m + i, key, mine, ends)
                                     # Scan(first, m, key, mine, ends)}
<1>1. 0 \notin T
  OBVIOUS
<1>2. ASSUME NEW i \in Nat, i \notin T PROVE i + 1 \notin T
  <2> SUFFICES ASSUME i + 1 <= n
               PROVE  Scan(first, m + (i + 1), key, mine, ends) = Scan(first, m, key, mine, ends)
    OBVIOUS
  <2>1. i <= n /\ i + 1 \in 1..n /\ m + i \in Nat /\ m + (i + 1) = (m + i) + 1
    OBVIOUS
  <2>2. Scan(first, m + i, key, mine, ends) = Scan(first, m, key, mine, ends)
    BY <1>2, <2>1
  <2>3. (m + i) + 1 \notin mine
    BY <2>1 DEF NoneOf
  <2>4. Scan(first, (m + i) + 1, key, mine, ends) = Scan(first, m + i, key, mine, ends)
    <3> HIDE DEF T
    <3> QED BY <2>1, <2>3, ScanStep
  <2> QED BY <2>1, <2>2, <2>4
<1>3. T \in SUBSET Nat
  OBVIOUS
<1> HIDE DEF T
<1>4. T = {}
  BY <1>1, <1>2, <1>3, NoCounterexample
<1>5. n <= n
  OBVIOUS
<1> QED BY <1>4, <1>5 DEF T

\* The first n of some keys, and which are mine, are those of others from m on.
Follows(key2, mine2, n, key, mine, m) ==
  \A i \in 1..n : key2[i] = key[m + i] /\ (i \in mine2 <=> m + i \in mine)

Left(A) == [whole |-> <<>>, left |-> A.left]
Both(A, B) == [whole |-> A.whole \o B.whole, left |-> B.left]

\* The keys behind the first m, cut by themselves behind what those have left.
LEMMA ScanOn ==
  ASSUME NEW first \in Cuts, NEW key \in [Nat -> Nat], NEW mine, NEW ends,
         NEW m \in Nat, NEW n \in Nat, NEW key2 \in [Nat -> Nat], NEW mine2,
         Follows(key2, mine2, n, key, mine, m), NEW l, l = m + n
  PROVE  Scan(first, l, key, mine, ends) =
           Both(Scan(first, m, key, mine, ends),
                Scan(Left(Scan(first, m, key, mine, ends)), n, key2, mine2, ends))
<1> DEFINE A == Scan(first, m, key, mine, ends)
           none == [whole |-> <<>>, left |-> A.left]
           B(i) == Scan(none, i, key2, mine2, ends)
           Whole(i) == Scan(first, m + i, key, mine, ends)
           T == {i \in Nat : i <= n /\ Whole(i) # [whole |-> A.whole \o B(i).whole, left |-> B(i).left]}
<1>1. A \in Cuts
  BY ScanType
<1>2. A.whole \in Seq(Seq(Nat)) /\ A.left \in Seq(Nat)
  BY <1>1 DEF Cuts
<1>3. none \in Cuts
  BY <1>2, EmptySeq DEF Cuts
<1>4. \A i \in Nat : B(i) \in Cuts
  BY <1>3, ScanType
<1>5. A = [whole |-> A.whole, left |-> A.left]
  BY <1>1 DEF Cuts
<1>6. 0 \notin T
  <2>1. B(0) = none
    BY ScanFirst
  <2>2. none.whole = <<>> /\ none.left = A.left
    OBVIOUS
  <2>3. A.whole \o <<>> = A.whole
    BY <1>2, ConcatEmptySeq
  <2>4. m + 0 = m
    OBVIOUS
  <2>5. Whole(0) = [whole |-> A.whole \o B(0).whole, left |-> B(0).left]
    <3> HIDE DEF none, B
    <3> QED BY <1>5, <2>1, <2>2, <2>3, <2>4
  <2> HIDE DEF Whole, B
  <2> QED BY <2>5
<1>7. ASSUME NEW i \in Nat, i \notin T PROVE i + 1 \notin T
  <2> SUFFICES ASSUME i + 1 <= n
               PROVE  Whole(i + 1) = [whole |-> A.whole \o B(i + 1).whole, left |-> B(i + 1).left]
    OBVIOUS
  <2>1. i <= n /\ i + 1 \in 1..n /\ m + i \in Nat /\ m + (i + 1) = (m + i) + 1 /\ i + 1 \in Nat
    OBVIOUS
  <2>2. Whole(i) = [whole |-> A.whole \o B(i).whole, left |-> B(i).left]
    BY <1>7, <2>1
  <2> DEFINE k == key2[i + 1]
             b == B(i)
             w == Whole(i)
  <2>3. k = key[(m + i) + 1] /\ k \in Nat /\ (i + 1 \in mine2 <=> (m + i) + 1 \in mine)
    <3>1. \A j \in 1..n : key2[j] = key[m + j] /\ (j \in mine2 <=> m + j \in mine)
      BY DEF Follows
    <3> QED BY <2>1, <3>1
  <2>4. Whole(i + 1) = IF (m + i) + 1 \in mine THEN WithKey(w, k, ends) ELSE w
    <3> HIDE DEF T, k
    <3>1. Scan(first, (m + i) + 1, key, mine, ends)
            = IF (m + i) + 1 \in mine THEN WithKey(w, key[(m + i) + 1], ends) ELSE w
      BY <2>1, ScanStep
    <3> QED BY <2>1, <2>3, <3>1
  <2>5. B(i + 1) = IF i + 1 \in mine2 THEN WithKey(b, k, ends) ELSE b
    <3> HIDE DEF T, none
    <3> QED BY ScanStep
  <2>6. b \in Cuts
    BY <1>4
  <2>7. w = [whole |-> A.whole \o b.whole, left |-> b.left]
    BY <2>2
  <2>8. b.whole \in Seq(Seq(Nat)) /\ b.left \in Seq(Nat)
    BY <2>6 DEF Cuts
  <2> HIDE DEF w, b, k, Whole, B, A
  <2>9. A.whole \o b.whole \in Seq(Seq(Nat))
    BY <1>2, <2>8, ConcatProperties
  <2>10. w \in Cuts /\ w.whole = A.whole \o b.whole /\ w.left = b.left
    BY <2>7, <2>8, <2>9 DEF Cuts
  <2>11. CASE (m + i) + 1 \notin mine
    BY <2>3, <2>4, <2>5, <2>7, <2>11
  <2>12. CASE (m + i) + 1 \in mine /\ k \notin ends
    <3>1. Whole(i + 1) = WithKey(w, k, ends) /\ B(i + 1) = WithKey(b, k, ends)
      BY <2>3, <2>4, <2>5, <2>12
    <3>2. WithKey(w, k, ends) = [whole |-> w.whole, left |-> Append(w.left, k)]
          /\ WithKey(b, k, ends) = [whole |-> b.whole, left |-> Append(b.left, k)]
      BY <2>12 DEF WithKey
    <3> DEFINE more == Append(b.left, k)
    <3>3. B(i + 1).whole = b.whole /\ B(i + 1).left = more
      <4>1. B(i + 1) = [whole |-> b.whole, left |-> more]
        BY <3>1, <3>2
      <4> HIDE DEF more
      <4> QED BY <4>1, CutIs
    <3> QED BY <2>10, <3>1, <3>2, <3>3
  <2>13. CASE (m + i) + 1 \in mine /\ k \in ends
    <3>1. Whole(i + 1) = WithKey(w, k, ends) /\ B(i + 1) = WithKey(b, k, ends)
      BY <2>3, <2>4, <2>5, <2>13
    <3>2. WithKey(w, k, ends) = [whole |-> Append(w.whole, w.left), left |-> <<>>]
          /\ WithKey(b, k, ends) = [whole |-> Append(b.whole, b.left), left |-> <<>>]
      BY <2>13 DEF WithKey
    <3> DEFINE more == Append(b.whole, b.left)
    <3>3. B(i + 1).whole = more /\ B(i + 1).left = <<>>
      <4>1. B(i + 1) = [whole |-> more, left |-> <<>>]
        BY <3>1, <3>2
      <4> HIDE DEF more
      <4> QED BY <4>1, CutIs
    <3>4. Append(A.whole \o b.whole, b.left) = A.whole \o Append(b.whole, b.left)
      BY <1>2, <2>8, OneLineMore
    <3> QED BY <2>10, <3>1, <3>2, <3>3, <3>4
  <2> QED BY <2>11, <2>12, <2>13
<1>8. T \in SUBSET Nat
  OBVIOUS
<1> HIDE DEF T
<1>9. T = {}
  BY <1>6, <1>7, <1>8, NoCounterexample
<1>10. n <= n
  OBVIOUS
<1>11. Whole(n) = [whole |-> A.whole \o B(n).whole, left |-> B(n).left]
  BY <1>9, <1>10 DEF T
<1> QED BY <1>11 DEF Both, Left

-----------------------------------------------------------------------------
(* What the module cuts.                                                   *)

Here == [i \in Nat |-> i]
After(m) == [i \in Nat |-> m + i]
Behind(b, a) == {i \in Nat : b[i] = a}

\* What n keys typed behind the prompts b make of ask a.
Got(a, n, b, ends) == Scan(NoKeys, n, Here, Behind(b, a), ends)

\* Typed, of values.
TypedOf(a, n, b, ends) ==
  LET s[k \in 0..n] == IF k = 0 THEN [whole |-> <<>>, left |-> <<>>]
                       ELSE IF b[k] = a THEN WithKey(s[k - 1], k, ends)
                       ELSE s[k - 1]
  IN s[n]

LEMMA TypedOfIs ==
  ASSUME NEW n \in Nat, NEW a, NEW b, NEW ends
  PROVE  TypedOf(a, n, b, ends) = Got(a, n, b, ends)
<1> DEFINE Is(s) == s = [k \in 0..n |-> IF k = 0 THEN [whole |-> <<>>, left |-> <<>>]
                          ELSE IF b[k] = a THEN WithKey(s[k - 1], k, ends)
                          ELSE s[k - 1]]
           s == CHOOSE u : Is(u)
<1>1. TypedOf(a, n, b, ends) = s[n]
  BY DEF TypedOf
<1>2. \A u : Is(u) <=> Scans(u, NoKeys, n, Here, Behind(b, a), ends)
  <2> SUFFICES ASSUME NEW u
               PROVE  Is(u) <=> Scans(u, NoKeys, n, Here, Behind(b, a), ends)
    OBVIOUS
  <2>1. ASSUME NEW k \in 0..n
        PROVE  (IF k = 0 THEN [whole |-> <<>>, left |-> <<>>]
                ELSE IF b[k] = a THEN WithKey(u[k - 1], k, ends) ELSE u[k - 1])
               = (IF k = 0 THEN NoKeys
                  ELSE IF k \in Behind(b, a) THEN WithKey(u[k - 1], Here[k], ends)
                  ELSE u[k - 1])
    <3>1. k \in Nat /\ Here[k] = k
      BY DEF Here
    <3> QED BY <3>1 DEF Behind, NoKeys
  <2>2. [k \in 0..n |-> IF k = 0 THEN [whole |-> <<>>, left |-> <<>>]
                ELSE IF b[k] = a THEN WithKey(u[k - 1], k, ends) ELSE u[k - 1]]
        = [k \in 0..n |-> IF k = 0 THEN NoKeys
                  ELSE IF k \in Behind(b, a) THEN WithKey(u[k - 1], Here[k], ends)
                  ELSE u[k - 1]]
    BY <2>1
  <2> QED BY <2>2 DEF Scans
<1>3. \E u : Is(u)
  <2> HIDE DEF Is
  <2> QED BY <1>2, ScansExist
<1>4. Is(s)
  BY <1>3
<1> HIDE DEF s, Is
<1>5. Scans(s, NoKeys, n, Here, Behind(b, a), ends)
  BY <1>2, <1>4
<1>6. \E G : Scans(G, NoKeys, n, Here, Behind(b, a), ends)
             /\ Scan(NoKeys, n, Here, Behind(b, a), ends) = G[n]
  BY <1>5, ScanIs
<1>7. n \in 0..n
  OBVIOUS
<1> QED BY <1>1, <1>5, <1>6, <1>7, ScansOnce DEF Got

LEMMA ScannedAre ==
  ASSUME NEW n \in Nat
  PROVE  Scanned(n) = Scan([whole |-> <<>>, left |-> line], n, After(read), Nat, newlines)
<1> DEFINE first == [whole |-> <<>>, left |-> line]
           Is(s) == s = [i \in 0..n |-> IF i = 0 THEN first
                                        ELSE WithKey(s[i - 1], read + i, newlines)]
           s == CHOOSE u : Is(u)
<1>1. Scanned(n) = s[n]
  BY DEF Scanned
<1>2. \A u : Is(u) <=> Scans(u, first, n, After(read), Nat, newlines)
  <2> SUFFICES ASSUME NEW u
               PROVE  Is(u) <=> Scans(u, first, n, After(read), Nat, newlines)
    OBVIOUS
  <2> HIDE DEF first
  <2>1. ASSUME NEW i \in 0..n
        PROVE  (IF i = 0 THEN first ELSE WithKey(u[i - 1], read + i, newlines))
               = (IF i = 0 THEN first
                  ELSE IF i \in Nat THEN WithKey(u[i - 1], After(read)[i], newlines)
                  ELSE u[i - 1])
    <3>1. i \in Nat /\ After(read)[i] = read + i
      BY DEF After
    <3> QED BY <3>1
  <2>2. [i \in 0..n |-> IF i = 0 THEN first ELSE WithKey(u[i - 1], read + i, newlines)]
        = [i \in 0..n |-> IF i = 0 THEN first
                  ELSE IF i \in Nat THEN WithKey(u[i - 1], After(read)[i], newlines)
                  ELSE u[i - 1]]
    BY <2>1
  <2> QED BY <2>2 DEF Scans
<1>3. \E u : Is(u)
  <2> HIDE DEF Is
  <2> QED BY <1>2, ScansExist
<1>4. Is(s)
  BY <1>3
<1> HIDE DEF s, Is, first
<1>5. Scans(s, first, n, After(read), Nat, newlines)
  BY <1>2, <1>4
<1>6. \E G : Scans(G, first, n, After(read), Nat, newlines)
             /\ Scan(first, n, After(read), Nat, newlines) = G[n]
  BY <1>5, ScanIs
<1>7. n \in 0..n
  OBVIOUS
<1> QED BY <1>1, <1>5, <1>6, <1>7, ScansOnce DEF first

LEMMA GotType ==
  ASSUME NEW a, NEW n \in Nat, NEW b, NEW ends
  PROVE  Got(a, n, b, ends) \in Cuts
<1>1. NoKeys \in Cuts
  BY EmptySeq DEF NoKeys, Cuts
<1>2. Here \in [Nat -> Nat]
  BY DEF Here
<1> QED BY <1>1, <1>2, ScanType DEF Got

\* Nothing was typed behind a prompt behind which no key was read.
LEMMA GotNothing ==
  ASSUME NEW a, NEW n \in Nat, NEW b, NEW ends, \A i \in 1..n : b[i] # a
  PROVE  Got(a, n, b, ends) = NoKeys
<1>1. NoneOf(Behind(b, a), 0, n)
  BY DEF Behind, NoneOf
<1>2. n = 0 + n
  OBVIOUS
<1>3. Scan(NoKeys, n, Here, Behind(b, a), ends) = Scan(NoKeys, 0, Here, Behind(b, a), ends)
  BY <1>1, <1>2, ScanSkips
<1> QED BY <1>3, ScanFirst DEF Got

LEMMA GotAgrees ==
  ASSUME NEW a, NEW n \in Nat, NEW b, NEW b2, NEW ends, NEW ends2,
         \A i \in 1..n : b[i] = b2[i] /\ (i \in ends <=> i \in ends2)
  PROVE  Got(a, n, b, ends) = Got(a, n, b2, ends2)
<1>1. ASSUME NEW i \in 1..n
      PROVE  /\ i \in Behind(b, a) <=> i \in Behind(b2, a)
             /\ Here[i] \in ends <=> Here[i] \in ends2
  <2>1. Here[i] = i
    BY DEF Here
  <2> QED BY <2>1 DEF Behind
<1>2. Scan(NoKeys, n, Here, Behind(b, a), ends) = Scan(NoKeys, n, Here, Behind(b2, a), ends2)
  BY <1>1, ScanAgrees
<1> QED BY <1>2 DEF Got

\* Of the keys before, the prompts are the same; those behind them are for an
\* ask, or not for it.
Same(b, b2, n) == \A i \in 1..n : b[i] = b2[i]
For(b2, n, m, a) == \A i \in 1..m : b2[n + i] = a
NotFor(b2, n, m, a) == \A i \in 1..m : b2[n + i] # a

\* A key more.
LEMMA GotOneMore ==
  ASSUME NEW a, NEW n \in Nat, NEW b, NEW b2, NEW ends, Same(b, b2, n)
  PROVE  /\ b2[n + 1] = a =>
              Got(a, n + 1, b2, ends) = WithKey(Got(a, n, b, ends), n + 1, ends)
         /\ b2[n + 1] # a => Got(a, n + 1, b2, ends) = Got(a, n, b, ends)
<1>1. Got(a, n, b, ends) = Got(a, n, b2, ends)
  BY GotAgrees DEF Same
<1>2. n + 1 \in Behind(b2, a) <=> b2[n + 1] = a
  BY DEF Behind
<1>3. Here[n + 1] = n + 1
  BY DEF Here
<1>4. /\ n + 1 \in Behind(b2, a) =>
           Got(a, n + 1, b2, ends) = WithKey(Got(a, n, b2, ends), Here[n + 1], ends)
      /\ n + 1 \notin Behind(b2, a) => Got(a, n + 1, b2, ends) = Got(a, n, b2, ends)
  BY ScanStep DEF Got
<1> QED BY <1>1, <1>2, <1>3, <1>4

\* Keys that none of the prompts of an ask was there for.
LEMMA GotNoMore ==
  ASSUME NEW a, NEW n \in Nat, NEW m \in Nat, NEW b, NEW b2, NEW ends,
         Same(b, b2, n), NotFor(b2, n, m, a), NEW l, l = n + m
  PROVE  Got(a, l, b2, ends) = Got(a, n, b, ends)
<1>1. Got(a, n, b, ends) = Got(a, n, b2, ends)
  BY GotAgrees DEF Same
<1> DEFINE mine == Behind(b2, a)
<1>2. NoneOf(mine, n, m)
  BY DEF Behind, NotFor, NoneOf
<1>3. Scan(NoKeys, l, Here, mine, ends) = Scan(NoKeys, n, Here, mine, ends)
  <2> HIDE DEF mine
  <2> QED BY <1>2, ScanSkips
<1> QED BY <1>1, <1>3 DEF Got

\* Keys that go on where those before have left off.
LEMMA GotMore ==
  ASSUME NEW a, NEW n \in Nat, NEW m \in Nat, NEW b, NEW b2, NEW ends,
         Same(b, b2, n), For(b2, n, m, a), NEW l, l = n + m
  PROVE  Got(a, l, b2, ends) =
           Both(Got(a, n, b, ends), Scan(Left(Got(a, n, b, ends)), m, After(n), Nat, ends))
<1>1. Got(a, n, b, ends) = Got(a, n, b2, ends)
  BY GotAgrees DEF Same
<1>2. NoKeys \in Cuts
  BY EmptySeq DEF NoKeys, Cuts
<1>3. Here \in [Nat -> Nat] /\ After(n) \in [Nat -> Nat]
  BY DEF Here, After
<1> DEFINE mine == Behind(b2, a)
           key2 == After(n)
           mine2 == Nat
<1>4. \A i \in 1..m : key2[i] = Here[n + i] /\ (i \in mine2 <=> n + i \in mine)
  <2> SUFFICES ASSUME NEW i \in 1..m
               PROVE  After(n)[i] = Here[n + i] /\ (i \in Nat <=> n + i \in Behind(b2, a))
    OBVIOUS
  <2>1. i \in Nat /\ n + i \in Nat
    OBVIOUS
  <2> QED BY <2>1 DEF Behind, Here, After, For
<1>5. key2 \in [Nat -> Nat]
  BY <1>3
<1> HIDE DEF mine, key2, mine2
<1>8. Follows(key2, mine2, m, Here, mine, n)
  BY <1>4 DEF Follows
<1>9. Here \in [Nat -> Nat]
  BY <1>3
<1>6. Scan(NoKeys, l, Here, mine, ends) =
        Both(Scan(NoKeys, n, Here, mine, ends),
             Scan(Left(Scan(NoKeys, n, Here, mine, ends)), m, key2, mine2, ends))
  BY <1>2, <1>5, <1>8, <1>9, ScanOn, SMTT(40)
<1>7. Scan(NoKeys, n, Here, mine, ends) = Got(a, n, b, ends)
      /\ Scan(NoKeys, l, Here, mine, ends) = Got(a, l, b2, ends)
  BY <1>1 DEF Got, mine
<1> QED BY <1>6, <1>7 DEF key2, mine2

-----------------------------------------------------------------------------
(* Strings that do not fit.                                                *)

LEMMA CutSeq ==
  ASSUME NEW s \in Seq(Nat)
  PROVE  /\ Cut(s) \in Seq(Nat)
         /\ Len(Cut(s)) = IF Len(s) < MaxOne THEN Len(s) ELSE MaxOne
         /\ \A i \in 1..Len(Cut(s)) : Cut(s)[i] = s[i]
<1> DEFINE n == IF Len(s) < MaxOne THEN Len(s) ELSE MaxOne
<1>1. Len(s) \in Nat /\ MaxOne \in Nat
  BY LenProperties, ConsoleAssumption
<1>2. n \in Nat /\ n <= Len(s) /\ n \in Int
  BY <1>1
<1>3. \A i \in 1..n : s[i] \in Nat
  BY <1>1, <1>2, ElementOfSeq
<1>4. Cut(s) = SubSeq(s, 1, n)
  BY DEF Cut
<1> HIDE DEF n
<1>5. /\ SubSeq(s, 1, n) \in Seq(Nat)
      /\ Len(SubSeq(s, 1, n)) = IF 1 <= n THEN n - 1 + 1 ELSE 0
      /\ \A i \in 1..(n - 1 + 1) : SubSeq(s, 1, n)[i] = s[1 + i - 1]
  BY <1>2, <1>3, SubSeqProperties
<1>6. Len(SubSeq(s, 1, n)) = n
  BY <1>2, <1>5
<1>7. \A i \in 1..n : SubSeq(s, 1, n)[i] = s[i]
  <2>1. ASSUME NEW i \in 1..n PROVE SubSeq(s, 1, n)[i] = s[i]
    <3>1. i \in 1..(n - 1 + 1) /\ 1 + i - 1 = i
      BY <1>2
    <3> QED BY <1>5, <3>1
  <2> QED BY <2>1
<1> QED BY <1>4, <1>5, <1>6, <1>7 DEF n

\* A string takes a key while there is room for it.
LEMMA CutAppend ==
  ASSUME NEW s \in Seq(Nat), NEW k \in Nat
  PROVE  Cut(Append(s, k)) = IF Len(Cut(s)) < MaxOne THEN Append(Cut(s), k) ELSE Cut(s)
<1> DEFINE t == Append(s, k)
           c == Cut(s)
           d == Cut(t)
<1>1. Len(s) \in Nat /\ MaxOne \in Nat
  BY LenProperties, ConsoleAssumption
<1>2. /\ t \in Seq(Nat) /\ Len(t) = Len(s) + 1
      /\ \A i \in 1..Len(s) : t[i] = s[i]
      /\ t[Len(s) + 1] = k
  BY AppendProperties
<1> HIDE DEF t
<1>3. /\ c \in Seq(Nat) /\ Len(c) = IF Len(s) < MaxOne THEN Len(s) ELSE MaxOne
      /\ \A i \in 1..Len(c) : c[i] = s[i]
  BY CutSeq
<1>4. /\ d \in Seq(Nat) /\ Len(d) = IF Len(t) < MaxOne THEN Len(t) ELSE MaxOne
      /\ \A i \in 1..Len(d) : d[i] = t[i]
  BY <1>2, CutSeq
<1> HIDE DEF c, d
<1>5. CASE Len(c) < MaxOne
  <2>1. Len(c) = Len(s) /\ Len(d) = Len(s) + 1
    BY <1>1, <1>2, <1>3, <1>4, <1>5
  <2>2. /\ Append(c, k) \in Seq(Nat) /\ Len(Append(c, k)) = Len(c) + 1
        /\ \A i \in 1..Len(c) : Append(c, k)[i] = c[i]
        /\ Append(c, k)[Len(c) + 1] = k
    BY SMTT(60), <1>3, AppendProperties
  <2> DEFINE e == Append(c, k)
  <2>3. e \in Seq(Nat) /\ Len(e) = Len(d)
    BY <2>1, <2>2
  <2>4. \A i \in 1..Len(d) : d[i] = e[i]
    <3> SUFFICES ASSUME NEW i \in 1..Len(d) PROVE d[i] = e[i]
      OBVIOUS
    <3>1. CASE i = Len(s) + 1
      BY <1>2, <1>4, <2>1, <2>2, <3>1
    <3>2. CASE i # Len(s) + 1
      <4>1. i \in 1..Len(s)
        BY <1>1, <2>1, <3>2
      <4> QED BY <1>2, <1>3, <1>4, <2>1, <2>2, <4>1
    <3> QED BY <3>1, <3>2
  <2> HIDE DEF e
  <2>5. d = e
    BY <1>4, <2>3, <2>4, SeqEqual
  <2> QED BY <1>5, <2>5 DEF c, d, t, e
<1>6. CASE ~ (Len(c) < MaxOne)
  <2>1. Len(c) = MaxOne /\ Len(d) = MaxOne /\ MaxOne <= Len(s)
    BY <1>1, <1>2, <1>3, <1>4, <1>6
  <2>2. \A i \in 1..Len(d) : d[i] = c[i]
    <3> SUFFICES ASSUME NEW i \in 1..Len(d) PROVE d[i] = c[i]
      OBVIOUS
    <3>1. i \in 1..Len(s) /\ i \in 1..Len(c)
      BY <1>1, <2>1
    <3> QED BY <1>2, <1>3, <1>4, <3>1
  <2>3. d = c
    BY <1>3, <1>4, <2>1, <2>2, SeqEqual
  <2> QED BY <1>6, <2>3 DEF c, d, t
<1> QED BY <1>5, <1>6

LEMMA CutNothing == Cut(<<>>) = <<>>
<1>1. <<>> \in Seq(Nat) /\ Len(<<>>) = 0
  BY EmptySeq
<1>2. MaxOne \in Nat
  BY ConsoleAssumption
<1> DEFINE s == <<>>
<1>3. s \in Seq(Nat) /\ Len(s) = 0
  BY <1>1
<1> HIDE DEF s
<1>4. Cut(s) \in Seq(Nat) /\ Len(Cut(s)) = IF Len(s) < MaxOne THEN Len(s) ELSE MaxOne
  BY <1>3, CutSeq
<1>5. Len(Cut(s)) = 0
  BY <1>2, <1>3, <1>4
<1>6. Cut(s) = <<>>
  BY <1>4, <1>5, EmptySeq
<1> QED BY <1>6 DEF s

-----------------------------------------------------------------------------
(* The inductive invariant.                                                *)

Mine(a) == Got(a, read, behind, newlines)
Kept == IF read_one_string /\ ~readline_disabled THEN saved_line ELSE line

Typing ==
  /\ read \in Nat /\ typed \in Nat /\ read <= typed /\ newlines \subseteq 1..typed
  /\ readline_disabled \in BOOLEAN /\ eof \in BOOLEAN /\ read_one_string \in BOOLEAN
  /\ line \in Seq(Nat) /\ saved_line \in Seq(Nat) /\ one_string \in Seq(Nat)
  /\ one_string_num \in Nat /\ one_string_total_args \in Nat
  /\ one_string_results \in [1..3 -> Seq(Nat)]
  /\ ran \in Seq(Seq(Nat))
  /\ asks \in Seq(Totals)
  /\ one_string_cb = Len(asks)
  /\ behind \in Seq(0..Len(asks)) /\ Len(behind) = read
  /\ answers \in Seq([ask : Nat, strings : Seq(Seq(Nat))])

\* The last line is run, without its end, once nothing is left to be read.
RanInv ==
  \/ ran = Mine(0).whole /\ Kept = Mine(0).left
  \/ eof /\ read = typed /\ ran = Append(Mine(0).whole, Mine(0).left) /\ Kept = <<>>

\* The prompt that is there is the last ask's, and has what was typed for it.
AskInv ==
  read_one_string =>
    /\ Len(asks) > 0
    /\ one_string_total_args = asks[Len(asks)]
    /\ one_string_num < one_string_total_args
    /\ one_string_num = Len(Mine(Len(asks)).whole)
    /\ one_string = Cut(Mine(Len(asks)).left)
    /\ \A j \in 1..one_string_num : one_string_results[j] = Cut(Mine(Len(asks)).whole[j])

Strings(whole) == [j \in DOMAIN whole |-> Cut(whole[j])]

AnswerInv ==
  /\ \A i \in DOMAIN answers :
       /\ answers[i].ask \in 1..Len(asks)
       /\ read_one_string => answers[i].ask # Len(asks)
       /\ Len(answers[i].strings) = asks[answers[i].ask]
       /\ answers[i].strings = Strings(Mine(answers[i].ask).whole)
  /\ \A i, j \in DOMAIN answers : answers[i].ask = answers[j].ask => i = j

ConsoleInv == Typing /\ RanInv /\ AskInv /\ AnswerInv

LEMMA MineType == ASSUME Typing, NEW a PROVE Mine(a) \in Cuts /\ Mine(a).whole \in Seq(Seq(Nat))
                                             /\ Mine(a).left \in Seq(Nat)
<1>1. Mine(a) \in Cuts
  BY GotType DEF Mine, Typing
<1> QED BY <1>1 DEF Cuts

LEMMA ConsoleInvHolds == ConsoleInv => KeysGoWhereTyped
<1> SUFFICES ASSUME ConsoleInv PROVE KeysGoWhereTyped
  OBVIOUS
<1> USE DEF ConsoleInv
<1>1. ASSUME NEW a PROVE Typed(a) = Mine(a)
  <2>1. Typed(a) = TypedOf(a, read, behind, newlines)
    BY DEF Typed, TypedOf
  <2>2. read \in Nat
    BY DEF Typing
  <2> QED BY <2>1, <2>2, TypedOfIs DEF Mine
<1>2. LinesAreWhatWasTyped
  <2>1. Typed(0) = Mine(0)
    BY <1>1
  <2> QED BY <2>1 DEF RanInv, Kept, LinesAreWhatWasTyped
<1>3. AnswersAreWhatWasTyped
  <2>1. ASSUME NEW i \in DOMAIN answers
        PROVE  LET a == answers[i]
                   s == Typed(a.ask)
               IN Len(a.strings) = asks[a.ask]
                  /\ a.strings = [j \in DOMAIN s.whole |-> Cut(s.whole[j])]
    <3>1. Typed(answers[i].ask) = Mine(answers[i].ask)
      BY <1>1
    <3> QED BY <3>1 DEF AnswerInv, Strings
  <2>2. \A i, j \in DOMAIN answers : answers[i].ask = answers[j].ask => i = j
    BY DEF AnswerInv
  <2> QED BY <2>1, <2>2 DEF AnswersAreWhatWasTyped
<1> QED BY <1>2, <1>3 DEF KeysGoWhereTyped

LEMMA ConsoleInvInit == ConsoleInit => ConsoleInv
<1> SUFFICES ASSUME ConsoleInit PROVE ConsoleInv
  OBVIOUS
<1> USE DEF ConsoleInit
<1>1. Typing
  <2>1. [i \in 1..3 |-> <<>>] \in [1..3 -> Seq(Nat)]
    BY EmptySeq
  <2>2. /\ line \in Seq(Nat) /\ saved_line \in Seq(Nat) /\ one_string \in Seq(Nat)
        /\ ran \in Seq(Seq(Nat)) /\ asks \in Seq(Totals)
        /\ behind \in Seq(0..Len(asks)) /\ answers \in Seq([ask : Nat, strings : Seq(Seq(Nat))])
        /\ Len(asks) = 0 /\ Len(behind) = 0
    BY EmptySeq
  <2>3. /\ read = 0 /\ typed = 0 /\ newlines = {} /\ one_string_num = 0
        /\ one_string_total_args = 0 /\ one_string_cb = 0
        /\ one_string_results = [i \in 1..3 |-> <<>>]
        /\ readline_disabled \in BOOLEAN /\ eof = FALSE /\ read_one_string = FALSE
    OBVIOUS
  <2>4. newlines \subseteq 1..typed /\ read <= typed
    BY <2>3
  <2> HIDE DEF ConsoleInit
  <2> QED BY <2>1, <2>2, <2>3, <2>4 DEF Typing
<1>2. Mine(0) = NoKeys
  BY ScanFirst DEF Mine, Got
<1>3. RanInv
  BY <1>2 DEF RanInv, Kept, NoKeys
<1>4. AskInv /\ AnswerInv
  BY DEF AskInv, AnswerInv
<1> QED BY <1>1, <1>3, <1>4 DEF ConsoleInv

-----------------------------------------------------------------------------
(* The steps.                                                              *)

\* A step that reads no key, runs no line and leaves the line where it is.
LEMMA QuietKeeps ==
  ASSUME ConsoleInv, Typing', eof => eof' /\ typed' = typed,
         \A a : Got(a, read', behind', newlines') = Got(a, read, behind, newlines),
         UNCHANGED <<readline_disabled, read, rl, prompt, ran, asks, answers>>
  PROVE  ConsoleInv'
<1> USE DEF ConsoleInv, rl, prompt, Mine
<1>1. Kept' = Kept
  BY DEF Kept
<1>2. RanInv'
  BY <1>1 DEF RanInv
<1>3. AskInv'
  BY DEF AskInv
<1>4. AnswerInv'
  BY DEF AnswerInv
<1> QED BY <1>2, <1>3, <1>4

LEMMA TypeKeeps ==
  ASSUME ConsoleInv, NEW b \in BOOLEAN, Type(b)
  PROVE  ConsoleInv'
<1> USE DEF ConsoleInv, Type
<1>1. read \in Nat /\ typed \in Nat /\ read <= typed /\ newlines \subseteq 1..typed
  BY DEF Typing
<1>2. newlines' \subseteq 1..typed' /\ typed' \in Nat /\ read <= typed'
  BY <1>1
<1>3. Typing'
  BY <1>2 DEF Typing, rl, prompt
<1>4. \A i \in 1..read : i \in newlines' <=> i \in newlines
  BY <1>1
<1>5. \A a : Got(a, read', behind', newlines') = Got(a, read, behind, newlines)
  BY <1>1, <1>4, GotAgrees
<1> QED BY <1>3, <1>5, QuietKeeps

LEMMA CloseKeeps == ASSUME ConsoleInv, Close PROVE ConsoleInv'
<1> USE DEF ConsoleInv, Close
<1>1. Typing'
  BY DEF Typing, rl, prompt
<1>2. \A a : Got(a, read', behind', newlines') = Got(a, read, behind, newlines)
  OBVIOUS
<1> QED BY <1>1, <1>2, QuietKeeps

LEMMA EndKeeps == ASSUME ConsoleInv, EndOfInput PROVE ConsoleInv'
<1> USE DEF ConsoleInv, EndOfInput
<1>1. \A a : Got(a, read', behind', newlines') = Got(a, read, behind, newlines)
  OBVIOUS
<1>2. CASE readline_disabled \/ read_one_string
  <2>1. UNCHANGED <<line, ran>>
    BY <1>2
  <2>2. Typing'
    BY <2>1 DEF Typing, prompt
  <2> QED BY <1>1, <2>1, <2>2, QuietKeeps DEF rl
<1>3. CASE ~ (readline_disabled \/ read_one_string) /\ line = <<>>
  <2>1. UNCHANGED <<line, ran>>
    BY <1>3
  <2>2. Typing'
    BY <2>1 DEF Typing, prompt
  <2> QED BY <1>1, <2>1, <2>2, QuietKeeps DEF rl
<1>4. CASE ~ (readline_disabled \/ read_one_string) /\ line # <<>>
  <2>1. ran' = Append(ran, line) /\ line' = <<>> /\ Kept = line /\ Kept' = <<>>
    BY <1>4 DEF Kept, prompt
  <2>2. line \in Seq(Nat) /\ ran \in Seq(Seq(Nat))
    BY DEF Typing
  <2>3. ran' \in Seq(Seq(Nat)) /\ line' \in Seq(Nat)
    BY <2>1, <2>2, AppendProperties, EmptySeq
  <2>4. Typing'
    BY <2>3 DEF Typing, prompt
  <2>5. RanInv'
    <3>1. ran = Mine(0).whole /\ line = Mine(0).left
      BY <1>4, <2>1 DEF RanInv
    <3> QED BY <2>1, <3>1 DEF RanInv, Mine
  <2>6. AskInv' /\ AnswerInv'
    BY <1>4 DEF AskInv, AnswerInv, Mine, prompt
  <2> QED BY <2>4, <2>5, <2>6
<1> QED BY <1>2, <1>3, <1>4

LEMMA ReadLinesKeeps ==
  ASSUME ConsoleInv, NEW n \in Keys, ReadLines(n)
  PROVE  ConsoleInv'
<1> USE DEF ConsoleInv, ReadLines
<1>1. /\ n \in Nat /\ n > 0 /\ read + n <= typed /\ ~read_one_string
      /\ read \in Nat /\ typed \in Nat /\ read <= typed
  <2>1. MaxKeys \in Nat
    BY ConsoleAssumption
  <2> QED BY <2>1 DEF Keys, Typing
<1>2. Kept = line /\ Kept' = line' /\ ~read_one_string'
  BY <1>1 DEF Kept, prompt
<1>3. ran = Mine(0).whole /\ line = Mine(0).left
  BY <1>1, <1>2 DEF RanInv
<1> DEFINE more == [i \in 1..n |-> 0]
<1>4. /\ behind' \in Seq(0..Len(asks)) /\ Len(behind') = read + n
      /\ \A i \in 1..read : behind[i] = behind'[i]
      /\ \A i \in 1..n : behind'[read + i] = 0
  <2>1. Len(asks) \in Nat /\ behind \in Seq(0..Len(asks)) /\ Len(behind) = read
    BY LenProperties DEF Typing
  <2>2. more \in Seq(0..Len(asks)) /\ Len(more) = n /\ \A i \in 1..n : more[i] = 0
    BY <1>1, <2>1
  <2>3. behind' = behind \o more
    OBVIOUS
  <2> HIDE DEF more
  <2> DEFINE S == 0..Len(asks)
  <2>4. behind \in Seq(S) /\ more \in Seq(S)
    BY <2>1, <2>2
  <2> HIDE DEF S
  <2>5. /\ behind \o more \in Seq(S) /\ Len(behind \o more) = Len(behind) + Len(more)
        /\ \A i \in 1..(Len(behind) + Len(more)) :
             (behind \o more)[i] = IF i <= Len(behind) THEN behind[i] ELSE more[i - Len(behind)]
    BY <2>4, ConcatProperties
  <2>6. \A i \in 1..read : i \in 1..(read + n) /\ i <= read
    BY <1>1
  <2>7. \A i \in 1..n : read + i \in 1..(read + n) /\ ~ (read + i <= read) /\ (read + i) - read = i
    BY <1>1
  <2>8. \A i \in 1..read : behind'[i] = behind[i]
    BY <2>1, <2>2, <2>3, <2>5, <2>6
  <2>9. \A i \in 1..n : behind'[read + i] = 0
    BY SMTT(60), <2>1, <2>2, <2>3, <2>5, <2>7
  <2> QED BY <2>1, <2>2, <2>3, <2>5, <2>8, <2>9 DEF S
<1> HIDE DEF more
<1>5. \A a : a # 0 => Got(a, read', behind', newlines') = Got(a, read, behind, newlines)
  <2> SUFFICES ASSUME NEW a, a # 0
               PROVE  Got(a, read', behind', newlines') = Got(a, read, behind, newlines)
    OBVIOUS
  <2>2. read' = read + n /\ newlines' = newlines
    OBVIOUS
  <2>1. Same(behind, behind', read) /\ NotFor(behind', read, n, a)
    BY <1>4 DEF Same, NotFor
  <2> HIDE DEF ConsoleInv, ReadLines
  <2>3. Got(a, read', behind', newlines) = Got(a, read, behind, newlines)
    BY <1>1, <2>1, <2>2, GotNoMore
  <2> QED BY <2>2, <2>3
<1>6. Got(0, read', behind', newlines') =
        Both(Mine(0), Scan(Left(Mine(0)), n, After(read), Nat, newlines))
  <2>1. read' = read + n /\ newlines' = newlines
    OBVIOUS
  <2>3. Same(behind, behind', read) /\ For(behind', read, n, 0)
    BY <1>4 DEF Same, For
  <2> HIDE DEF ConsoleInv, ReadLines
  <2>2. Got(0, read', behind', newlines) =
          Both(Got(0, read, behind, newlines),
               Scan(Left(Got(0, read, behind, newlines)), n, After(read), Nat, newlines))
    BY <1>1, <2>1, <2>3, GotMore
  <2> QED BY <2>1, <2>2 DEF Mine
<1>7. Scanned(n) = Scan(Left(Mine(0)), n, After(read), Nat, newlines)
  BY <1>1, <1>3, ScannedAre DEF Left
<1>8. Scanned(n) \in Cuts
  <2>1. Left(Mine(0)) \in Cuts
    BY <1>3, EmptySeq DEF Left, Cuts, Typing
  <2>2. After(read) \in [Nat -> Nat]
    BY <1>1 DEF After
  <2> QED BY <1>1, <1>7, <2>1, <2>2, ScanType
<1>9. ran' \in Seq(Seq(Nat)) /\ line' \in Seq(Nat)
  <2>1. Scanned(n).whole \in Seq(Seq(Nat)) /\ Scanned(n).left \in Seq(Nat)
    BY <1>8 DEF Cuts
  <2>2. ran \in Seq(Seq(Nat))
    BY DEF Typing
  <2> QED BY <2>1, <2>2, ConcatProperties
<1>10. Typing'
  BY <1>1, <1>4, <1>9 DEF Typing, prompt
<1>11. RanInv'
  <2> DEFINE g == Got(0, read', behind', newlines')
             B == Scanned(n)
  <2>1. g = [whole |-> Mine(0).whole \o B.whole, left |-> B.left]
    BY <1>6, <1>7 DEF Both
  <2>2. g.whole = ran' /\ g.left = line'
    <3> DEFINE x == Mine(0).whole \o B.whole
    <3>1. x = ran' /\ B.left = line'
      BY <1>3
    <3> HIDE DEF x, B, g
    <3> QED BY <2>1, <3>1 DEF x
  <2> HIDE DEF g, B
  <2> QED BY <1>2, <2>2 DEF RanInv, Mine, g
<1>12. AskInv'
  BY <1>2 DEF AskInv
<1>13. AnswerInv'
  <2>1. \A i \in DOMAIN answers : answers[i].ask # 0
    <3>1. \A i \in DOMAIN answers : answers[i].ask \in 1..Len(asks)
      BY DEF AnswerInv
    <3> QED BY <3>1
  <2> QED BY <1>1, <1>2, <1>5, <2>1 DEF AnswerInv, Mine
<1> QED BY <1>10, <1>11, <1>12, <1>13

\* A key read behind a prompt is the last ask's.
LEMMA ReadKeyReads ==
  ASSUME ConsoleInv, ReadKey, newlines' = newlines
  PROVE  /\ Len(asks) \in Nat /\ Len(asks) > 0
         /\ read' = read + 1 /\ read' \in Nat /\ read' <= typed
         /\ behind' \in Seq(0..Len(asks)) /\ Len(behind') = read'
         /\ \A a : a # Len(asks) =>
              Got(a, read', behind', newlines') = Got(a, read, behind, newlines)
         /\ Got(Len(asks), read', behind', newlines')
              = WithKey(Got(Len(asks), read, behind, newlines), read + 1, newlines)
<1>1. /\ read' = read + 1 /\ behind' = Append(behind, Len(asks)) /\ read < typed /\ read_one_string
      /\ read \in Nat /\ typed \in Nat
  BY DEF ReadKey, ConsoleInv, Typing
<1>2. Len(asks) \in Nat /\ Len(asks) > 0 /\ behind \in Seq(0..Len(asks)) /\ Len(behind) = read
  BY <1>1, LenProperties DEF ConsoleInv, Typing, AskInv
<1> DEFINE S == 0..Len(asks)
<1>3. Len(asks) \in S /\ behind \in Seq(S)
  BY <1>2
<1> HIDE DEF S
<1>4. /\ behind' \in Seq(S) /\ Len(behind') = read + 1
      /\ \A i \in 1..read : behind'[i] = behind[i]
      /\ behind'[read + 1] = Len(asks)
  BY <1>1, <1>2, <1>3, AppendProperties
<1>5. Same(behind, behind', read)
  BY <1>4 DEF Same
<1>6. ASSUME NEW a
      PROVE  /\ a = Len(asks) => Got(a, read + 1, behind', newlines)
                                 = WithKey(Got(a, read, behind, newlines), read + 1, newlines)
             /\ a # Len(asks) => Got(a, read + 1, behind', newlines) = Got(a, read, behind, newlines)
  <2>1. /\ behind'[read + 1] = a => Got(a, read + 1, behind', newlines)
                                    = WithKey(Got(a, read, behind, newlines), read + 1, newlines)
        /\ behind'[read + 1] # a => Got(a, read + 1, behind', newlines) = Got(a, read, behind, newlines)
    <3>1. read \in Nat
      BY <1>1
    <3> QED BY <1>5, <3>1, GotOneMore
  <2> QED BY <1>4, <2>1
<1>7. \A a : a # Len(asks) =>
         Got(a, read + 1, behind', newlines) = Got(a, read, behind, newlines)
  BY <1>6
<1>8. Got(Len(asks), read + 1, behind', newlines)
        = WithKey(Got(Len(asks), read, behind, newlines), read + 1, newlines)
  BY <1>6
<1> QED BY <1>1, <1>2, <1>4, <1>7, <1>8 DEF S

\* Such a key leaves the interpreter's lines alone.
LEMMA ReadKeyRuns ==
  ASSUME ConsoleInv, ReadKey, newlines' = newlines, typed' = typed, Kept' = Kept, ran' = ran
  PROVE  RanInv'
<1>1. Len(asks) # 0 /\ read < typed /\ read \in Nat /\ typed \in Nat
  BY SMTT(60), ReadKeyReads DEF ReadKey, ConsoleInv, Typing
<1>2. Got(0, read', behind', newlines') = Got(0, read, behind, newlines)
  BY <1>1, ReadKeyReads
<1>3. ran = Mine(0).whole /\ Kept = Mine(0).left
  BY <1>1 DEF RanInv, ConsoleInv
<1> QED BY <1>2, <1>3 DEF RanInv, Mine

\* Nor does it touch what callbacks have been given.
LEMMA ReadKeyAnswers ==
  ASSUME ConsoleInv, ReadKey, newlines' = newlines
  PROVE  \A i \in DOMAIN answers :
           /\ answers[i].ask \in 1..Len(asks) /\ answers[i].ask # Len(asks)
           /\ Len(answers[i].strings) = asks[answers[i].ask]
           /\ answers[i].strings = Strings(Got(answers[i].ask, read', behind', newlines').whole)
<1> SUFFICES ASSUME NEW i \in DOMAIN answers
             PROVE  /\ answers[i].ask \in 1..Len(asks) /\ answers[i].ask # Len(asks)
                    /\ Len(answers[i].strings) = asks[answers[i].ask]
                    /\ answers[i].strings
                         = Strings(Got(answers[i].ask, read', behind', newlines').whole)
  OBVIOUS
<1>1. /\ answers[i].ask \in 1..Len(asks) /\ answers[i].ask # Len(asks)
      /\ Len(answers[i].strings) = asks[answers[i].ask]
      /\ answers[i].strings = Strings(Got(answers[i].ask, read, behind, newlines).whole)
  BY DEF ConsoleInv, AnswerInv, ReadKey, Mine
<1>2. Got(answers[i].ask, read', behind', newlines') = Got(answers[i].ask, read, behind, newlines)
  BY <1>1, ReadKeyReads
<1> QED BY <1>1, <1>2

LEMMA TotalsAre == \A n \in Totals : n \in 1..3
BY ConsoleAssumption

LEMMA PromptKeyKeeps == ASSUME ConsoleInv, ReadPromptKey PROVE ConsoleInv'
<1>1. /\ ReadKey /\ newlines' = newlines /\ typed' = typed /\ read + 1 \notin newlines
      /\ one_string' = IF Len(one_string) < MaxOne THEN Append(one_string, read + 1) ELSE one_string
      /\ UNCHANGED <<readline_disabled, eof, line, saved_line, read_one_string, one_string_num,
                     one_string_total_args, one_string_cb, one_string_results, ran, asks, answers>>
      /\ read_one_string
  BY DEF ReadPromptKey, rl, ReadKey
<1>2. /\ Len(asks) \in Nat /\ Len(asks) > 0
      /\ read' = read + 1 /\ read' \in Nat /\ read' <= typed
      /\ behind' \in Seq(0..Len(asks)) /\ Len(behind') = read'
      /\ Got(Len(asks), read', behind', newlines') = WithKey(Mine(Len(asks)), read + 1, newlines)
  BY <1>1, ReadKeyReads DEF Mine
<1>3. Typing
  BY DEF ConsoleInv
<1>4. Mine(Len(asks)) \in Cuts /\ Mine(Len(asks)).left \in Seq(Nat) /\ read + 1 \in Nat
  BY SMTT(60), <1>3, MineType DEF Typing
<1>5. one_string' \in Seq(Nat)
  BY <1>1, <1>3, <1>4, AppendProperties DEF Typing
<1>6. Typing'
  BY <1>1, <1>2, <1>3, <1>5 DEF Typing
<1>7. RanInv'
  BY <1>1, ReadKeyRuns DEF Kept
<1>8. AskInv'
  <2> DEFINE s == Mine(Len(asks))
             t == Got(Len(asks), read', behind', newlines')
  <2>1. t.whole = s.whole /\ t.left = Append(s.left, read + 1)
    BY SMTT(60), <1>1, <1>2, <1>4, WithKeyIs
  <2>2. /\ one_string_total_args = asks[Len(asks)]
        /\ one_string_num < one_string_total_args
        /\ one_string_num = Len(s.whole)
        /\ one_string = Cut(s.left)
        /\ \A j \in 1..one_string_num : one_string_results[j] = Cut(s.whole[j])
    BY <1>1 DEF ConsoleInv, AskInv
  <2>3. Cut(Append(s.left, read + 1)) = one_string'
    BY <1>1, <1>4, <2>2, CutAppend
  <2> HIDE DEF s
  <2>4. /\ one_string_num = Len(t.whole) /\ one_string' = Cut(t.left)
        /\ \A j \in 1..one_string_num : one_string_results[j] = Cut(t.whole[j])
    BY <2>1, <2>2, <2>3
  <2> HIDE DEF t
  <2> QED BY <1>1, <1>2, <2>2, <2>4 DEF AskInv, Mine, t
<1>9. AnswerInv'
  <2>1. \A i, j \in DOMAIN answers : answers[i].ask = answers[j].ask => i = j
    BY DEF ConsoleInv, AnswerInv
  <2>2. \A i \in DOMAIN answers :
           /\ answers[i].ask \in 1..Len(asks) /\ answers[i].ask # Len(asks)
           /\ Len(answers[i].strings) = asks[answers[i].ask]
           /\ answers[i].strings = Strings(Got(answers[i].ask, read', behind', newlines').whole)
    BY <1>1, ReadKeyAnswers
  <2> QED BY <1>1, <2>1, <2>2 DEF AnswerInv, Mine, Strings
<1> QED BY <1>6, <1>7, <1>8, <1>9 DEF ConsoleInv

\* A string ends: what the ask has, and the strings kept of it.
LEMMA StringEnds ==
  ASSUME ConsoleInv, ReadKey, newlines' = newlines, read + 1 \in newlines
  PROVE  LET s == Got(Len(asks), read, behind, newlines)
             t == Got(Len(asks), read', behind', newlines')
         IN /\ t.whole = Append(s.whole, s.left) /\ t.left = <<>>
            /\ t.whole \in Seq(Seq(Nat))
            /\ Len(t.whole) = one_string_num + 1
            /\ one_string_num + 1 \in 1..one_string_total_args
            /\ one_string_total_args = asks[Len(asks)] /\ one_string_total_args \in 1..3
            /\ Results \in [1..3 -> Seq(Nat)]
            /\ \A j \in 1..(one_string_num + 1) : Results[j] = Cut(t.whole[j])
<1> DEFINE s == Got(Len(asks), read, behind, newlines)
           t == Got(Len(asks), read', behind', newlines')
           n == one_string_num
<1>1. Len(asks) \in Nat /\ Len(asks) > 0 /\ t = WithKey(s, read + 1, newlines)
  BY ReadKeyReads
<1>2. /\ n \in Nat /\ read + 1 \in Nat /\ one_string \in Seq(Nat)
      /\ one_string_results \in [1..3 -> Seq(Nat)]
  BY DEF ConsoleInv, Typing
<1>3. s \in Cuts /\ s.whole \in Seq(Seq(Nat)) /\ s.left \in Seq(Nat)
  BY MineType DEF ConsoleInv, Mine
<1>4. /\ one_string_total_args = asks[Len(asks)] /\ n < one_string_total_args
      /\ n = Len(s.whole) /\ one_string = Cut(s.left)
      /\ \A j \in 1..n : one_string_results[j] = Cut(s.whole[j])
  BY DEF ConsoleInv, AskInv, ReadKey, Mine
<1>5. one_string_total_args \in 1..3
  <2>1. asks[Len(asks)] \in Totals
    BY SMTT(60), <1>1, ElementOfSeq DEF ConsoleInv, Typing
  <2> QED BY <1>4, <2>1, TotalsAre
<1>6. n + 1 \in 1..one_string_total_args /\ n + 1 \in 1..3
  <2>1. n \in Nat /\ n < one_string_total_args
    BY <1>2, <1>4
  <2> HIDE DEF n
  <2> QED BY <1>5, <2>1
<1> HIDE DEF s
<1>7. t.whole = Append(s.whole, s.left) /\ t.left = <<>>
  <2> DEFINE k == read + 1
  <2>1. k \in Nat /\ k \in newlines /\ t = WithKey(s, k, newlines)
    BY <1>1, <1>2
  <2> HIDE DEF k, t
  <2> QED BY SMTT(60), <1>3, <2>1, WithKeyIs
<1>8. /\ Append(s.whole, s.left) \in Seq(Seq(Nat))
      /\ Len(Append(s.whole, s.left)) = n + 1
      /\ \A j \in 1..n : Append(s.whole, s.left)[j] = s.whole[j]
      /\ Append(s.whole, s.left)[n + 1] = s.left
  BY <1>3, <1>4, AppendProperties
<1>9. Results \in [1..3 -> Seq(Nat)]
  BY <1>2 DEF Results
<1>10. ASSUME NEW j \in 1..(n + 1) PROVE Results[j] = Cut(Append(s.whole, s.left)[j])
  <2>1. j \in 1..3
    BY <1>2, <1>6
  <2>2. Results[j] = IF j = n + 1 THEN one_string ELSE one_string_results[j]
    BY <1>2, <2>1 DEF Results
  <2>3. CASE j = n + 1
    BY <1>4, <1>8, <2>2, <2>3
  <2>4. CASE j # n + 1
    <3>1. j \in 1..n
      BY <1>2, <2>4
    <3> QED BY <1>4, <1>8, <2>2, <2>4, <3>1
  <2> QED BY <2>3, <2>4
<1> HIDE DEF t
<1>11. /\ t.whole \in Seq(Seq(Nat)) /\ Len(t.whole) = n + 1
       /\ \A j \in 1..(n + 1) : Results[j] = Cut(t.whole[j])
  BY <1>7, <1>8, <1>10
<1> QED BY <1>4, <1>5, <1>6, <1>7, <1>9, <1>11 DEF s, t

LEMMA NextStringKeeps == ASSUME ConsoleInv, NextString PROVE ConsoleInv'
<1>1. /\ ReadKey /\ newlines' = newlines /\ typed' = typed /\ read + 1 \in newlines
      /\ one_string_num + 1 < one_string_total_args
      /\ one_string_results' = Results /\ one_string_num' = one_string_num + 1 /\ one_string' = <<>>
      /\ UNCHANGED <<readline_disabled, eof, line, saved_line, read_one_string,
                     one_string_total_args, one_string_cb, ran, asks, answers>>
      /\ read_one_string
  BY DEF NextString, rl, ReadKey
<1>2. /\ Len(asks) \in Nat /\ Len(asks) > 0
      /\ read' = read + 1 /\ read' \in Nat /\ read' <= typed
      /\ behind' \in Seq(0..Len(asks)) /\ Len(behind') = read'
  BY <1>1, ReadKeyReads
<1> DEFINE t == Got(Len(asks), read', behind', newlines')
<1>3. /\ t.left = <<>> /\ Len(t.whole) = one_string_num + 1
      /\ one_string_total_args = asks[Len(asks)]
      /\ Results \in [1..3 -> Seq(Nat)]
      /\ \A j \in 1..(one_string_num + 1) : Results[j] = Cut(t.whole[j])
  BY <1>1, StringEnds
<1>4. Typing
  BY DEF ConsoleInv
<1>5. one_string' \in Seq(Nat) /\ one_string_num' \in Nat
  BY <1>1, <1>4, EmptySeq DEF Typing
<1>6. Typing'
  BY <1>1, <1>2, <1>3, <1>4, <1>5 DEF Typing
<1>7. RanInv'
  BY <1>1, ReadKeyRuns DEF Kept
<1>8. AskInv'
  <2>1. one_string' = Cut(t.left)
    BY <1>1, <1>3, CutNothing
  <2> HIDE DEF t
  <2> QED BY <1>1, <1>2, <1>3, <2>1 DEF AskInv, Mine, t
<1>9. AnswerInv'
  <2>1. \A i, j \in DOMAIN answers : answers[i].ask = answers[j].ask => i = j
    BY DEF ConsoleInv, AnswerInv
  <2>2. \A i \in DOMAIN answers :
           /\ answers[i].ask \in 1..Len(asks) /\ answers[i].ask # Len(asks)
           /\ Len(answers[i].strings) = asks[answers[i].ask]
           /\ answers[i].strings = Strings(Got(answers[i].ask, read', behind', newlines').whole)
    BY <1>1, ReadKeyAnswers
  <2> QED BY <1>1, <2>1, <2>2 DEF AnswerInv, Mine, Strings
<1> QED BY <1>6, <1>7, <1>8, <1>9 DEF ConsoleInv

\* An ask, perhaps before the one before has had its answer: whatever is typed
\* from now on is its own.
LEMMA NewAsk ==
  ASSUME NEW n \in Nat, NEW b, Len(b) = n, NEW k \in Nat, b \in Seq(0..k), NEW ends
  PROVE  Got(k + 1, n, b, ends) = NoKeys
<1>1. \A i \in 1..n : b[i] # k + 1
  <2> SUFFICES ASSUME NEW i \in 1..n PROVE b[i] # k + 1
    OBVIOUS
  <2>1. b[i] \in 0..k
    BY ElementOfSeq
  <2> QED BY <2>1
<1> QED BY <1>1, GotNothing

LEMMA AskKeeps ==
  ASSUME ConsoleInv, NEW total \in Totals, do_get_values(total)
  PROVE  ConsoleInv'
<1>1. /\ asks' = Append(asks, total) /\ one_string_cb' = Len(asks) + 1
      /\ one_string_num' = 0 /\ one_string_total_args' = total
      /\ read_one_string' /\ read_one_string' = TRUE /\ one_string' = <<>>
      /\ UNCHANGED <<readline_disabled, newlines, typed, read, eof, one_string_results, ran,
                     answers, behind>>
  BY DEF do_get_values, keys
<1> USE DEF ConsoleInv
<1>3. /\ IF read_one_string \/ readline_disabled THEN UNCHANGED <<line, saved_line>>
         ELSE saved_line' = line /\ line' = <<>>
  BY DEF do_get_values, deactivate_readline, rl
<1>4. /\ line \in Seq(Nat) /\ saved_line \in Seq(Nat) /\ readline_disabled \in BOOLEAN
      /\ asks \in Seq(Totals) /\ Len(asks) \in Nat /\ read \in Nat
      /\ behind \in Seq(0..Len(asks)) /\ Len(behind) = read
  BY LenProperties DEF Typing
<1>5. Kept' = Kept
  BY <1>1, <1>3 DEF Kept
<1>6. line' \in Seq(Nat) /\ saved_line' \in Seq(Nat)
  BY <1>3, <1>4, EmptySeq
<1>7. /\ asks' \in Seq(Totals) /\ Len(asks') = Len(asks) + 1 /\ asks'[Len(asks) + 1] = total
      /\ \A i \in 1..Len(asks) : asks'[i] = asks[i]
  BY <1>1, <1>4, AppendProperties
<1>8. behind \in Seq(0..Len(asks'))
  <2>1. 0..Len(asks) \subseteq 0..Len(asks')
    BY <1>4, <1>7
  <2> QED BY <1>4, <2>1, SeqMonotonic
<1>9. total \in 1..3
  BY TotalsAre
<1>10. Typing'
  <2>1. one_string' \in Seq(Nat) /\ one_string_num' \in Nat /\ one_string_total_args' \in Nat
    BY <1>1, <1>9, EmptySeq
  <2> QED BY <1>1, <1>4, <1>6, <1>7, <1>8, <2>1 DEF Typing
<1>11. RanInv'
  BY <1>1, <1>5 DEF RanInv, Mine
<1>12. AskInv'
  <2>1. Got(Len(asks) + 1, read, behind, newlines) = NoKeys
    BY <1>4, NewAsk
  <2>2. NoKeys.whole = <<>> /\ NoKeys.left = <<>> /\ Len(<<>>) = 0
    BY EmptySeq DEF NoKeys
  <2>3. Cut(<<>>) = <<>>
    BY CutNothing
  <2> QED BY <1>1, <1>4, <1>7, <1>9, <2>1, <2>2, <2>3 DEF AskInv, Mine
<1>13. AnswerInv'
  <2> SUFFICES ASSUME NEW i \in DOMAIN answers
               PROVE  /\ answers[i].ask \in 1..Len(asks') /\ answers[i].ask # Len(asks')
                      /\ Len(answers[i].strings) = asks'[answers[i].ask]
                      /\ answers[i].strings = Strings(Mine(answers[i].ask).whole)
    BY <1>1 DEF AnswerInv, Mine, Strings
  <2>1. /\ answers[i].ask \in 1..Len(asks)
        /\ Len(answers[i].strings) = asks[answers[i].ask]
        /\ answers[i].strings = Strings(Mine(answers[i].ask).whole)
    BY DEF AnswerInv
  <2> QED BY <1>4, <1>7, <2>1
<1> QED BY <1>10, <1>11, <1>12, <1>13

LEMMA FrontOf ==
  ASSUME NEW S, NEW s, NEW n \in Nat, n >= 1, \A i \in 1..n : s[i] \in S
  PROVE  /\ SubSeq(s, 1, n) \in Seq(S) /\ Len(SubSeq(s, 1, n)) = n
         /\ \A j \in 1..n : SubSeq(s, 1, n)[j] = s[j]
<1>1. 1 \in Int /\ n \in Int
  OBVIOUS
<1>2. /\ SubSeq(s, 1, n) \in Seq(S) /\ Len(SubSeq(s, 1, n)) = IF 1 <= n THEN n - 1 + 1 ELSE 0
      /\ \A i \in 1..(n - 1 + 1) : SubSeq(s, 1, n)[i] = s[1 + i - 1]
  BY SMTT(60), <1>1, SubSeqProperties
<1> DEFINE g == SubSeq(s, 1, n)
<1> HIDE DEF g
<1>3. Len(g) = n
  BY <1>2 DEF g
<1>4. ASSUME NEW j \in 1..n PROVE g[j] = s[j]
  <2>1. j \in 1..(n - 1 + 1) /\ 1 + j - 1 = j
    OBVIOUS
  <2> QED BY <1>2, <2>1 DEF g
<1> QED BY <1>2, <1>3, <1>4 DEF g

\* What a callback is given: the strings of its ask, cut where they do not fit.
LEMMA GivenAre ==
  ASSUME NEW whole \in Seq(Seq(Nat)), NEW n \in 1..3, Len(whole) = n,
         NEW results \in [1..3 -> Seq(Nat)], \A j \in 1..n : results[j] = Cut(whole[j])
  PROVE  /\ SubSeq(results, 1, n) \in Seq(Seq(Nat)) /\ Len(SubSeq(results, 1, n)) = n
         /\ SubSeq(results, 1, n) = Strings(whole)
<1> DEFINE g == SubSeq(results, 1, n)
           c == Strings(whole)
           S == Seq(Nat)
<1>1. n \in Int /\ n >= 1 /\ n - 1 + 1 = n /\ \A j \in 1..n : j \in 1..3
  OBVIOUS
<1>2. \A j \in 1..n : results[j] \in S
  BY <1>1
<1>3. DOMAIN whole = 1..n /\ \A j \in 1..n : whole[j] \in S
  BY LenProperties, ElementOfSeq
<1>4. \A j \in 1..n : Cut(whole[j]) \in S
  BY <1>3, CutSeq
<1>5. c = [j \in 1..n |-> Cut(whole[j])]
  BY <1>3 DEF Strings
<1> HIDE DEF S
<1>6. c \in Seq(S) /\ Len(c) = n /\ \A j \in 1..n : c[j] = Cut(whole[j])
  <2>1. c \in [1..n -> S] /\ n \in Nat
    BY <1>1, <1>4, <1>5
  <2> QED BY <1>5, <2>1
<1>7. g \in Seq(S) /\ Len(g) = n /\ \A j \in 1..n : g[j] = results[j]
  <2>1. n \in Nat /\ n >= 1
    OBVIOUS
  <2> QED BY SMTT(60), <1>2, <2>1, FrontOf
<1> HIDE DEF g, c
<1>8. \A j \in 1..Len(g) : g[j] = c[j]
  BY <1>6, <1>7
<1>9. g = c
  BY <1>6, <1>7, <1>8, SeqEqual
<1> QED BY <1>7, <1>9 DEF g, c, S

LEMMA LastStringKeeps == ASSUME ConsoleInv, LastString PROVE ConsoleInv'
<1> DEFINE k == Len(asks)
           given == SubSeq(Results, 1, one_string_total_args)
           again == /\ asks' = Append(asks, one_string_total_args)
                    /\ one_string_cb' = Len(asks) + 1
                    /\ one_string_num' = 0
                    /\ one_string' = <<>>
                    /\ UNCHANGED <<read_one_string, line, saved_line>>
           ends == /\ read_one_string' = FALSE
                   /\ one_string_num' = one_string_num + 1
                   /\ IF readline_disabled THEN line' = line ELSE line' = saved_line
                   /\ UNCHANGED <<one_string, one_string_cb, asks, saved_line>>
<1>1. /\ ReadKey /\ newlines' = newlines /\ typed' = typed /\ read + 1 \in newlines
      /\ one_string_num + 1 = one_string_total_args
      /\ one_string_results' = Results
      /\ answers' = Append(answers, [ask |-> one_string_cb, strings |-> given])
      /\ UNCHANGED <<readline_disabled, eof, one_string_total_args, ran>>
      /\ read_one_string
  BY DEF LastString, ReadKey
<1>2. again \/ ends
  BY DEF LastString, rl
<1>3. /\ k \in Nat /\ k > 0
      /\ read' = read + 1 /\ read' \in Nat /\ read' <= typed
      /\ behind' \in Seq(0..k) /\ Len(behind') = read'
  BY <1>1, ReadKeyReads
<1> DEFINE t == Got(k, read', behind', newlines')
<1>4. /\ t.whole \in Seq(Seq(Nat)) /\ Len(t.whole) = one_string_total_args
      /\ one_string_total_args = asks[k] /\ one_string_total_args \in 1..3
      /\ Results \in [1..3 -> Seq(Nat)]
      /\ \A j \in 1..one_string_total_args : Results[j] = Cut(t.whole[j])
  BY <1>1, StringEnds
<1>5. /\ given \in Seq(Seq(Nat)) /\ Len(given) = one_string_total_args
      /\ given = Strings(t.whole)
  <2> DEFINE w == t.whole
             n == one_string_total_args
             r == Results
  <2>1. /\ w \in Seq(Seq(Nat)) /\ n \in 1..3 /\ Len(w) = n /\ r \in [1..3 -> Seq(Nat)]
        /\ \A j \in 1..n : r[j] = Cut(w[j])
    BY <1>4
  <2> HIDE DEF w, n, r
  <2>2. /\ SubSeq(r, 1, n) \in Seq(Seq(Nat)) /\ Len(SubSeq(r, 1, n)) = n
        /\ SubSeq(r, 1, n) = Strings(w)
    BY <2>1, GivenAre
  <2> QED BY <2>2 DEF w, n, r
<1>6. Typing /\ one_string_cb = k
  BY DEF ConsoleInv, Typing
<1> DEFINE a == [ask |-> k, strings |-> given]
           A == [ask : Nat, strings : Seq(Seq(Nat))]
           m == Len(answers)
<1>7. a \in A /\ a.ask = k /\ a.strings = given
  BY <1>3, <1>5
<1>8. answers \in Seq(A) /\ answers' = Append(answers, a) /\ m \in Nat /\ DOMAIN answers = 1..m
  <2>1. answers \in Seq(A)
    BY <1>6 DEF Typing
  <2> HIDE DEF A
  <2> QED BY <1>1, <1>6, <2>1, LenProperties
<1> HIDE DEF A, a, given, again, ends, t, k
<1>9. /\ answers' \in Seq(A) /\ Len(answers') = m + 1 /\ DOMAIN answers' = 1..(m + 1)
      /\ \A i \in 1..m : answers'[i] = answers[i]
      /\ answers'[m + 1] = a
  <2>1. /\ answers' \in Seq(A) /\ Len(answers') = m + 1
        /\ \A i \in 1..m : answers'[i] = answers[i]
        /\ answers'[m + 1] = a
    BY <1>7, <1>8, AppendProperties
  <2> QED BY <2>1, LenProperties
<1>10. one_string_results' \in [1..3 -> Seq(Nat)] /\ one_string_total_args' \in Nat
  BY <1>1, <1>4
\* The callback is given what was typed for it.
<1>11. ASSUME NEW i \in DOMAIN answers'
       PROVE  /\ answers'[i].ask \in 1..k
              /\ Len(answers'[i].strings) = asks[answers'[i].ask]
              /\ answers'[i].strings = Strings(Got(answers'[i].ask, read', behind', newlines').whole)
  <2>1. CASE i = m + 1
    <3>1. answers'[i] = a
      BY <1>9, <2>1
    <3>2. k \in 1..k
      BY <1>3
    <3> QED BY <1>4, <1>5, <1>7, <3>1, <3>2 DEF t
  <2>2. CASE i # m + 1
    <3>1. i \in 1..m /\ i \in DOMAIN answers
      BY <1>8, <1>9, <2>2
    <3>2. answers'[i] = answers[i]
      BY <1>9, <3>1
    <3> QED BY <1>1, <3>1, <3>2, ReadKeyAnswers DEF k
  <2> QED BY <2>1, <2>2
<1>12. ASSUME NEW i \in DOMAIN answers', NEW j \in DOMAIN answers',
              answers'[i].ask = answers'[j].ask
       PROVE  i = j
  <2>1. \A x \in 1..m : answers'[x].ask # k
    BY <1>1, <1>8, <1>9, ReadKeyAnswers DEF k
  <2>2. answers'[m + 1].ask = k
    BY <1>7, <1>9
  <2>3. CASE i \in 1..m /\ j \in 1..m
    <3>1. answers[i].ask = answers[j].ask
      BY <1>9, <1>12, <2>3
    <3> QED BY <1>8, <2>3, <3>1 DEF ConsoleInv, AnswerInv
  <2>4. CASE i = m + 1 \/ j = m + 1
    <3>1. i \in 1..(m + 1) /\ j \in 1..(m + 1)
      BY <1>9
    <3> QED BY <1>8, <1>12, <2>1, <2>2, <2>4, <3>1
  <2>5. i \in 1..(m + 1) /\ j \in 1..(m + 1)
    BY <1>9
  <2> QED BY <1>8, <2>3, <2>4, <2>5
<1>13. Kept' = Kept
  BY <1>1, <1>2 DEF Kept, again, ends
<1>14. RanInv'
  BY <1>1, <1>13, ReadKeyRuns
<1>15. line' \in Seq(Nat) /\ saved_line' \in Seq(Nat) /\ one_string' \in Seq(Nat)
       /\ one_string_num' \in Nat /\ read_one_string' \in BOOLEAN
  <2>1. /\ line \in Seq(Nat) /\ saved_line \in Seq(Nat) /\ one_string \in Seq(Nat)
        /\ one_string_num \in Nat /\ read_one_string \in BOOLEAN /\ <<>> \in Seq(Nat)
    BY <1>6, EmptySeq DEF Typing
  <2>2. CASE ends
    <3>1. /\ read_one_string' = FALSE /\ one_string_num' = one_string_num + 1
          /\ line' = line \/ line' = saved_line
          /\ one_string' = one_string /\ saved_line' = saved_line
      BY <2>2 DEF ends
    <3>2. line' \in Seq(Nat) /\ saved_line' \in Seq(Nat) /\ one_string' \in Seq(Nat)
      BY <2>1, <3>1
    <3>3. one_string_num' \in Nat
      BY <2>1, <3>1
    <3>4. read_one_string' = FALSE
      BY <3>1
    <3>5. read_one_string' \in BOOLEAN
      BY <3>4, Zenon
    <3> QED BY <3>2, <3>3, <3>5
  <2>3. CASE again
    <3>1. /\ read_one_string' = read_one_string /\ one_string_num' = 0
          /\ line' = line /\ one_string' = <<>> /\ saved_line' = saved_line
      BY <2>3 DEF again
    <3> QED BY <2>1, <3>1
  <2> QED BY <1>2, <2>2, <2>3
\* No other string is asked for.
<1>16. CASE ends
  <2>1. asks' = asks /\ one_string_cb' = one_string_cb /\ ~read_one_string'
    BY <1>16 DEF ends
  <2>2. Typing'
    BY <1>1, <1>3, <1>6, <1>9, <1>10, <1>15, <2>1 DEF Typing, A, k
  <2>3. AskInv'
    BY <2>1 DEF AskInv
  <2>4. AnswerInv'
    BY <1>11, <1>12, <2>1 DEF AnswerInv, Mine, Strings, k
  <2> QED BY <1>14, <2>2, <2>3, <2>4 DEF ConsoleInv
\* The callback asks again.
<1>17. CASE again
  <2>1. /\ asks' = Append(asks, one_string_total_args) /\ one_string_cb' = k + 1
        /\ one_string_num' = 0 /\ one_string' = <<>> /\ read_one_string'
    BY <1>1, <1>17 DEF again, k
  <2>2. asks \in Seq(Totals) /\ asks[k] \in Totals
    BY SMTT(60), <1>3, <1>6, ElementOfSeq DEF Typing, k
  <2>3. /\ asks' \in Seq(Totals) /\ Len(asks') = k + 1 /\ asks'[k + 1] = one_string_total_args
        /\ \A i \in 1..k : asks'[i] = asks[i]
    BY <1>4, <2>1, <2>2, AppendProperties DEF k
  <2>4. behind' \in Seq(0..Len(asks'))
    <3>1. 0..k \subseteq 0..Len(asks')
      BY <1>3, <2>3
    <3> QED BY <1>3, <3>1, SeqMonotonic
  <2>5. Typing'
    BY <1>1, <1>3, <1>6, <1>9, <1>10, <1>15, <2>1, <2>3, <2>4 DEF Typing, A
  <2>6. AskInv'
    <3>1. Got(k + 1, read', behind', newlines') = NoKeys
      BY <1>3, NewAsk
    <3>2. NoKeys.whole = <<>> /\ NoKeys.left = <<>> /\ Len(<<>>) = 0
      BY EmptySeq DEF NoKeys
    <3>3. Cut(<<>>) = <<>>
      BY CutNothing
    <3>4. /\ Len(asks') = k + 1 /\ k + 1 > 0 /\ 0 < one_string_total_args'
          /\ one_string_total_args' = asks'[Len(asks')] /\ one_string_num' = 0
          /\ one_string' = <<>>
      BY SMTT(60), <1>1, <1>3, <1>4, <2>1, <2>3
    <3>5. Mine(Len(asks))' = NoKeys
      BY <3>1, <3>4 DEF Mine
    <3>6. \A j \in 1..0 : FALSE
      OBVIOUS
    <3> QED BY <3>2, <3>3, <3>4, <3>5, <3>6 DEF AskInv
  <2>7. AnswerInv'
    <3> SUFFICES ASSUME NEW i \in DOMAIN answers'
                 PROVE  /\ answers'[i].ask \in 1..Len(asks') /\ answers'[i].ask # Len(asks')
                        /\ Len(answers'[i].strings) = asks'[answers'[i].ask]
                        /\ answers'[i].strings
                             = Strings(Got(answers'[i].ask, read', behind', newlines').whole)
      BY <1>12 DEF AnswerInv, Mine, Strings
    <3>1. /\ answers'[i].ask \in 1..k
          /\ Len(answers'[i].strings) = asks[answers'[i].ask]
          /\ answers'[i].strings = Strings(Got(answers'[i].ask, read', behind', newlines').whole)
      BY <1>11
    <3> QED BY <1>3, <2>3, <3>1
  <2> QED BY <1>14, <2>5, <2>6, <2>7 DEF ConsoleInv
<1> QED BY <1>2, <1>16, <1>17

LEMMA ConsoleInvStep == ConsoleInv /\ [ConsoleNext]_consoleVars => ConsoleInv'
<1> SUFFICES ASSUME ConsoleInv, [ConsoleNext]_consoleVars PROVE ConsoleInv'
  OBVIOUS
<1>1. ASSUME NEW b \in BOOLEAN, Type(b) PROVE ConsoleInv'
  BY <1>1, TypeKeeps
<1>2. CASE Close
  BY <1>2, CloseKeeps
<1>3. ASSUME NEW n \in Keys, ReadLines(n) PROVE ConsoleInv'
  BY <1>3, ReadLinesKeeps
<1>4. CASE EndOfInput
  BY <1>4, EndKeeps
<1>5. ASSUME NEW total \in Totals, do_get_values(total) PROVE ConsoleInv'
  BY <1>5, AskKeeps
<1>6. CASE ReadPromptKey
  BY <1>6, PromptKeyKeeps
<1>7. CASE NextString
  BY <1>7, NextStringKeeps
<1>8. CASE LastString
  BY <1>8, LastStringKeeps
<1>9. CASE UNCHANGED consoleVars
  <2>1. Typing'
    BY <1>9 DEF consoleVars, keys, rl, prompt, ConsoleInv, Typing
  <2>2. \A a : Got(a, read', behind', newlines') = Got(a, read, behind, newlines)
    BY <1>9 DEF consoleVars, keys
  <2> QED BY <1>9, <2>1, <2>2, QuietKeeps DEF consoleVars, keys
<1> QED BY <1>1, <1>2, <1>3, <1>4, <1>5, <1>6, <1>7, <1>8, <1>9 DEF ConsoleNext

\* Every key goes to the interpreter or to the callback whose prompt was there
\* when it was read, in lines and strings as they were typed, whatever prompts
\* come between and replace one another (loop.c:131-306).
THEOREM KeysGoRight == ConsoleSpec => []KeysGoWhereTyped
BY ConsoleInvInit, ConsoleInvStep, ConsoleInvHolds, PTL DEF ConsoleSpec

-----------------------------------------------------------------------------
(* Arguments of a command.                                                *)

-----------------------------------------------------------------------------
(* What a pattern declares.                                                *)

Singles == {"user", "chat", "peer", "msg_id", "number"}
Arg     == Singles \cup {"string", "string_end", "missing"}
Items   == [is : Singles \cup {"string", "string_end", "period"}, opt : BOOLEAN]

RowOf(p, w, D, i) ==
  IF i > Len(p) THEN AtItsEnd(w) ELSE Makes(p, w, i, D[i + 1], D[i + 2])

Table(p, w) == CHOOSE D : D = [i \in 1..(Len(p) + 2) |-> RowOf(p, w, D, i)]

LEMMA AllowedIs == ASSUME NEW p, NEW w PROVE Allowed(p, w) = Table(p, w)[1][1]
BY DEF Allowed, Table, RowOf

\* From its last row up, the table can be filled.
LEMMA TableFills ==
  ASSUME NEW p \in Seq(Items), NEW w
  PROVE  \E D : D = [i \in 1..(Len(p) + 2) |-> RowOf(p, w, D, i)]
<1> DEFINE n == Len(p) + 2
           Filled(D, d) == /\ D = [i \in 1..n |-> D[i]]
                           /\ \A i \in 1..n : n - d <= i => D[i] = RowOf(p, w, D, i)
           T == {d \in Nat : ~ \E D : Filled(D, d)}
<1>1. n \in Nat /\ Len(p) = n - 2
  BY LenProperties
<1>2. 0 \notin T
  <2> DEFINE D == [i \in 1..n |-> AtItsEnd(w)]
  <2>1. D = [i \in 1..n |-> D[i]]
    OBVIOUS
  <2>2. \A i \in 1..n : n - 0 <= i => D[i] = RowOf(p, w, D, i)
    BY <1>1 DEF RowOf
  <2>3. Filled(D, 0)
    BY <2>1, <2>2
  <2> QED BY <2>3
<1> HIDE DEF n
<1>3. ASSUME NEW d \in Nat, d \notin T PROVE d + 1 \notin T
  <2>1. PICK D : Filled(D, d)
    BY <1>3
  <2> DEFINE m == n - (d + 1)
             H == [i \in 1..n |-> IF i = m THEN RowOf(p, w, D, m) ELSE D[i]]
  <2>2. /\ D = [i \in 1..n |-> D[i]]
        /\ \A i \in 1..n : n - d <= i => D[i] = RowOf(p, w, D, i)
    BY <2>1
  <2>3. /\ H = [i \in 1..n |-> H[i]]
        /\ \A i \in 1..n : H[i] = IF i = m THEN RowOf(p, w, D, m) ELSE D[i]
    OBVIOUS
  <2>4. m \in Int /\ n - d = m + 1
    BY <1>1
  <2> HIDE DEF H, m
  <2>5. ASSUME NEW i \in 1..n, m <= i PROVE H[i] = RowOf(p, w, H, i)
    <3>1. RowOf(p, w, H, i) = RowOf(p, w, D, i)
      <4>1. CASE i > Len(p)
        BY <4>1 DEF RowOf
      <4>2. CASE ~ (i > Len(p))
        <5>1. i + 1 \in 1..n /\ i + 2 \in 1..n /\ i + 1 # m /\ i + 2 # m
          BY <1>1, <2>4, <2>5, <4>2
        <5>2. H[i + 1] = D[i + 1] /\ H[i + 2] = D[i + 2]
          BY <2>3, <5>1
        <5> QED BY <4>2, <5>2 DEF RowOf
      <4> QED BY <4>1, <4>2
    <3>2. CASE i = m
      BY <2>3, <3>1, <3>2
    <3>3. CASE i # m
      <4>1. n - d <= i
        BY <1>1, <2>4, <2>5, <3>3
      <4> QED BY <2>2, <2>3, <3>1, <3>3, <4>1
    <3> QED BY <3>2, <3>3
  <2>6. Filled(H, d + 1)
    BY <2>3, <2>5 DEF m
  <2> QED BY <2>6
<1> HIDE DEF T
<1>4. T = {}
  <2>1. T \in SUBSET Nat
    BY DEF T
  <2> QED BY <1>2, <1>3, <2>1, NoCounterexample
<1>5. PICK D : Filled(D, n)
  BY <1>1, <1>4 DEF T
<1>6. D = [i \in 1..n |-> D[i]] /\ \A i \in 1..n : D[i] = RowOf(p, w, D, i)
  <2>1. \A i \in 1..n : n - n <= i
    BY <1>1
  <2> QED BY <1>5, <2>1
<1>7. D = [i \in 1..n |-> RowOf(p, w, D, i)]
  BY <1>6
<1> QED BY <1>7 DEF n

LEMMA TableRows ==
  ASSUME NEW p \in Seq(Items), NEW w, NEW i \in 1..(Len(p) + 2)
  PROVE  Table(p, w)[i] = RowOf(p, w, Table(p, w), i)
<1> DEFINE D == Table(p, w)
<1>1. D = [x \in 1..(Len(p) + 2) |-> RowOf(p, w, D, x)]
  BY TableFills DEF Table
<1> HIDE DEF D
<1>2. D[i] = RowOf(p, w, D, i)
  BY <1>1
<1> QED BY <1>2 DEF D

\* A pattern as the table has them: what takes the rest of the line is its last
\* item, and what is repeated is read from one word, with nothing behind it but
\* perhaps the rest of the line.
WellFormed(p) ==
  /\ p \in Seq(Items)
  /\ \A i \in 1..Len(p) : p[i].is = "string_end" => i = Len(p)
  /\ p # <<>> => p[1].is # "period"
  /\ \A i \in 1..Len(p) : i + 1 <= Len(p) /\ p[i + 1].is = "period" =>
       /\ p[i].is \in Singles
       /\ i + 1 = Len(p) \/ (i + 2 = Len(p) /\ p[i + 2].is = "string_end")

RepeatedAt(p, i) == i < Len(p) /\ p[i + 1].is = "period"

Words == {w \in Seq(Word) : \A i \in 1..Len(w) : w[i].closed}

\* A word that the item cannot be, or none.
NoneFits(p, w, i, j) == j > Len(w) \/ ~Fits(p[i].is, w[j])

LEMMA WordsAre == ASSUME NEW w \in Words PROVE Len(w) \in Nat /\ DOMAIN w = 1..Len(w)
BY LenProperties DEF Words

LEMMA RowEnd ==
  ASSUME NEW p \in Seq(Items), NEW w \in Words, NEW i \in 1..(Len(p) + 2), i > Len(p),
         NEW j \in 1..(Len(w) + 1)
  PROVE  Table(p, w)[i][j] = IF j > Len(w) THEN {<<>>} ELSE {}
<1>1. Table(p, w)[i] = AtItsEnd(w)
  BY TableRows DEF RowOf
<1> QED BY <1>1 DEF AtItsEnd

LEMMA RowMakes ==
  ASSUME NEW p \in Seq(Items), NEW w \in Words, NEW i \in 1..Len(p)
  PROVE  Table(p, w)[i] = Makes(p, w, i, Table(p, w)[i + 1], Table(p, w)[i + 2])
<1>1. Len(p) \in Nat
  BY LenProperties
<1>2. i \in 1..(Len(p) + 2) /\ ~ (i > Len(p))
  BY <1>1
<1> QED BY <1>2, TableRows DEF RowOf

LEMMA RowRest ==
  ASSUME NEW p \in Seq(Items), NEW w \in Words, NEW i \in 1..Len(p), p[i].is = "string_end",
         NEW j \in 1..(Len(w) + 1)
  PROVE  Table(p, w)[i][j] = IF j > Len(w) \/ ~w[j].quoted \/ (w[j].closed /\ j = Len(w))
                             THEN {<<"string_end">>} ELSE {}
<1> DEFINE A == Table(p, w)[i + 1]
           L == Table(p, w)[i + 2]
<1>1. Table(p, w)[i] = Makes(p, w, i, A, L)
  BY RowMakes
<1> HIDE DEF A, L
<1>2. Makes(p, w, i, A, L)[j] = IF j > Len(w) \/ ~w[j].quoted \/ (w[j].closed /\ j = Len(w))
                                THEN {<<"string_end">>} ELSE {}
  BY DEF Makes
<1> QED BY <1>1, <1>2

LEMMA RowRepeated ==
  ASSUME NEW p \in Seq(Items), NEW w \in Words, NEW i \in 1..Len(p), RepeatedAt(p, i),
         p[i].is \in Singles, NEW j \in 1..(Len(w) + 1)
  PROVE  \A s : s \in Table(p, w)[i][j] <=>
           \E m \in Many(p[i].is, w, j) : \E rest \in Table(p, w)[i + 2][j + m] :
             s = [x \in 1..m |-> p[i].is] \o rest
<1>1. p[i].is # "string_end"
  BY DEF Singles
<1> DEFINE A == Table(p, w)[i + 1]
           L == Table(p, w)[i + 2]
<1>2. Table(p, w)[i] = Makes(p, w, i, A, L)
  BY RowMakes
<1> HIDE DEF A, L
<1>3. Makes(p, w, i, A, L)[j]
        = UNION {{[x \in 1..m |-> p[i].is] \o rest : rest \in L[j + m]} : m \in Many(p[i].is, w, j)}
  BY <1>1 DEF Makes, RepeatedAt
<1> DEFINE M == Many(p[i].is, w, j)
           F(m, rest) == [x \in 1..m |-> p[i].is] \o rest
<1>4. Makes(p, w, i, A, L)[j] = UNION {{F(m, rest) : rest \in L[j + m]} : m \in M}
  BY <1>3
<1> HIDE DEF M, F
<1>5. \A s : s \in Makes(p, w, i, A, L)[j] <=> \E m \in M : \E rest \in L[j + m] : s = F(m, rest)
  BY <1>4
<1> QED BY <1>2, <1>5 DEF L, M, F

LEMMA RowSingle ==
  ASSUME NEW p \in Seq(Items), NEW w \in Words, NEW i \in 1..Len(p), ~RepeatedAt(p, i),
         p[i].is # "string_end", NEW j \in 1..(Len(w) + 1)
  PROVE  \A s : s \in Table(p, w)[i][j] <=>
           \/ /\ ~NoneFits(p, w, i, j)
              /\ \E rest \in Table(p, w)[i + 1][j + 1] : s = <<p[i].is>> \o rest
           \/ p[i].opt /\ \E rest \in Table(p, w)[i + 1][j] : s = <<"missing">> \o rest
<1> DEFINE A == Table(p, w)[i + 1]
           L == Table(p, w)[i + 2]
<1>1. Table(p, w)[i] = Makes(p, w, i, A, L)
  BY RowMakes
<1>2. Len(w) \in Nat
  BY WordsAre
<1> HIDE DEF A, L
<1>3. Makes(p, w, i, A, L)[j]
        = (IF j <= Len(w) /\ Fits(p[i].is, w[j])
           THEN {<<p[i].is>> \o rest : rest \in A[j + 1]} ELSE {})
          \cup (IF p[i].opt THEN {<<"missing">> \o rest : rest \in A[j]} ELSE {})
  BY DEF Makes, RepeatedAt
<1>4. (j <= Len(w) /\ Fits(p[i].is, w[j])) <=> ~NoneFits(p, w, i, j)
  BY <1>2 DEF NoneFits
<1> DEFINE F(x, rest) == <<x>> \o rest
           k == p[i].is
           opt1 == p[i].opt
           fits == ~NoneFits(p, w, i, j)
<1>5. Makes(p, w, i, A, L)[j]
        = (IF fits THEN {F(k, rest) : rest \in A[j + 1]} ELSE {})
          \cup (IF opt1 THEN {F("missing", rest) : rest \in A[j]} ELSE {})
  BY <1>3, <1>4
<1> HIDE DEF F, k, opt1, fits
<1>6. \A s : s \in Makes(p, w, i, A, L)[j] <=>
        \/ fits /\ \E rest \in A[j + 1] : s = F(k, rest)
        \/ opt1 /\ \E rest \in A[j] : s = F("missing", rest)
  BY <1>5
<1> QED BY <1>1, <1>6 DEF A, F, k, opt1, fits

\* What a row declares are lists of arguments.
LEMMA TableType ==
  ASSUME NEW p, WellFormed(p), NEW w \in Words,
         NEW i \in 1..(Len(p) + 1), NEW j \in 1..(Len(w) + 1)
  PROVE  Table(p, w)[i][j] \subseteq Seq(Arg)
<1> DEFINE N == Len(p)
           n == Len(w)
           Ok(x) == \A y \in 1..(n + 1) : Table(p, w)[x][y] \subseteq Seq(Arg)
           T == {d \in Nat : d <= N /\ ~ (Ok(N + 1 - d) /\ Ok(N + 2 - d))}
<1>1. p \in Seq(Items) /\ N \in Nat /\ n \in Nat
  BY WordsAre, LenProperties DEF WellFormed
<1>2. ASSUME NEW x \in {N + 1, N + 2} PROVE Ok(x)
  <2> SUFFICES ASSUME NEW y \in 1..(n + 1) PROVE Table(p, w)[x][y] \subseteq Seq(Arg)
    OBVIOUS
  <2>1. /\ x \in 1..(Len(p) + 2) /\ x > Len(p)
    BY <1>1
  <2>2. Table(p, w)[x][y] = IF y > Len(w) THEN {<<>>} ELSE {}
    BY <1>1, <2>1, RowEnd
  <2>3. <<>> \in Seq(Arg)
    BY EmptySeq
  <2> HIDE DEF n
  <2> QED BY <2>2, <2>3
<1>3. 0 \notin T
  BY <1>1, <1>2
<1>4. ASSUME NEW d \in Nat, d \notin T PROVE d + 1 \notin T
  <2> SUFFICES ASSUME d + 1 <= N PROVE Ok(N + 1 - (d + 1)) /\ Ok(N + 2 - (d + 1))
    OBVIOUS
  <2> DEFINE x == N - d
  <2>1. /\ N + 1 - (d + 1) = x /\ N + 2 - (d + 1) = x + 1 /\ d <= N /\ x \in 1..N
        /\ N + 1 - d = x + 1 /\ N + 2 - d = x + 2
    BY <1>1
  <2>2. Ok(x + 1) /\ Ok(x + 2)
    BY <1>4, <2>1
  <2> HIDE DEF x
  <2>3. ASSUME NEW y \in 1..(n + 1) PROVE Table(p, w)[x][y] \subseteq Seq(Arg)
    <3>1. p[x] \in Items
      BY <1>1, <2>1, ElementOfSeq
    <3>2. p[x].is \in Singles \cup {"string", "string_end", "period"}
      BY <3>1 DEF Items
    <3>3. CASE p[x].is = "string_end"
      <4>1. Table(p, w)[x][y] \subseteq {<<"string_end">>}
        BY SMTT(60), <1>1, <2>1, <3>3, RowRest
      <4>2. "string_end" \in Arg
        BY DEF Arg
      <4>3. <<"string_end">> \in Seq(Arg)
        BY <4>2
      <4> QED BY <4>1, <4>3
    <3>4. CASE p[x].is # "string_end" /\ RepeatedAt(p, x)
      <4> DEFINE k == p[x].is
      <4>1. k \in Singles /\ k \in Arg
        BY SMTT(60), <1>1, <2>1, <3>4 DEF WellFormed, RepeatedAt, Arg
      <4>2. \A s : s \in Table(p, w)[x][y] <=>
              \E m \in Many(k, w, y) : \E rest \in Table(p, w)[x + 2][y + m] :
                s = [z \in 1..m |-> k] \o rest
        BY <1>1, <2>1, <3>4, <4>1, RowRepeated
      <4> HIDE DEF k
      <4> SUFFICES ASSUME NEW s \in Table(p, w)[x][y] PROVE s \in Seq(Arg)
        OBVIOUS
      <4>3. PICK m \in Many(k, w, y) : \E rest \in Table(p, w)[x + 2][y + m] :
              s = [z \in 1..m |-> k] \o rest
        BY <4>2
      <4>7. PICK rest \in Table(p, w)[x + 2][y + m] : s = [z \in 1..m |-> k] \o rest
        BY <4>3
      <4>4. m \in Nat /\ y + m \in 1..(n + 1)
        BY <1>1 DEF Many
      <4>5. rest \in Seq(Arg)
        BY <2>2, <4>4
      <4>6. [z \in 1..m |-> k] \in Seq(Arg)
        BY SMTT(60), <4>1, <4>4
      <4> QED BY <4>5, <4>6, <4>7, ConcatProperties
    <3>5. CASE p[x].is # "string_end" /\ ~RepeatedAt(p, x)
      <4> DEFINE k == p[x].is
      <4>1. \A s : s \in Table(p, w)[x][y] <=>
              \/ /\ ~NoneFits(p, w, x, y)
                 /\ \E rest \in Table(p, w)[x + 1][y + 1] : s = <<k>> \o rest
              \/ p[x].opt /\ \E rest \in Table(p, w)[x + 1][y] : s = <<"missing">> \o rest
        BY <1>1, <2>1, <3>5, RowSingle
      <4>2. ~NoneFits(p, w, x, y) => k \in Arg /\ y + 1 \in 1..(n + 1)
        <5> SUFFICES ASSUME ~NoneFits(p, w, x, y) PROVE k \in Arg /\ y + 1 \in 1..(n + 1)
          OBVIOUS
        <5>1. y \in 1..Len(w) /\ Fits(k, w[y])
          BY <1>1 DEF NoneFits
        <5>2. w[y] \in Word
          BY <5>1, ElementOfSeq DEF Words
        <5>3. k # "period"
          BY <5>1, <5>2 DEF Fits, Word
        <5> QED BY <1>1, <3>2, <5>1, <5>3 DEF Arg
      <4>3. "missing" \in Arg
        BY DEF Arg
      <4> HIDE DEF k
      <4>4. ASSUME NEW a \in Arg, NEW z \in 1..(n + 1), NEW rest \in Table(p, w)[x + 1][z]
            PROVE  <<a>> \o rest \in Seq(Arg)
        <5>1. <<a>> \in Seq(Arg) /\ rest \in Seq(Arg)
          BY <2>2
        <5> QED BY <5>1, ConcatProperties
      <4> SUFFICES ASSUME NEW s \in Table(p, w)[x][y] PROVE s \in Seq(Arg)
        OBVIOUS
      <4>5. CASE ~NoneFits(p, w, x, y) /\ \E rest \in Table(p, w)[x + 1][y + 1] : s = <<k>> \o rest
        BY <4>2, <4>4, <4>5
      <4>6. CASE \E rest \in Table(p, w)[x + 1][y] : s = <<"missing">> \o rest
        BY <4>3, <4>4, <4>6
      <4> QED BY <4>1, <4>5, <4>6
    <3> QED BY <3>3, <3>4, <3>5
  <2>4. Ok(x)
    BY <2>3
  <2> QED BY <2>1, <2>2, <2>4
<1> HIDE DEF T
<1>5. T = {}
  <2>1. T \in SUBSET Nat
    BY DEF T
  <2> QED BY <1>3, <1>4, <2>1, NoCounterexample
<1>6. N + 1 - i \in Nat /\ N + 1 - i <= N /\ N + 1 - (N + 1 - i) = i
  BY <1>1
<1>7. Ok(i)
  BY <1>5, <1>6 DEF T
<1> QED BY <1>7

\* What is read next, and what of the table is left.
Precedes(x, R, S) == \A s \in Seq(Arg) : <<x>> \o s \in R <=> s \in S

LEMMA FirstIs ==
  ASSUME NEW x \in Arg, NEW s \in Seq(Arg)
  PROVE  <<x>> \o s \in Seq(Arg) /\ (<<x>> \o s)[1] = x /\ Len(<<x>> \o s) = Len(s) + 1
<1>1. <<x>> \in Seq(Arg) /\ Len(<<x>>) = 1 /\ <<x>>[1] = x
  OBVIOUS
<1>2. Len(s) \in Nat
  BY LenProperties
<1>3. /\ <<x>> \o s \in Seq(Arg) /\ Len(<<x>> \o s) = 1 + Len(s)
      /\ \A i \in 1..(1 + Len(s)) : (<<x>> \o s)[i] = IF i <= 1 THEN <<x>>[i] ELSE s[i - 1]
  BY <1>1, ConcatProperties
<1>4. 1 \in 1..(1 + Len(s))
  BY <1>2
<1> QED BY <1>1, <1>2, <1>3, <1>4

LEMMA SameRest ==
  ASSUME NEW x \in Arg, NEW y \in Arg, NEW s \in Seq(Arg), NEW t \in Seq(Arg),
         <<x>> \o s = <<y>> \o t
  PROVE  x = y /\ s = t
<1>1. x = y
  BY FirstIs
<1>2. <<x>> \in Seq(Arg)
  OBVIOUS
<1>3. <<x>> \o s = <<x>> \o t
  BY <1>1
<1>4. \A u, v, z \in Seq(Arg) : u \o v = u \o z => v = z
  BY ConcatSimplifications
<1> QED BY <1>1, <1>2, <1>3, <1>4

\* An item that the next word can be.
LEMMA TakeRow ==
  ASSUME NEW p, WellFormed(p), NEW w \in Words, NEW i \in 1..Len(p), ~RepeatedAt(p, i),
         p[i].is \in Singles \cup {"string"}, NEW j \in 1..(Len(w) + 1), ~NoneFits(p, w, i, j)
  PROVE  Precedes(p[i].is, Table(p, w)[i][j], Table(p, w)[i + 1][j + 1])
<1> DEFINE k == p[i].is
           A == Table(p, w)[i + 1][j + 1]
           B == Table(p, w)[i + 1][j]
<1>1. /\ p \in Seq(Items) /\ Len(p) \in Nat /\ Len(w) \in Nat /\ k # "string_end"
      /\ k \in Arg /\ "missing" \in Arg /\ k # "missing"
  BY WordsAre, LenProperties DEF WellFormed, Singles, Arg
<1>2. j <= Len(w) /\ i + 1 \in 1..(Len(p) + 1) /\ j + 1 \in 1..(Len(w) + 1)
  BY SMTT(60), <1>1 DEF NoneFits
<1>3. A \subseteq Seq(Arg) /\ B \subseteq Seq(Arg)
  BY <1>2, TableType
<1>4. \A s : s \in Table(p, w)[i][j] <=>
        \/ ~NoneFits(p, w, i, j) /\ \E rest \in A : s = <<k>> \o rest
        \/ p[i].opt /\ \E rest \in B : s = <<"missing">> \o rest
  BY <1>1, RowSingle
<1> HIDE DEF k, A, B
<1>5. ASSUME NEW s \in Seq(Arg), <<k>> \o s \in Table(p, w)[i][j] PROVE s \in A
  <2>1. CASE \E rest \in A : <<k>> \o s = <<k>> \o rest
    BY <1>1, <1>3, <2>1, SameRest
  <2>2. CASE \E rest \in B : <<k>> \o s = <<"missing">> \o rest
    BY <1>1, <1>3, <2>2, SameRest
  <2> QED BY <1>4, <1>5, <2>1, <2>2
<1>6. ASSUME NEW s \in A PROVE <<k>> \o s \in Table(p, w)[i][j]
  BY <1>4
<1> QED BY <1>5, <1>6 DEF Precedes, k, A

\* An item that it cannot be, but that may be missing.
LEMMA SkipRow ==
  ASSUME NEW p, WellFormed(p), NEW w \in Words, NEW i \in 1..Len(p), ~RepeatedAt(p, i),
         p[i].is # "string_end", p[i].opt, NEW j \in 1..(Len(w) + 1), NoneFits(p, w, i, j)
  PROVE  Precedes("missing", Table(p, w)[i][j], Table(p, w)[i + 1][j])
<1> DEFINE B == Table(p, w)[i + 1][j]
<1>1. /\ p \in Seq(Items) /\ Len(p) \in Nat /\ "missing" \in Arg
  BY LenProperties DEF WellFormed, Arg
<1>2. i + 1 \in 1..(Len(p) + 1)
  BY <1>1
<1>3. B \subseteq Seq(Arg)
  BY <1>2, TableType
<1> DEFINE k == p[i].is
           A == Table(p, w)[i + 1][j + 1]
<1>4. \A s : s \in Table(p, w)[i][j] <=>
        \/ ~NoneFits(p, w, i, j) /\ \E rest \in A : s = <<k>> \o rest
        \/ p[i].opt /\ \E rest \in B : s = <<"missing">> \o rest
  BY ZenonT(60), <1>1, RowSingle
<1> HIDE DEF k, A, B
<1>5. ASSUME NEW s \in Seq(Arg), <<"missing">> \o s \in Table(p, w)[i][j] PROVE s \in B
  <2>1. PICK rest \in B : <<"missing">> \o s = <<"missing">> \o rest
    BY <1>4, <1>5
  <2>2. rest \in Seq(Arg)
    BY <1>3
  <2> QED BY <1>1, <1>5, <2>1, <2>2, SameRest
<1>6. ASSUME NEW s \in B PROVE <<"missing">> \o s \in Table(p, w)[i][j]
  BY <1>4
<1> QED BY <1>5, <1>6 DEF Precedes, B

\* And one that may not.
LEMMA NoRow ==
  ASSUME NEW p, WellFormed(p), NEW w \in Words, NEW i \in 1..Len(p), ~RepeatedAt(p, i),
         p[i].is # "string_end", ~p[i].opt, NEW j \in 1..(Len(w) + 1), NoneFits(p, w, i, j)
  PROVE  Table(p, w)[i][j] = {}
<1>1. p \in Seq(Items)
  BY DEF WellFormed
<1>2. \A s : s \notin Table(p, w)[i][j]
  BY <1>1, RowSingle
<1> QED BY <1>2

Copies(k, m) == [x \in 1..m |-> k]

LEMMA CopiesAre ==
  ASSUME NEW k \in Arg, NEW m \in Nat
  PROVE  /\ Copies(k, m) \in Seq(Arg) /\ Len(Copies(k, m)) = m
         /\ Copies(k, 0) = <<>>
         /\ Copies(k, m + 1) = <<k>> \o Copies(k, m)
<1>1. \A n \in Nat : Copies(k, n) \in Seq(Arg) /\ Len(Copies(k, n)) = n
                     /\ \A x \in 1..n : Copies(k, n)[x] = k
  BY DEF Copies
<1>2. Copies(k, 0) = <<>>
  BY <1>1, EmptySeq
<1>3. <<k>> \in Seq(Arg) /\ Len(<<k>>) = 1 /\ <<k>>[1] = k /\ m + 1 \in Nat
  OBVIOUS
<1> DEFINE c == <<k>> \o Copies(k, m)
           d == Copies(k, m + 1)
<1>4. /\ c \in Seq(Arg) /\ Len(c) = 1 + m
      /\ \A x \in 1..(1 + m) : c[x] = IF x <= 1 THEN <<k>>[x] ELSE Copies(k, m)[x - 1]
  <2>1. /\ c \in Seq(Arg) /\ Len(c) = Len(<<k>>) + Len(Copies(k, m))
        /\ \A x \in 1..(Len(<<k>>) + Len(Copies(k, m))) :
             c[x] = IF x <= Len(<<k>>) THEN <<k>>[x] ELSE Copies(k, m)[x - Len(<<k>>)]
    BY <1>1, <1>3, ConcatProperties
  <2> HIDE DEF c
  <2> QED BY <1>1, <1>3, <2>1
<1>5. \A x \in 1..(1 + m) : c[x] = k
  <2> HIDE DEF c
  <2> SUFFICES ASSUME NEW x \in 1..(1 + m) PROVE c[x] = k
    OBVIOUS
  <2>1. CASE x <= 1
    BY <1>3, <1>4, <2>1
  <2>2. CASE ~ (x <= 1)
    <3>1. x - 1 \in 1..m
      BY <2>2
    <3> QED BY <1>1, <1>4, <2>2, <3>1
  <2> QED BY <2>1, <2>2
<1>6. /\ d \in Seq(Arg) /\ Len(d) = m + 1
      /\ \A x \in 1..(m + 1) : d[x] = k
  BY <1>1, <1>3
<1> HIDE DEF c, d
<1>7. d = c
  BY <1>4, <1>5, <1>6, SeqEqual
<1> QED BY <1>1, <1>2, <1>7 DEF c, d

\* Behind a repeated item there is nothing but perhaps the rest of the line.
LEMMA LaterRow ==
  ASSUME NEW p, WellFormed(p), NEW w \in Words, NEW i \in 1..Len(p), RepeatedAt(p, i),
         NEW j \in 1..(Len(w) + 1)
  PROVE  /\ p[i].is \in Singles
         /\ i + 2 \in 1..(Len(p) + 1)
         /\ Table(p, w)[i + 2][j] \subseteq {<<>>, <<"string_end">>}
<1>1. p \in Seq(Items) /\ Len(p) \in Nat /\ Len(w) \in Nat
  BY WordsAre, LenProperties DEF WellFormed
<1>2. i + 1 <= Len(p) /\ p[i + 1].is = "period"
  BY <1>1 DEF RepeatedAt
<1>3. p[i].is \in Singles /\ (i + 1 = Len(p) \/ (i + 2 = Len(p) /\ p[i + 2].is = "string_end"))
  BY <1>2 DEF WellFormed
<1>4. CASE i + 1 = Len(p)
  <2>1. i + 2 \in 1..(Len(p) + 2) /\ i + 2 > Len(p) /\ i + 2 \in 1..(Len(p) + 1)
    BY <1>1, <1>4
  <2>2. Table(p, w)[i + 2][j] = IF j > Len(w) THEN {<<>>} ELSE {}
    BY <1>1, <2>1, RowEnd
  <2> QED BY <1>3, <2>1, <2>2
<1>5. CASE i + 2 = Len(p) /\ p[i + 2].is = "string_end"
  <2>1. i + 2 \in 1..Len(p) /\ i + 2 \in 1..(Len(p) + 1)
    BY <1>1, <1>5
  <2>2. Table(p, w)[i + 2][j] = IF j > Len(w) \/ ~w[j].quoted \/ (w[j].closed /\ j = Len(w))
                                THEN {<<"string_end">>} ELSE {}
    BY <1>1, <1>5, <2>1, RowRest
  <2> QED BY <1>3, <2>1, <2>2
<1> QED BY <1>3, <1>4, <1>5

\* A repeated item, if the next word cannot be another.
LEMMA LeaveMany ==
  ASSUME NEW p, WellFormed(p), NEW w \in Words, NEW i \in 1..Len(p), RepeatedAt(p, i),
         NEW j \in 1..(Len(w) + 1), NoneFits(p, w, i, j)
  PROVE  Table(p, w)[i][j] = Table(p, w)[i + 2][j]
<1> DEFINE k == p[i].is
           L(x) == Table(p, w)[i + 2][x]
<1>1. /\ p \in Seq(Items) /\ Len(p) \in Nat /\ Len(w) \in Nat /\ k \in Singles /\ k \in Arg
      /\ i + 2 \in 1..(Len(p) + 1)
  BY WordsAre, LenProperties, LaterRow DEF WellFormed, Arg
<1>2. \A s : s \in Table(p, w)[i][j] <=>
        \E m \in Many(k, w, j) : \E rest \in L(j + m) : s = Copies(k, m) \o rest
  BY <1>1, RowRepeated DEF Copies
<1>3. Many(k, w, j) = {0}
  <2>1. 0 \in Many(k, w, j)
    BY <1>1 DEF Many
  <2>2. ASSUME NEW m \in Many(k, w, j), m # 0 PROVE FALSE
    <3>1. /\ m \in 0..(Len(w) + 1 - j)
          /\ \A x \in 1..m : Fits(k, w[j + x - 1])
      BY DEF Many
    <3>2. 1 \in 1..m /\ j + 1 - 1 = j /\ j <= Len(w)
      BY <1>1, <2>2, <3>1
    <3>3. Fits(k, w[j])
      BY <3>1, <3>2
    <3> QED BY <1>1, <3>2, <3>3 DEF NoneFits
  <2> QED BY <2>1, <2>2
<1>4. L(j) \subseteq Seq(Arg)
  BY <1>1, TableType
<1> HIDE DEF k, L
<1>5. \A rest \in L(j) : Copies(k, 0) \o rest = rest
  BY <1>1, <1>4, CopiesAre, ConcatEmptySeq
<1>6. j + 0 = j
  BY <1>1
<1>7. ASSUME NEW s PROVE s \in Table(p, w)[i][j] <=> s \in L(j)
  <2>1. s \in Table(p, w)[i][j] <=> \E rest \in L(j + 0) : s = Copies(k, 0) \o rest
    BY <1>2, <1>3
  <2>2. (\E rest \in L(j) : s = Copies(k, 0) \o rest) <=> s \in L(j)
    BY <1>5
  <2> QED BY <1>6, <2>1, <2>2
<1> QED BY <1>7 DEF L

\* And if it can.
LEMMA TakeMany ==
  ASSUME NEW p, WellFormed(p), NEW w \in Words, NEW i \in 1..Len(p), RepeatedAt(p, i),
         NEW j \in 1..(Len(w) + 1), ~NoneFits(p, w, i, j)
  PROVE  Precedes(p[i].is, Table(p, w)[i][j], Table(p, w)[i][j + 1])
<1> DEFINE k == p[i].is
           n == Len(w)
           L(x) == Table(p, w)[i + 2][x]
<1>1. /\ p \in Seq(Items) /\ Len(p) \in Nat /\ n \in Nat /\ k \in Singles /\ k \in Arg
      /\ i + 2 \in 1..(Len(p) + 1)
  BY WordsAre, LenProperties, LaterRow DEF WellFormed, Arg
<1>2. j \in 1..n /\ Fits(k, w[j]) /\ j + 1 \in 1..(n + 1)
  BY <1>1 DEF NoneFits
<1>3. ASSUME NEW y \in 1..(n + 1)
      PROVE  \A s : s \in Table(p, w)[i][y] <=>
               \E m \in Many(k, w, y) : \E rest \in L(y + m) : s = Copies(k, m) \o rest
  BY <1>1, RowRepeated DEF Copies
<1>4. \A y \in 1..(n + 1) : L(y) \subseteq Seq(Arg) /\ L(y) \subseteq {<<>>, <<"string_end">>}
  BY <1>1, TableType, LaterRow
<1>5. k # "string_end"
  BY <1>1 DEF Singles
<1> HIDE DEF k, L, n
<1>6. \A y \in 1..(n + 1) : \A m \in Many(k, w, y) :
        /\ m \in Nat /\ y + m \in 1..(n + 1)
        /\ \A x \in 1..m : Fits(k, w[y + x - 1])
  BY <1>1 DEF Many, n
<1>7. ASSUME NEW m \in Nat PROVE m + 1 \in Many(k, w, j) <=> m \in Many(k, w, j + 1)
  <2>1. m + 1 \in 0..(n + 1 - j) <=> m \in 0..(n + 1 - (j + 1))
    BY <1>1, <1>2
  <2>2. ASSUME \A x \in 1..(m + 1) : Fits(k, w[j + x - 1]), NEW x \in 1..m
        PROVE  Fits(k, w[(j + 1) + x - 1])
    <3>1. x + 1 \in 1..(m + 1) /\ j + (x + 1) - 1 = (j + 1) + x - 1
      BY <1>2
    <3> QED BY <2>2, <3>1
  <2>3. ASSUME \A x \in 1..m : Fits(k, w[(j + 1) + x - 1]), NEW x \in 1..(m + 1)
        PROVE  Fits(k, w[j + x - 1])
    <3>1. CASE x = 1
      BY <1>2, <3>1
    <3>2. CASE x # 1
      <4>1. x - 1 \in 1..m /\ (j + 1) + (x - 1) - 1 = j + x - 1
        BY <1>2, <3>2
      <4> QED BY <2>3, <4>1
    <3> QED BY <3>1, <3>2
  <2> QED BY <2>1, <2>2, <2>3 DEF Many, n
<1>8. ASSUME NEW m \in Nat, NEW rest \in Seq(Arg)
      PROVE  /\ Copies(k, m) \o rest \in Seq(Arg)
             /\ Copies(k, m + 1) \o rest = <<k>> \o (Copies(k, m) \o rest)
  <2>1. <<k>> \in Seq(Arg)
    BY <1>1
  <2>2. Copies(k, m) \in Seq(Arg) /\ Copies(k, m + 1) = <<k>> \o Copies(k, m)
    BY <1>1, CopiesAre
  <2>3. Copies(k, m) \o rest \in Seq(Arg)
    BY <2>2, ConcatProperties
  <2>4. (<<k>> \o Copies(k, m)) \o rest = <<k>> \o (Copies(k, m) \o rest)
    BY SMTT(60), <2>1, <2>2, ConcatAssociative
  <2> QED BY <2>2, <2>3, <2>4
<1> DEFINE q == j + 1
<1>9. q \in 1..(n + 1) /\ j \in 1..(n + 1) /\ q \in Int /\ j \in Int
  BY <1>1, <1>2
<1>10. \A m \in Nat : q + m = j + (m + 1)
  BY <1>9
<1>11. \A m \in Nat : m + 1 \in Many(k, w, j) <=> m \in Many(k, w, q)
  BY <1>7
<1> HIDE DEF q
<1>12. ASSUME NEW s \in Table(p, w)[i][q] PROVE <<k>> \o s \in Table(p, w)[i][j]
  <2>1. PICK m \in Many(k, w, q) : \E rest \in L(q + m) : s = Copies(k, m) \o rest
    BY <1>3, <1>12, <1>9
  <2>2. PICK rest \in L(q + m) : s = Copies(k, m) \o rest
    BY <2>1
  <2>3. m \in Nat /\ q + m \in 1..(n + 1) /\ q + m = j + (m + 1)
    BY <1>6, <1>9, <1>10
  <2>4. rest \in Seq(Arg)
    BY <1>4, <2>3
  <2>5. m + 1 \in Many(k, w, j) /\ <<k>> \o s = Copies(k, m + 1) \o rest
    BY <1>8, <1>11, <2>2, <2>3, <2>4
  <2>6. j \in 1..(n + 1)
    BY <1>9
  <2>7. rest \in L(j + (m + 1))
    BY <2>3
  <2> QED BY <1>3, <2>5, <2>6, <2>7
<1>13. ASSUME NEW s \in Seq(Arg), <<k>> \o s \in Table(p, w)[i][j]
       PROVE  s \in Table(p, w)[i][q]
  <2>1. j \in 1..(n + 1)
    BY <1>9
  <2>2. PICK m \in Many(k, w, j) : \E rest \in L(j + m) : <<k>> \o s = Copies(k, m) \o rest
    BY <1>3, <1>13, <2>1
  <2>3. PICK rest \in L(j + m) : <<k>> \o s = Copies(k, m) \o rest
    BY <2>2
  <2>4. m \in Nat /\ j + m \in 1..(n + 1)
    BY <1>6, <2>1
  <2>5. rest \in Seq(Arg) /\ rest \in {<<>>, <<"string_end">>}
    BY <1>4, <2>4
  <2>6. m # 0
    <3> SUFFICES ASSUME m = 0 PROVE FALSE
      OBVIOUS
    <3>1. <<k>> \o s = rest
      BY <1>1, <2>3, <2>5, CopiesAre, ConcatEmptySeq
    <3>2. (<<k>> \o s)[1] = k /\ Len(<<k>> \o s) = Len(s) + 1 /\ Len(s) \in Nat
      BY <1>1, FirstIs, LenProperties
    <3>3. Len(<<>>) = 0 /\ <<"string_end">>[1] = "string_end"
      OBVIOUS
    <3> QED BY <1>5, <2>5, <3>1, <3>2, <3>3
  <2> DEFINE l == m - 1
  <2>7. l \in Nat /\ l + 1 = m /\ j + m = q + l
    BY <1>9, <1>10, <2>4, <2>6
  <2> HIDE DEF l
  <2>8. l \in Many(k, w, q)
    BY <1>11, <2>4, <2>7
  <2>9. <<k>> \o s = <<k>> \o (Copies(k, l) \o rest) /\ Copies(k, l) \o rest \in Seq(Arg)
    BY <1>8, <2>3, <2>5, <2>7
  <2>10. s = Copies(k, l) \o rest
    <3> DEFINE t == Copies(k, l) \o rest
    <3>1. t \in Seq(Arg) /\ <<k>> \o s = <<k>> \o t
      BY <2>9
    <3> HIDE DEF t
    <3>2. s = t
      BY ZenonT(60), <1>1, <1>13, <3>1, SameRest
    <3> QED BY <3>2 DEF t
  <2>11. rest \in L(q + l)
    BY <2>7
  <2> QED BY <1>3, <1>9, <2>8, <2>10, <2>11
<1>14. Table(p, w)[i][q] \subseteq Seq(Arg)
  <2>1. i \in 1..(Len(p) + 1)
    BY <1>1
  <2> QED BY <1>9, <2>1, TableType DEF n
<1> QED BY <1>12, <1>13, <1>14 DEF Precedes, k, q

\* The lists that begin with what has been read, by what is left of them.
Leads(L, a, R) == \A s \in Seq(Arg) : a \o s \in L <=> s \in R

LEMMA LeadsFirst == ASSUME NEW L PROVE Leads(L, <<>>, L)
BY ConcatEmptySeq DEF Leads

LEMMA LeadsOn ==
  ASSUME NEW L, NEW a \in Seq(Arg), NEW x \in Arg, NEW R, NEW S,
         Leads(L, a, R), Precedes(x, R, S)
  PROVE  Leads(L, a \o <<x>>, S) /\ a \o <<x>> \in Seq(Arg) /\ Len(a \o <<x>>) = Len(a) + 1
<1>1. <<x>> \in Seq(Arg) /\ Len(<<x>>) = 1
  OBVIOUS
<1>2. a \o <<x>> \in Seq(Arg) /\ Len(a \o <<x>>) = Len(a) + 1
  BY <1>1, ConcatProperties
<1>3. ASSUME NEW s \in Seq(Arg) PROVE (a \o <<x>>) \o s \in L <=> s \in S
  <2>1. (a \o <<x>>) \o s = a \o (<<x>> \o s)
    BY <1>1, ConcatAssociative
  <2>2. <<x>> \o s \in Seq(Arg)
    BY <1>1, ConcatProperties
  <2>3. a \o (<<x>> \o s) \in L <=> <<x>> \o s \in R
    BY <2>2 DEF Leads
  <2>4. <<x>> \o s \in R <=> s \in S
    BY DEF Precedes
  <2> QED BY <2>1, <2>3, <2>4
<1> QED BY <1>2, <1>3 DEF Leads

LEMMA LeadsHere ==
  ASSUME NEW L, NEW a \in Seq(Arg), NEW R, Leads(L, a, R)
  PROVE  /\ <<>> \in R => a \in L
         /\ <<"string_end">> \in R => Append(a, "string_end") \in L
<1>1. <<>> \in Seq(Arg) /\ <<"string_end">> \in Seq(Arg)
  <2>1. "string_end" \in Arg
    BY DEF Arg
  <2> QED BY <2>1
<1>2. a \o <<>> = a
  BY ConcatEmptySeq
<1>3. Append(a, "string_end") = a \o <<"string_end">>
  <2>1. "string_end" \in Arg
    BY DEF Arg
  <2> QED BY <2>1, AppendIsConcat
<1> QED BY <1>1, <1>2, <1>3 DEF Leads

LEMMA LeadsNowhere ==
  ASSUME NEW L, L \subseteq Seq(Arg), NEW a \in Seq(Arg), Leads(L, a, {}), NEW list \in L
  PROVE  ~IsPrefix(a, list)
<1> SUFFICES ASSUME IsPrefix(a, list) PROVE FALSE
  OBVIOUS
<1> DEFINE m == Len(a)
           n == Len(list)
           s == SubSeq(list, m + 1, n)
<1>1. list \in Seq(Arg) /\ m \in Nat /\ n \in Nat
  BY LenProperties
<1>2. m <= n /\ SubSeq(a, 1, m) = SubSeq(list, 1, m)
  BY DEF IsPrefix
<1>3. SubSeq(a, 1, m) = a /\ SubSeq(list, 1, n) = list
  BY <1>1, SubSeqFull
<1>4. SubSeq(list, 1, m) \o s = SubSeq(list, 1, n)
  <2>1. 1 \in 1..(Len(list) + 1) /\ m \in (1 - 1)..Len(list) /\ n \in m..Len(list)
    BY <1>1, <1>2
  <2> QED BY <1>1, <2>1, ConcatAdjacentSubSeq
<1>5. s \in Seq(Arg)
  <2>1. \A i \in (m + 1)..n : list[i] \in Arg
    BY SMTT(60), <1>1, ElementOfSeq
  <2> QED BY <1>1, <2>1, SubSeqProperties
<1>6. a \o s \in L
  BY <1>2, <1>3, <1>4
<1> QED BY <1>5, <1>6 DEF Leads

-----------------------------------------------------------------------------
(* The table of the commands is well-formed.                               *)

\* What the proof needs of a pattern besides: an optional item is not repeated
\* but by create_channel, nor a text behind a repeated one but by broadcast.
Known(c, p) ==
  /\ WellFormed(p)
  /\ \A i \in 1..Len(p) : RepeatedAt(p, i) =>
       /\ p[i].opt => c = "create_channel" /\ i = 3
       /\ i + 2 = Len(p) => c = "broadcast" /\ i = 1 /\ p[i].is = "user"

Plain(x) == x \in Items /\ x.is \in Singles \cup {"string"}
Rest(x)  == x \in Items /\ x.is = "string_end"
Again(x) == x \in Items /\ x.is = "period"

LEMMA PlainAre ==
  /\ \A k \in Singles \cup {"string"} : Plain(One(k)) /\ Plain(Maybe(k))
  /\ Rest(One("string_end")) /\ Rest(Maybe("string_end")) /\ Again(One("period"))
  /\ \A k \in Singles : One(k).is = k /\ Maybe(k).is = k /\ ~One(k).opt
  /\ {"user", "chat", "peer", "msg_id", "number"} = Singles
<1>1. "period" \notin Singles /\ "string_end" \notin Singles
  BY DEF Singles
<1>2. \A k \in Singles \cup {"string", "string_end", "period"} :
        /\ One(k) \in Items /\ One(k).is = k /\ One(k).opt = FALSE
        /\ Maybe(k) \in Items /\ Maybe(k).is = k
  BY DEF One, Maybe, Items
<1>3. {"user", "chat", "peer", "msg_id", "number"} = Singles
  BY DEF Singles
<1> QED BY <1>2, <1>3 DEF Plain, Rest, Again

LEMMA PlainKnown ==
  ASSUME NEW c, NEW p \in Seq(Items),
         \A i \in 1..Len(p) : Plain(p[i]) \/ (i = Len(p) /\ Rest(p[i]))
  PROVE  Known(c, p)
<1>1. \A i \in 1..Len(p) : p[i].is # "period"
  BY DEF Plain, Rest, Singles
<1>2. \A i \in 1..Len(p) : p[i].is = "string_end" => i = Len(p)
  BY DEF Plain, Rest, Singles
<1>3. p # <<>> => p[1].is # "period"
  <2>1. p # <<>> => 1 \in 1..Len(p)
    BY EmptySeq
  <2> QED BY <1>1, <2>1
<1>4. \A i \in 1..Len(p) : ~ (i + 1 <= Len(p) /\ p[i + 1].is = "period")
  BY <1>1
<1>5. \A i \in 1..Len(p) : ~RepeatedAt(p, i)
  BY <1>4 DEF RepeatedAt
<1> QED BY <1>2, <1>3, <1>4, <1>5 DEF Known, WellFormed

LEMMA PlainOnes ==
  ASSUME NEW c
  PROVE  /\ Known(c, <<>>)
         /\ \A u : Plain(u) \/ Rest(u) => Known(c, <<u>>)
         /\ \A t, u : Plain(t) /\ (Plain(u) \/ Rest(u)) => Known(c, <<t, u>>)
         /\ \A s, t, u : Plain(s) /\ Plain(t) /\ (Plain(u) \/ Rest(u)) => Known(c, <<s, t, u>>)
         /\ \A x, y, z, s, t, u :
              Plain(x) /\ Plain(y) /\ Plain(z) /\ Plain(s) /\ Plain(t) /\ (Plain(u) \/ Rest(u))
                => Known(c, <<x, y, z, s, t, u>>)
<1>1. \A u : Plain(u) \/ Rest(u) => u \in Items
  BY DEF Plain, Rest
<1>2. Known(c, <<>>)
  <2> DEFINE p == <<>>
  <2>1. p \in Seq(Items) /\ Len(p) = 0
    BY EmptySeq
  <2> HIDE DEF p
  <2>2. \A i \in 1..Len(p) : Plain(p[i]) \/ (i = Len(p) /\ Rest(p[i]))
    BY <2>1
  <2>3. Known(c, p)
    BY <2>1, <2>2, PlainKnown
  <2> QED BY <2>3 DEF p
<1>3. ASSUME NEW u,
             (Plain(u) \/ Rest(u))
      PROVE  Known(c, <<u>>)
  <2> DEFINE p == <<u>>
  <2>1. {u} \subseteq Items
    BY <1>1, <1>3
  <2>2. p \in Seq(Items) /\ Len(p) = 1 /\ p[1] = u
    BY <2>1
  <2> HIDE DEF p
  <2>3. \A i \in 1..Len(p) : Plain(p[i]) \/ (i = Len(p) /\ Rest(p[i]))
    BY <1>3, <2>2
  <2>4. Known(c, p)
    BY <2>2, <2>3, PlainKnown
  <2> QED BY <2>4 DEF p
<1>4. ASSUME NEW t, NEW u,
             Plain(t) /\ (Plain(u) \/ Rest(u))
      PROVE  Known(c, <<t, u>>)
  <2> DEFINE p == <<t, u>>
  <2>1. {t, u} \subseteq Items
    BY <1>1, <1>4
  <2>2. p \in Seq(Items) /\ Len(p) = 2 /\ p[1] = t /\ p[2] = u
    BY <2>1
  <2> HIDE DEF p
  <2>3. \A i \in 1..Len(p) : Plain(p[i]) \/ (i = Len(p) /\ Rest(p[i]))
    BY <1>4, <2>2
  <2>4. Known(c, p)
    BY <2>2, <2>3, PlainKnown
  <2> QED BY <2>4 DEF p
<1>5. ASSUME NEW s, NEW t, NEW u,
             Plain(s) /\ Plain(t) /\ (Plain(u) \/ Rest(u))
      PROVE  Known(c, <<s, t, u>>)
  <2> DEFINE p == <<s, t, u>>
  <2>1. {s, t, u} \subseteq Items
    BY <1>1, <1>5
  <2>2. p \in Seq(Items) /\ Len(p) = 3 /\ p[1] = s /\ p[2] = t /\ p[3] = u
    BY <2>1
  <2> HIDE DEF p
  <2>3. \A i \in 1..Len(p) : Plain(p[i]) \/ (i = Len(p) /\ Rest(p[i]))
    BY <1>5, <2>2
  <2>4. Known(c, p)
    BY <2>2, <2>3, PlainKnown
  <2> QED BY <2>4 DEF p
<1>6. ASSUME NEW x, NEW y, NEW z, NEW s, NEW t, NEW u,
             Plain(x) /\ Plain(y) /\ Plain(z) /\ Plain(s) /\ Plain(t) /\ (Plain(u) \/ Rest(u))
      PROVE  Known(c, <<x, y, z, s, t, u>>)
  <2> DEFINE p == <<x, y, z, s, t, u>>
  <2>1. {x, y, z, s, t, u} \subseteq Items
    BY <1>1, <1>6
  <2>2. p \in Seq(Items) /\ Len(p) = 6 /\ p[1] = x /\ p[2] = y /\ p[3] = z /\ p[4] = s /\ p[5] = t /\ p[6] = u
    BY <2>1
  <2> HIDE DEF p
  <2>3. \A i \in 1..Len(p) : Plain(p[i]) \/ (i = Len(p) /\ Rest(p[i]))
    BY <1>6, <2>2
  <2>4. Known(c, p)
    BY <2>2, <2>3, PlainKnown
  <2> QED BY <2>4 DEF p
<1> QED BY <1>2, <1>3, <1>4, <1>5, <1>6

LEMMA AgainKnown ==
  ASSUME NEW c, NEW p \in Seq(Items), NEW m \in 1..Len(p), m < Len(p), p[m].is \in Singles,
         \A i \in 1..Len(p) : p[i].is = "period" <=> i = m + 1,
         \A i \in 1..Len(p) : p[i].is = "string_end" => i = Len(p),
         p[m].opt => c = "create_channel" /\ m = 3,
         \/ m + 1 = Len(p)
         \/ /\ m + 2 = Len(p) /\ p[m + 2].is = "string_end"
            /\ c = "broadcast" /\ m = 1 /\ p[m].is = "user"
  PROVE  Known(c, p)
<1>1. Len(p) \in Nat /\ 1 \in 1..Len(p) /\ p[1].is # "period"
  BY LenProperties
<1>2. \A i \in 1..Len(p) : i + 1 <= Len(p) /\ p[i + 1].is = "period" => i = m
  BY <1>1
<1>3. \A i \in 1..Len(p) : RepeatedAt(p, i) => i = m
  BY <1>1, <1>2 DEF RepeatedAt
<1>4. WellFormed(p)
  BY <1>1, <1>2 DEF WellFormed
<1>5. \A i \in 1..Len(p) : RepeatedAt(p, i) =>
        /\ p[i].opt => c = "create_channel" /\ i = 3
        /\ i + 2 = Len(p) => c = "broadcast" /\ i = 1 /\ p[i].is = "user"
  BY SMTT(60), <1>1, <1>3
<1> QED BY <1>4, <1>5 DEF Known

\* The commands that are modelled, one by one.
LEMMA CommandsAreKnown == ASSUME NEW c \in DOMAIN args_of PROVE Known(c, args_of[c])
<1>1. /\ \A k \in Singles \cup {"string"} : Plain(One(k)) /\ Plain(Maybe(k))
      /\ Rest(One("string_end")) /\ Rest(Maybe("string_end"))
      /\ {"user", "chat", "peer", "msg_id", "number"} = Singles
  BY PlainAre
<1>2. /\ \A k \in Singles \cup {"string", "string_end", "period"} :
           One(k) \in Items /\ One(k).is = k /\ One(k).opt = FALSE
      /\ Maybe("user") \in Items /\ Maybe("user").is = "user"
      /\ "period" \notin Singles /\ "string_end" \notin Singles /\ "string" \notin Singles
  BY <1>1 DEF One, Maybe, Items, Singles
<1>3. CASE c = "stats"
  <2>1. args_of[c] = <<>>
    BY <1>3 DEF args_of
  <2> QED BY <1>1, <2>1, PlainOnes
<1>4. CASE c = "user_info"
  <2>1. args_of[c] = <<One("user")>>
    BY <1>4 DEF args_of
  <2> QED BY <1>1, <2>1, PlainOnes
<1>5. CASE c = "mark_read"
  <2>1. args_of[c] = <<One("peer")>>
    BY <1>5 DEF args_of
  <2> QED BY <1>1, <2>1, PlainOnes
<1>6. CASE c = "add_contact"
  <2>1. args_of[c] = <<One("string"), One("string"), One("string")>>
    BY <1>6 DEF args_of
  <2> QED BY <1>1, <2>1, PlainOnes
<1>7. CASE c = "chat_add_user"
  <2>1. args_of[c] = <<One("chat"), One("user"), Maybe("number")>>
    BY <1>7 DEF args_of
  <2> QED BY <1>1, <2>1, PlainOnes
<1>8. CASE c = "channel_set_admin"
  <2>1. args_of[c] = <<One("chat"), One("user"), One("number")>>
    BY <1>8 DEF args_of
  <2> QED BY <1>1, <2>1, PlainOnes
<1>9. CASE c = "channel_set_about"
  <2>1. args_of[c] = <<One("chat"), One("string")>>
    BY <1>9 DEF args_of
  <2> QED BY <1>1, <2>1, PlainOnes
<1>10. CASE c = "dialog_list"
  <2>1. args_of[c] = <<Maybe("number"), Maybe("number")>>
    BY <1>10 DEF args_of
  <2> QED BY <1>1, <2>1, PlainOnes
<1>11. CASE c = "fwd_media"
  <2>1. args_of[c] = <<One("peer"), One("msg_id")>>
    BY <1>11 DEF args_of
  <2> QED BY <1>1, <2>1, PlainOnes
<1>12. CASE c = "help"
  <2>1. args_of[c] = <<Maybe("string")>>
    BY <1>12 DEF args_of
  <2> QED BY <1>1, <2>1, PlainOnes
<1>13. CASE c = "history"
  <2>1. args_of[c] = <<One("peer"), Maybe("number"), Maybe("number")>>
    BY <1>13 DEF args_of
  <2> QED BY <1>1, <2>1, PlainOnes
<1>14. CASE c = "msg"
  <2>1. args_of[c] = <<One("peer"), One("string_end")>>
    BY <1>14 DEF args_of
  <2> QED BY <1>1, <2>1, PlainOnes
<1>15. CASE c = "msg_kbd"
  <2>1. args_of[c] = <<One("peer"), One("string"), One("string_end")>>
    BY <1>15 DEF args_of
  <2> QED BY <1>1, <2>1, PlainOnes
<1>16. CASE c = "reply_audio"
  <2>1. args_of[c] = <<One("msg_id"), One("string")>>
    BY <1>16 DEF args_of
  <2> QED BY <1>1, <2>1, PlainOnes
<1>17. CASE c = "search"
  <2>1. args_of[c] = <<Maybe("peer"), Maybe("number"), Maybe("number"), Maybe("number"),
                        Maybe("number"), One("string_end")>>
    BY <1>17 DEF args_of
  <2> QED BY <1>1, <2>1, PlainOnes
<1>18. CASE c = "send_photo"
  <2>1. args_of[c] = <<One("peer"), One("string"), Maybe("string_end")>>
    BY <1>18 DEF args_of
  <2> QED BY <1>1, <2>1, PlainOnes
<1>19. CASE c = "set"
  <2>1. args_of[c] = <<One("string"), One("number")>>
    BY <1>19 DEF args_of
  <2> QED BY <1>1, <2>1, PlainOnes
<1>20. CASE c = "start_bot"
  <2>1. args_of[c] = <<One("user"), One("chat"), One("string")>>
    BY <1>20 DEF args_of
  <2> QED BY <1>1, <2>1, PlainOnes
<1>21. CASE c = "create_group_chat"
  <2> DEFINE p == args_of[c]
  <2>1. p = <<One("string"), One("user"), One("period")>>
    BY <1>21 DEF args_of
  <2>2. /\ p \in Seq(Items) /\ Len(p) = 3
        /\ p[1] = One("string") /\ p[2] = One("user") /\ p[3] = One("period")
    BY <1>1, <1>2, <2>1
  <2>3. /\ p[1].is = "string" /\ p[2].is = "user" /\ p[3].is = "period"
        /\ p[2].is \in Singles /\ ~p[2].opt
    BY <1>1, <1>2, <2>2
  <2> HIDE DEF p
  <2>4. /\ \A i \in 1..Len(p) : p[i].is = "period" <=> i = 2 + 1
        /\ \A i \in 1..Len(p) : p[i].is = "string_end" => i = Len(p)
    BY <2>2, <2>3
  <2>5. Known(c, p)
    BY <1>21, <2>2, <2>3, <2>4, AgainKnown
  <2> QED BY <2>5 DEF p
<1>22. CASE c = "fwd"
  <2> DEFINE p == args_of[c]
  <2>1. p = <<One("peer"), One("msg_id"), One("period")>>
    BY <1>22 DEF args_of
  <2>2. /\ p \in Seq(Items) /\ Len(p) = 3
        /\ p[1] = One("peer") /\ p[2] = One("msg_id") /\ p[3] = One("period")
    BY <1>1, <1>2, <2>1
  <2>3. /\ p[1].is = "peer" /\ p[2].is = "msg_id" /\ p[3].is = "period"
        /\ p[2].is \in Singles /\ ~p[2].opt
    BY <1>1, <1>2, <2>2
  <2> HIDE DEF p
  <2>4. /\ \A i \in 1..Len(p) : p[i].is = "period" <=> i = 2 + 1
        /\ \A i \in 1..Len(p) : p[i].is = "string_end" => i = Len(p)
    BY <2>2, <2>3
  <2>5. Known(c, p)
    BY <1>22, <2>2, <2>3, <2>4, AgainKnown
  <2> QED BY <2>5 DEF p
<1>23. CASE c = "broadcast"
  <2> DEFINE p == args_of[c]
  <2>1. p = <<One("user"), One("period"), One("string_end")>>
    BY <1>23 DEF args_of
  <2>2. /\ p \in Seq(Items) /\ Len(p) = 3
        /\ p[1] = One("user") /\ p[2] = One("period") /\ p[3] = One("string_end")
    BY <1>1, <1>2, <2>1
  <2>3. /\ p[1].is = "user" /\ p[2].is = "period" /\ p[3].is = "string_end"
        /\ p[1].is \in Singles /\ ~p[1].opt
    BY <1>1, <1>2, <2>2
  <2> HIDE DEF p
  <2>4. /\ \A i \in 1..Len(p) : p[i].is = "period" <=> i = 1 + 1
        /\ \A i \in 1..Len(p) : p[i].is = "string_end" => i = Len(p)
    BY <2>2, <2>3
  <2>5. 1 \in 1..Len(p) /\ 1 < Len(p) /\ 1 + 2 = Len(p) /\ p[1 + 2].is = "string_end"
    BY <2>2, <2>3
  <2>6. Known(c, p)
    BY <1>23, <2>2, <2>3, <2>4, <2>5, AgainKnown
  <2> QED BY <2>6 DEF p
<1>24. CASE c = "create_channel"
  <2> DEFINE p == args_of[c]
  <2>1. p = <<One("string"), One("string"), Maybe("user"), One("period")>>
    BY <1>24 DEF args_of
  <2>2. /\ p \in Seq(Items) /\ Len(p) = 4
        /\ p[1] = One("string") /\ p[2] = One("string") /\ p[3] = Maybe("user") /\ p[4] = One("period")
    BY <1>1, <1>2, <2>1
  <2>3. /\ p[1].is = "string" /\ p[2].is = "string" /\ p[3].is = "user" /\ p[4].is = "period"
        /\ p[3].is \in Singles
    BY <1>1, <1>2, <2>2
  <2> HIDE DEF p
  <2>4. /\ \A i \in 1..Len(p) : p[i].is = "period" <=> i = 3 + 1
        /\ \A i \in 1..Len(p) : p[i].is = "string_end" => i = Len(p)
    BY <2>2, <2>3
  <2>5. Known(c, p)
    BY <1>24, <2>2, <2>3, <2>4, AgainKnown
  <2> QED BY <2>5 DEF p
<1> QED BY <1>3, <1>4, <1>5, <1>6, <1>7, <1>8, <1>9, <1>10, <1>11, <1>12, <1>13, <1>14, <1>15,
           <1>16, <1>17, <1>18, <1>19, <1>20, <1>21, <1>22, <1>23, <1>24 DEF args_of

-----------------------------------------------------------------------------
(* How far the loop is: at an item, before a word, with what it has read.  *)

\* What is repeated has been read, or the loop is before it, with a word read for
\* each item at most, or has left it at the first word it could be.
Repeats(p, w, i, j, a) ==
  \A r \in 1..Len(p) : RepeatedAt(p, r) =>
    \/ \E x \in 1..Len(a) : a[x] = p[r].is
    \/ i <= r /\ j <= i
    \/ i > r /\ j <= r /\ j <= Len(w) /\ ~Fits(p[r].is, w[j])

ReadsAt(c, w, i, j, a) ==
  /\ Repeats(args_of[c], w, i, j, a)
  /\ i \in 1..(Len(args_of[c]) + 1) /\ j \in 1..(Len(w) + 1) /\ a \in Seq(Arg)
  /\ Leads(Allowed(args_of[c], w), a, Table(args_of[c], w)[i][j])
  /\ Len(a) <= (j - 1) + (i - 1)
  /\ c = "broadcast" /\ i = 1 => a = Copies("user", j - 1)
  /\ c = "create_channel" /\ i <= 3 => i <= j

LEMMA ChannelIs ==
  LET p == args_of["create_channel"] IN
    /\ "create_channel" \in DOMAIN args_of /\ Len(p) = 4
    /\ p[1].is = "string" /\ p[2].is = "string" /\ p[3].is = "user" /\ p[4].is = "period"
    /\ ~p[1].opt /\ ~p[2].opt /\ p[3].opt
<1>1. args_of["create_channel"] = <<One("string"), One("string"), Maybe("user"), One("period")>>
      /\ "create_channel" \in DOMAIN args_of
  BY DEF args_of
<1> QED BY <1>1 DEF One, Maybe

LEMMA BroadcastIs ==
  LET p == args_of["broadcast"] IN
    Len(p) = 3 /\ p[1].is = "user" /\ p[2].is = "period" /\ p[3].is = "string_end"
<1>1. args_of["broadcast"] = <<One("user"), One("period"), One("string_end")>>
  BY DEF args_of
<1> QED BY <1>1 DEF One

\* One item more of each kind that may be repeated is one more in a row.
LEMMA OneCopyMore ==
  ASSUME NEW k \in Arg, NEW m \in Nat
  PROVE  Copies(k, m) \o <<k>> = Copies(k, m + 1)
<1> DEFINE c == Copies(k, m) \o <<k>>
           d == Copies(k, m + 1)
<1>1. \A n \in Nat : Copies(k, n) \in Seq(Arg) /\ Len(Copies(k, n)) = n
                     /\ \A x \in 1..n : Copies(k, n)[x] = k
  BY DEF Copies
<1>2. <<k>> \in Seq(Arg) /\ Len(<<k>>) = 1 /\ <<k>>[1] = k /\ m + 1 \in Nat
  OBVIOUS
<1>3. /\ c \in Seq(Arg) /\ Len(c) = m + 1
      /\ \A x \in 1..(m + 1) : c[x] = IF x <= m THEN Copies(k, m)[x] ELSE <<k>>[x - m]
  <2>1. /\ c \in Seq(Arg) /\ Len(c) = Len(Copies(k, m)) + Len(<<k>>)
        /\ \A x \in 1..(Len(Copies(k, m)) + Len(<<k>>)) :
             c[x] = IF x <= Len(Copies(k, m)) THEN Copies(k, m)[x]
                    ELSE <<k>>[x - Len(Copies(k, m))]
    BY <1>1, <1>2, ConcatProperties
  <2> HIDE DEF c
  <2> QED BY <1>1, <1>2, <2>1
<1>4. \A x \in 1..(m + 1) : c[x] = k
  <2> HIDE DEF c
  <2> SUFFICES ASSUME NEW x \in 1..(m + 1) PROVE c[x] = k
    OBVIOUS
  <2>1. CASE x <= m
    <3>1. x \in 1..m
      BY <2>1
    <3> QED BY <1>1, <1>3, <2>1, <3>1
  <2>2. CASE ~ (x <= m)
    <3>1. x - m = 1
      BY <2>2
    <3> QED BY <1>2, <1>3, <2>2, <3>1
  <2> QED BY <2>1, <2>2
<1>5. d \in Seq(Arg) /\ Len(d) = m + 1 /\ \A x \in 1..(m + 1) : d[x] = k
  BY <1>1, <1>2
<1> HIDE DEF c, d
<1>6. c = d
  BY <1>3, <1>4, <1>5, SeqEqual
<1> QED BY <1>6 DEF c, d

\* Nothing that is read comes behind what is repeated.
LEMMA NoneBehind ==
  ASSUME NEW p, WellFormed(p), NEW r \in 1..Len(p), RepeatedAt(p, r),
         NEW i \in 1..Len(p), p[i].is \in Singles \cup {"string"}
  PROVE  i <= r /\ (RepeatedAt(p, i) => i = r)
<1>1. Len(p) \in Nat
  BY LenProperties DEF WellFormed
<1>2. \A a, b \in 1..Len(p) : RepeatedAt(p, a) /\ p[b].is \in Singles \cup {"string"} => b <= a
  <2> SUFFICES ASSUME NEW a \in 1..Len(p), NEW b \in 1..Len(p), RepeatedAt(p, a),
                      p[b].is \in Singles \cup {"string"}, b > a
               PROVE  FALSE
    BY <1>1
  <2>1. a + 1 <= Len(p) /\ p[a + 1].is = "period"
    BY <1>1 DEF RepeatedAt
  <2>2. a + 1 = Len(p) \/ (a + 2 = Len(p) /\ p[a + 2].is = "string_end")
    BY <2>1 DEF WellFormed
  <2>3. b = a + 1 \/ (b = a + 2 /\ p[b].is = "string_end")
    BY <1>1, <2>2
  <2> QED BY <2>1, <2>3 DEF Singles
<1>3. RepeatedAt(p, i) => p[r].is \in Singles
  <2>1. r + 1 <= Len(p) /\ p[r + 1].is = "period"
    BY <1>1 DEF RepeatedAt
  <2> QED BY <2>1 DEF WellFormed
<1> QED BY <1>1, <1>2, <1>3

\* What is put behind a list leaves what is in it.
LEMMA StillThere ==
  ASSUME NEW a \in Seq(Arg), NEW k \in Arg
  PROVE  /\ \A x \in 1..Len(a) : x \in 1..Len(a \o <<k>>) /\ (a \o <<k>>)[x] = a[x]
         /\ Len(a) + 1 \in 1..Len(a \o <<k>>) /\ (a \o <<k>>)[Len(a) + 1] = k
<1>1. Len(a) \in Nat /\ <<k>> \in Seq(Arg) /\ Len(<<k>>) = 1 /\ <<k>>[1] = k
  BY LenProperties
<1>2. /\ Len(a \o <<k>>) = Len(a) + 1
      /\ \A x \in 1..(Len(a) + 1) :
           (a \o <<k>>)[x] = IF x <= Len(a) THEN a[x] ELSE <<k>>[x - Len(a)]
  BY <1>1, ConcatProperties
<1>3. (Len(a) + 1) - Len(a) = 1 /\ ~ (Len(a) + 1 <= Len(a)) /\ Len(a) + 1 \in 1..(Len(a) + 1)
  BY <1>1
<1>4. (a \o <<k>>)[Len(a) + 1] = k
  BY <1>1, <1>2, <1>3
<1> QED BY <1>1, <1>2, <1>3, <1>4

LEMMA TookRepeats ==
  ASSUME NEW p, WellFormed(p), NEW w, NEW i \in 1..Len(p), NEW j \in Nat, NEW a \in Seq(Arg),
         Repeats(p, w, i, j, a), p[i].is \in Singles \cup {"string"}, p[i].is \in Arg
  PROVE  Repeats(p, w, IF RepeatedAt(p, i) THEN i ELSE i + 1, j + 1, a \o <<p[i].is>>)
<1> DEFINE h == IF RepeatedAt(p, i) THEN i ELSE i + 1
           b == a \o <<p[i].is>>
<1> SUFFICES ASSUME NEW r \in 1..Len(p), RepeatedAt(p, r)
             PROVE  \/ \E x \in 1..Len(b) : b[x] = p[r].is
                    \/ h <= r /\ j + 1 <= h
  BY DEF Repeats
<1>1. Len(p) \in Nat /\ i <= r /\ (RepeatedAt(p, i) => i = r)
  BY NoneBehind, LenProperties DEF WellFormed
<1>2. CASE \E x \in 1..Len(a) : a[x] = p[r].is
  BY <1>2, StillThere
<1>3. CASE i = r
  BY <1>3, StillThere
<1>4. CASE i # r /\ ~ (\E x \in 1..Len(a) : a[x] = p[r].is)
  <2>1. j <= i
    BY <1>1, <1>4 DEF Repeats
  <2> QED BY <1>1, <1>4, <2>1
<1> QED BY <1>2, <1>3, <1>4

LEMMA SkippedRepeats ==
  ASSUME NEW p, WellFormed(p), NEW w, NEW i \in 1..Len(p), NEW j \in Nat, NEW a \in Seq(Arg),
         Repeats(p, w, i, j, a), p[i].is \in Singles \cup {"string"}, ~RepeatedAt(p, i)
  PROVE  Repeats(p, w, i + 1, j, a \o <<"missing">>)
<1> DEFINE b == a \o <<"missing">>
<1> SUFFICES ASSUME NEW r \in 1..Len(p), RepeatedAt(p, r)
             PROVE  \/ \E x \in 1..Len(b) : b[x] = p[r].is
                    \/ i + 1 <= r /\ j <= i + 1
  BY DEF Repeats
<1>1. Len(p) \in Nat /\ i <= r /\ i # r
  BY NoneBehind, LenProperties DEF WellFormed
<1>2. CASE \E x \in 1..Len(a) : a[x] = p[r].is
  BY <1>2, StillThere DEF Arg
<1>3. CASE ~ (\E x \in 1..Len(a) : a[x] = p[r].is)
  <2>1. j <= i
    BY <1>1, <1>3 DEF Repeats
  <2> QED BY <1>1, <2>1
<1> QED BY <1>2, <1>3

LEMMA LeftRepeats ==
  ASSUME NEW p, WellFormed(p), NEW w, NEW i \in 1..Len(p), NEW j \in Nat, NEW a,
         Repeats(p, w, i, j, a), RepeatedAt(p, i), j <= Len(w), ~Fits(p[i].is, w[j])
  PROVE  Repeats(p, w, i + 2, j, a)
<1>1. p[i].is \in Singles /\ Len(p) \in Nat
  <2>1. Len(p) \in Nat
    BY LenProperties DEF WellFormed
  <2>2. i + 1 <= Len(p) /\ p[i + 1].is = "period"
    BY <2>1 DEF RepeatedAt
  <2> QED BY <2>1, <2>2 DEF WellFormed
<1> SUFFICES ASSUME NEW r \in 1..Len(p), RepeatedAt(p, r),
                    ~ (\E x \in 1..Len(a) : a[x] = p[r].is)
             PROVE  i + 2 > r /\ j <= r /\ ~Fits(p[r].is, w[j])
  BY DEF Repeats
<1>2. i = r
  BY <1>1, NoneBehind
<1>3. j <= i
  BY <1>1, <1>2 DEF Repeats
<1> QED BY <1>1, <1>2, <1>3

\* Where all that is repeated has been read, what the pattern allows is declared.
LEMMA AllRepeated ==
  ASSUME NEW p, WellFormed(p), NEW w, NEW a \in Seq(Arg), a \in Allowed(p, w),
         \A r \in 1..Len(p) : RepeatedAt(p, r) => \E x \in 1..Len(a) : a[x] = p[r].is
  PROVE  a \in Declared(p, w)
<1>1. Len(p) \in Nat /\ DOMAIN p = 1..Len(p) /\ DOMAIN a = 1..Len(a)
  BY LenProperties DEF WellFormed
<1>2. ASSUME NEW i \in DOMAIN p, p[i].is = "period"
      PROVE  \E x \in DOMAIN a : a[x] = p[i - 1].is
  <2>1. i # 1
    <3>1. p # <<>>
      BY <1>1, <1>2
    <3> QED BY <1>2, <3>1 DEF WellFormed
  <2>2. i - 1 \in 1..Len(p) /\ (i - 1) + 1 = i /\ i - 1 < Len(p)
    BY <1>1, <2>1
  <2>3. RepeatedAt(p, i - 1)
    BY <1>2, <2>2 DEF RepeatedAt
  <2> QED BY <1>1, <2>2, <2>3
<1> QED BY <1>2 DEF Declared

LEMMA TookAt ==
  ASSUME NEW c \in DOMAIN args_of, NEW w \in Words, NEW i, NEW j, NEW a, ReadsAt(c, w, i, j, a),
         i <= Len(args_of[c]), args_of[c][i].is \in Singles \cup {"string"},
         ~NoneFits(args_of[c], w, i, j)
  PROVE  ReadsAt(c, w, IF RepeatedAt(args_of[c], i) THEN i ELSE i + 1, j + 1,
                 a \o <<args_of[c][i].is>>)
<1> DEFINE p == args_of[c]
           k == p[i].is
           h == IF RepeatedAt(p, i) THEN i ELSE i + 1
           R == Table(p, w)[i][j]
           S == Table(p, w)[h][j + 1]
<1>1. Known(c, p) /\ WellFormed(p)
  BY CommandsAreKnown DEF Known
<1>2. /\ p \in Seq(Items) /\ Len(p) \in Nat /\ Len(w) \in Nat /\ k \in Arg
      /\ i \in 1..Len(p) /\ j \in 1..Len(w) /\ j + 1 \in 1..(Len(w) + 1) /\ j \in 1..(Len(w) + 1)
      /\ h \in 1..(Len(p) + 1)
  <2>1. p \in Seq(Items) /\ Len(p) \in Nat /\ Len(w) \in Nat /\ k \in Arg
    BY <1>1, WordsAre, LenProperties DEF WellFormed, Arg
  <2>2. i \in 1..Len(p) /\ j \in 1..(Len(w) + 1) /\ j \in 1..Len(w)
    BY <2>1 DEF ReadsAt, NoneFits
  <2> QED BY <2>1, <2>2
<1> HIDE DEF p, k
<1>3. Precedes(k, R, S)
  <2>1. CASE RepeatedAt(p, i)
    BY <1>1, <1>2, <2>1, TakeMany DEF p, k
  <2>2. CASE ~RepeatedAt(p, i)
    BY <1>1, <1>2, <2>2, TakeRow DEF p, k
  <2> QED BY <2>1, <2>2
<1>4. Leads(Allowed(p, w), a, R) /\ a \in Seq(Arg)
  BY DEF ReadsAt, p
<1> HIDE DEF R, S, h
<1>5. /\ Leads(Allowed(p, w), a \o <<k>>, S) /\ a \o <<k>> \in Seq(Arg)
      /\ Len(a \o <<k>>) = Len(a) + 1 /\ Len(a) \in Nat
  BY <1>2, <1>3, <1>4, LeadsOn, LenProperties
<1>6. Len(a) + 1 <= ((j + 1) - 1) + (h - 1)
  <2>1. Len(a) <= (j - 1) + (i - 1) /\ h \in {i, i + 1}
    BY DEF ReadsAt, h
  <2> QED BY <1>2, <1>5, <2>1
<1>7. c = "broadcast" /\ h = 1 => a \o <<k>> = Copies("user", (j + 1) - 1)
  <2> SUFFICES ASSUME c = "broadcast", h = 1 PROVE a \o <<k>> = Copies("user", (j + 1) - 1)
    OBVIOUS
  <2>1. i = 1
    BY <1>2 DEF h
  <2>2. k = "user" /\ a = Copies("user", j - 1) /\ j - 1 \in Nat /\ (j - 1) + 1 = j
    BY <1>2, <2>1, BroadcastIs DEF k, p, ReadsAt
  <2>3. a \o <<k>> = Copies("user", j)
    BY <1>2, <2>2, OneCopyMore
  <2>4. (j + 1) - 1 = j
    BY <1>2
  <2> QED BY <2>3, <2>4
<1>8. c = "create_channel" /\ h <= 3 => h <= j + 1
  <2> SUFFICES ASSUME c = "create_channel", h <= 3 PROVE h <= j + 1
    OBVIOUS
  <2>1. h \in {i, i + 1}
    BY DEF h
  <2>2. i <= 3 => i <= j
    BY DEF ReadsAt
  <2>3. i \in Nat /\ j \in Nat
    BY <1>2
  <2> QED BY <2>1, <2>2, <2>3
<1>9. Repeats(p, w, h, j + 1, a \o <<k>>)
  <2>1. Repeats(p, w, i, j, a) /\ a \in Seq(Arg)
    BY DEF ReadsAt, p
  <2> QED BY <1>1, <1>2, <2>1, TookRepeats DEF h, k, p
<1>10. ReadsAt(c, w, h, j + 1, a \o <<k>>)
  BY <1>2, <1>5, <1>6, <1>7, <1>8, <1>9 DEF ReadsAt, p, S
<1> QED BY <1>10 DEF h, k, p

LEMMA SkippedAt ==
  ASSUME NEW c \in DOMAIN args_of, NEW w \in Words, NEW i, NEW j, NEW a, ReadsAt(c, w, i, j, a),
         i <= Len(args_of[c]), args_of[c][i].is \in Singles \cup {"string"}, args_of[c][i].opt,
         ~RepeatedAt(args_of[c], i), NoneFits(args_of[c], w, i, j)
  PROVE  ReadsAt(c, w, i + 1, j, a \o <<"missing">>)
<1> DEFINE p == args_of[c]
           R == Table(p, w)[i][j]
           S == Table(p, w)[i + 1][j]
<1>1. Known(c, p) /\ WellFormed(p)
  BY CommandsAreKnown DEF Known
<1>2. /\ Len(p) \in Nat /\ Len(w) \in Nat /\ "missing" \in Arg
      /\ i \in 1..Len(p) /\ j \in 1..(Len(w) + 1) /\ i + 1 \in 1..(Len(p) + 1)
  <2>1. Len(p) \in Nat /\ Len(w) \in Nat /\ "missing" \in Arg
    BY <1>1, WordsAre, LenProperties DEF WellFormed, Arg
  <2>2. i \in 1..Len(p) /\ j \in 1..(Len(w) + 1)
    BY <2>1 DEF ReadsAt
  <2> QED BY <2>1, <2>2
<1>3. Precedes("missing", R, S)
  BY <1>1, <1>2, SkipRow DEF Singles
<1>4. Leads(Allowed(p, w), a, R) /\ a \in Seq(Arg)
  BY DEF ReadsAt
<1> HIDE DEF R, S
<1>5. /\ Leads(Allowed(p, w), a \o <<"missing">>, S) /\ a \o <<"missing">> \in Seq(Arg)
      /\ Len(a \o <<"missing">>) = Len(a) + 1 /\ Len(a) \in Nat
  BY <1>2, <1>3, <1>4, LeadsOn, LenProperties
<1>6. Len(a) + 1 <= (j - 1) + ((i + 1) - 1)
  BY SMTT(60), <1>2, <1>5 DEF ReadsAt
<1>7. ~ (c = "broadcast" /\ i + 1 = 1)
  BY <1>2
<1>8. ~ (c = "create_channel" /\ i + 1 <= 3)
  <2> SUFFICES ASSUME c = "create_channel", i + 1 <= 3 PROVE FALSE
    OBVIOUS
  <2>1. i = 1 \/ i = 2
    BY <1>2
  <2> QED BY <2>1, ChannelIs
<1>9. Repeats(p, w, i + 1, j, a \o <<"missing">>)
  <2>1. Repeats(p, w, i, j, a) /\ a \in Seq(Arg)
    BY DEF ReadsAt
  <2> QED BY <1>1, <1>2, <2>1, SkippedRepeats
<1> HIDE DEF p
<1> QED BY <1>2, <1>5, <1>6, <1>7, <1>8, <1>9 DEF ReadsAt, p, S

LEMMA LeftAt ==
  ASSUME NEW c \in DOMAIN args_of, NEW w \in Words, NEW i, NEW j, NEW a, ReadsAt(c, w, i, j, a),
         i <= Len(args_of[c]), RepeatedAt(args_of[c], i), NoneFits(args_of[c], w, i, j),
         j <= Len(w)
  PROVE  ReadsAt(c, w, i + 2, j, a)
<1> DEFINE p == args_of[c]
<1>1. Known(c, p) /\ WellFormed(p)
  BY CommandsAreKnown DEF Known
<1>2. Len(p) \in Nat /\ Len(w) \in Nat /\ i \in 1..Len(p) /\ j \in 1..(Len(w) + 1)
  <2>1. Len(p) \in Nat /\ Len(w) \in Nat
    BY <1>1, WordsAre, LenProperties DEF WellFormed
  <2> QED BY <2>1 DEF ReadsAt
<1>3. i + 2 \in 1..(Len(p) + 1)
  BY <1>1, <1>2, LaterRow
<1>4. Table(p, w)[i][j] = Table(p, w)[i + 2][j]
  BY <1>1, <1>2, LeaveMany
<1>5. Len(a) \in Nat /\ a \in Seq(Arg) /\ Len(a) <= (j - 1) + (i - 1)
  BY LenProperties DEF ReadsAt
<1>6. Len(a) <= (j - 1) + ((i + 2) - 1)
  BY <1>2, <1>5
<1>7. ~ (c = "broadcast" /\ i + 2 = 1)
  BY <1>2
<1>8. c = "create_channel" => ~ (i + 2 <= 3)
  <2> SUFFICES ASSUME c = "create_channel", i + 2 <= 3 PROVE FALSE
    OBVIOUS
  <2>1. i = 1
    BY <1>2
  <2> QED BY <2>1, ChannelIs DEF RepeatedAt
<1>9. Repeats(p, w, i + 2, j, a)
  <2>1. Repeats(p, w, i, j, a) /\ ~Fits(p[i].is, w[j])
    BY <1>2 DEF ReadsAt, NoneFits
  <2> QED BY <1>1, <1>2, <2>1, LeftRepeats
<1> HIDE DEF p
<1> QED BY <1>2, <1>3, <1>4, <1>5, <1>6, <1>7, <1>8, <1>9 DEF ReadsAt, p

-----------------------------------------------------------------------------
(* The inductive invariant.                                                *)

Pattern == args_of[command]
At      == Len(words) + 1 - Len(line_ptr)
Closed  == \A i \in DOMAIN words : words[i].closed

\* What is not read yet are the last words.
LeftOver(w, l, j) ==
  /\ l \in Seq(Word) /\ Len(l) = Len(w) + 1 - j
  /\ \A x \in 1..Len(l) : l[x] = w[j + x - 1]

\* At its head: what may be there before the words.
HeadInv ==
  /\ flags = 1 /\ args = <<>>
  /\ \E h \in Seq(Mark) : /\ line_ptr = h \o words
                          /\ \A i \in DOMAIN h : h[i].head = "name" => i = Len(h)

Reading ==
  /\ ReadsAt(command, words, here, At, args)
  /\ LeftOver(words, line_ptr, At)
  /\ flags \in 1..(Len(Pattern) + 1)

\* Where create_channel may have a user, a quoted word: the loop does not come on.
Stuck ==
  /\ command = "create_channel" /\ here = 3 /\ flags \in 1..5
  /\ line_ptr # <<>> /\ line_ptr[1].quoted
  /\ \E i \in 3..Len(words) : words[i].quoted

CommandsInv ==
  /\ command \in Names /\ words \in Lines
  /\ outcome \in {"line", "head"} => HeadInv
  /\ outcome = "reading" /\ Closed => Reading \/ Stuck
  /\ ArgumentsAreDeclared

\* The position in a pattern, from where a step leaves it.
Item(p, i) == IF i \in DOMAIN p THEN p[i] ELSE One("none")
HereOf(p, f) == IF Item(p, f).is = "period" THEN f - 1 ELSE f

LEMMA HereOfIs ==
  ASSUME NEW p, WellFormed(p), NEW f \in 1..(Len(p) + 1)
  PROVE  /\ HereOf(p, f) \in 1..(Len(p) + 1)
         /\ HereOf(p, f) <= Len(p) => p[HereOf(p, f)].is \in Singles \cup {"string", "string_end"}
         /\ HereOf(p, f) <= Len(p) => HereOf(p, f) \in 1..Len(p)
<1>1. p \in Seq(Items) /\ Len(p) \in Nat /\ DOMAIN p = 1..Len(p)
  BY LenProperties DEF WellFormed
<1>2. \A i \in 1..Len(p) : p[i].is \in Singles \cup {"string", "string_end", "period"}
  <2> SUFFICES ASSUME NEW i \in 1..Len(p)
               PROVE  p[i].is \in Singles \cup {"string", "string_end", "period"}
    OBVIOUS
  <2>1. p[i] \in Items
    BY <1>1, ElementOfSeq
  <2> QED BY <2>1 DEF Items
<1>3. CASE f = Len(p) + 1
  <2>1. Item(p, f).is = "none"
    BY <1>1, <1>3 DEF Item, One
  <2> QED BY <1>1, <1>3, <2>1 DEF HereOf
<1>4. CASE f \in 1..Len(p) /\ p[f].is # "period"
  <2>1. HereOf(p, f) = f
    BY <1>1, <1>4 DEF HereOf, Item
  <2> QED BY <1>1, <1>2, <1>4, <2>1
<1>5. CASE f \in 1..Len(p) /\ p[f].is = "period"
  <2>1. HereOf(p, f) = f - 1
    BY <1>1, <1>5 DEF HereOf, Item
  <2>2. f # 1
    <3>1. f = 1 => p # <<>>
      BY <1>1, <1>5, EmptySeq
    <3> QED BY <1>5, <3>1 DEF WellFormed
  <2> DEFINE i == f - 1
  <2>3. i \in 1..Len(p) /\ i + 1 = f /\ i + 1 <= Len(p)
    BY <1>1, <1>5, <2>2
  <2>4. p[i].is \in Singles
    BY <1>5, <2>3 DEF WellFormed
  <2> QED BY <1>1, <2>1, <2>3, <2>4
<1> QED BY <1>1, <1>3, <1>4, <1>5

LEMMA HereOfNext ==
  ASSUME NEW p, WellFormed(p), NEW i \in 1..Len(p), p[i].is # "period"
  PROVE  /\ HereOf(p, i + 1) = IF RepeatedAt(p, i) THEN i ELSE i + 1
         /\ RepeatedAt(p, i) => HereOf(p, i + 2) = i + 2
<1>1. p \in Seq(Items) /\ Len(p) \in Nat /\ DOMAIN p = 1..Len(p)
  BY LenProperties DEF WellFormed
<1>2. One("none").is = "none"
  BY DEF One
<1>3. HereOf(p, i + 1) = IF RepeatedAt(p, i) THEN i ELSE i + 1
  <2>1. Item(p, i + 1).is = "period" <=> RepeatedAt(p, i)
    BY <1>1, <1>2 DEF Item, RepeatedAt
  <2> QED BY <1>1, <2>1 DEF HereOf
<1>4. RepeatedAt(p, i) => HereOf(p, i + 2) = i + 2
  <2> SUFFICES ASSUME RepeatedAt(p, i) PROVE HereOf(p, i + 2) = i + 2
    OBVIOUS
  <2>1. i + 1 <= Len(p) /\ p[i + 1].is = "period"
    BY <1>1 DEF RepeatedAt
  <2>2. i + 1 = Len(p) \/ (i + 2 = Len(p) /\ p[i + 2].is = "string_end")
    BY <2>1 DEF WellFormed
  <2>3. CASE i + 1 = Len(p)
    <3>1. i + 2 \notin DOMAIN p
      BY <1>1, <2>3
    <3>2. Item(p, i + 2).is = "none"
      BY <1>2, <3>1 DEF Item
    <3> QED BY <3>2 DEF HereOf
  <2>4. CASE i + 2 = Len(p) /\ p[i + 2].is = "string_end"
    <3>1. i + 2 \in DOMAIN p
      BY <1>1, <2>4
    <3>2. Item(p, i + 2).is = "string_end"
      BY <2>4, <3>1 DEF Item
    <3> QED BY <3>2 DEF HereOf
  <2> QED BY <2>2, <2>3, <2>4
<1> QED BY <1>3, <1>4

\* What the loop sees, in terms of the pattern and the words.
LEMMA Setting ==
  ASSUME CommandsInv, Closed, Reading
  PROVE  /\ command \in DOMAIN args_of /\ Known(command, Pattern) /\ WellFormed(Pattern)
         /\ words \in Words /\ Len(Pattern) \in Nat /\ Len(words) \in Nat
         /\ here = HereOf(Pattern, flags) /\ here \in 1..(Len(Pattern) + 1)
         /\ At \in 1..(Len(words) + 1)
         /\ here > Len(Pattern) <=> op = "none"
         /\ here <= Len(Pattern) =>
              /\ here \in 1..Len(Pattern)
              /\ op = Pattern[here].is /\ op \in Singles \cup {"string", "string_end"}
              /\ opt = Pattern[here].opt
              /\ period <=> RepeatedAt(Pattern, here)
         /\ AtEnd <=> At = Len(words) + 1
         /\ ~AtEnd => /\ At \in 1..Len(words) /\ word = words[At] /\ word \in Word /\ word.closed
<1>1. command \in DOMAIN args_of /\ words \in Seq(Word)
  BY CommandsAssumption DEF CommandsInv
<1>2. Known(command, Pattern) /\ WellFormed(Pattern)
  BY <1>1, CommandsAreKnown DEF Known, Pattern
<1>3. words \in Words /\ Len(words) \in Nat /\ DOMAIN words = 1..Len(words)
  BY <1>1, LenProperties DEF Words, Closed
<1>4. /\ Pattern \in Seq(Items) /\ Len(Pattern) \in Nat /\ DOMAIN Pattern = 1..Len(Pattern)
  BY <1>2, LenProperties DEF WellFormed
<1>5. \A i : Expected(i) = Item(Pattern, i)
  BY DEF Expected, Item, Pattern
<1>6. here = HereOf(Pattern, flags)
  BY <1>5 DEF here, HereOf
<1>7. /\ here \in 1..(Len(Pattern) + 1)
      /\ here <= Len(Pattern) => here \in 1..Len(Pattern)
      /\ here <= Len(Pattern) => Pattern[here].is \in Singles \cup {"string", "string_end"}
  BY <1>2, <1>6, HereOfIs DEF Reading
<1>8. At \in 1..(Len(words) + 1)
  BY DEF Reading, ReadsAt
<1>9. /\ here > Len(Pattern) => op = "none"
      /\ here <= Len(Pattern) =>
           /\ op = Pattern[here].is /\ op # "none" /\ opt = Pattern[here].opt
           /\ period <=> RepeatedAt(Pattern, here)
  <2>1. ASSUME here > Len(Pattern) PROVE op = "none"
    BY <1>4, <1>5, <1>7, <2>1 DEF op, Item, One
  <2>2. ASSUME here <= Len(Pattern)
        PROVE  op = Pattern[here].is /\ op # "none" /\ opt = Pattern[here].opt
    <3>1. Expected(here) = Pattern[here]
      BY <1>4, <1>5, <1>7, <2>2 DEF Item
    <3> QED BY <1>7, <2>2, <3>1 DEF op, opt, Singles
  <2>3. ASSUME here <= Len(Pattern) PROVE period <=> RepeatedAt(Pattern, here)
    <3>1. Expected(here + 1).is = "period" <=> RepeatedAt(Pattern, here)
      BY <1>4, <1>5, <1>7, <2>3 DEF Item, One, RepeatedAt
    <3> QED BY <2>2, <2>3, <3>1 DEF period
  <2> QED BY <2>1, <2>2, <2>3
<1>10. line_ptr \in Seq(Word) /\ Len(line_ptr) = Len(words) + 1 - At
       /\ \A x \in 1..Len(line_ptr) : line_ptr[x] = words[At + x - 1]
  BY DEF Reading, LeftOver
<1>11. AtEnd <=> At = Len(words) + 1
  <2>1. AtEnd <=> Len(line_ptr) = 0
    BY <1>10, EmptySeq DEF AtEnd
  <2> QED BY <1>3, <1>8, <1>10, <2>1
<1>12. ASSUME ~AtEnd
       PROVE  At \in 1..Len(words) /\ word = words[At] /\ word \in Word /\ word.closed
  <2>1. At \in 1..Len(words)
    BY <1>3, <1>8, <1>11, <1>12
  <2>2. 1 \in 1..Len(line_ptr) /\ At + 1 - 1 = At
    BY <1>3, <1>10, <2>1
  <2>3. word = words[At]
    BY <1>10, <2>2 DEF word
  <2> QED BY <1>1, <1>3, <2>1, <2>3, ElementOfSeq DEF Closed
<1>13. here > Len(Pattern) <=> op = "none"
  BY <1>4, <1>7, <1>9
<1> QED BY <1>1, <1>2, <1>3, <1>4, <1>6, <1>7, <1>8, <1>9, <1>11, <1>12, <1>13

LEMMA Fitting ==
  ASSUME CommandsInv, Closed, Reading, here <= Len(Pattern)
  PROVE  /\ op \in Singles => (NoneFits(Pattern, words, here, At)
                                 <=> AtEnd \/ word.quoted \/ op \notin word.is)
         /\ op = "string" => (NoneFits(Pattern, words, here, At) <=> AtEnd)
<1>1. /\ At \in 1..(Len(words) + 1) /\ Len(words) \in Nat /\ op = Pattern[here].is
      /\ AtEnd <=> At = Len(words) + 1
      /\ ~AtEnd => word = words[At] /\ word \in Word /\ word.closed
  BY Setting
<1>2. NoneFits(Pattern, words, here, At) <=> AtEnd \/ ~Fits(op, word)
  BY <1>1 DEF NoneFits
<1>3. "string" \notin Singles
  BY DEF Singles
<1>4. ~AtEnd => word.quoted \in BOOLEAN
  BY <1>1 DEF Word
<1> QED BY <1>1, <1>2, <1>3, <1>4 DEF Fits

-----------------------------------------------------------------------------
(* The steps.                                                              *)

LEMMA InvInit == CommandsInit => CommandsInv
<1> SUFFICES ASSUME CommandsInit PROVE CommandsInv
  OBVIOUS
<1>1. command \in Names /\ words \in Lines /\ flags = 1 /\ args = <<>> /\ outcome = "line"
  BY DEF CommandsInit
<1>2. HeadInv
  BY <1>1, CommandsAssumption DEF CommandsInit, HeadInv
<1>3. ArgumentsAreDeclared
  BY <1>1 DEF ArgumentsAreDeclared
<1> QED BY <1>1, <1>2, <1>3 DEF CommandsInv

\* A step of the loop that goes on.
LEMMA GoKeeps ==
  ASSUME CommandsInv, outcome = "reading", UNCHANGED <<command, outcome, words>>,
         Closed => Reading' \/ Stuck'
  PROVE  CommandsInv'
<1>1. command' = command /\ words' = words /\ outcome' = "reading" /\ Closed' = Closed
  BY DEF Closed
<1>2. ArgumentsAreDeclared'
  BY <1>1 DEF ArgumentsAreDeclared
<1> QED BY <1>1, <1>2 DEF CommandsInv

LEMMA TookKeeps ==
  ASSUME CommandsInv, Closed, Reading, here <= Len(Pattern), op \in Singles \cup {"string"},
         ~NoneFits(Pattern, words, here, At), Go(here + 1, Tail(line_ptr), <<op>>)
  PROVE  Reading'
<1> DEFINE p == Pattern
           h == IF RepeatedAt(p, here) THEN here ELSE here + 1
<1>1. /\ command \in DOMAIN args_of /\ WellFormed(p) /\ words \in Words
      /\ Len(p) \in Nat /\ Len(words) \in Nat /\ here \in 1..Len(p) /\ op = p[here].is
      /\ At \in 1..(Len(words) + 1) /\ (AtEnd <=> At = Len(words) + 1)
  BY Setting
<1>2. flags' = here + 1 /\ line_ptr' = Tail(line_ptr) /\ args' = args \o <<op>>
      /\ command' = command /\ words' = words
  BY DEF Go
<1>3. ReadsAt(command, words, here, At, args) /\ LeftOver(words, line_ptr, At)
  BY DEF Reading
<1>4. ReadsAt(command, words, h, At + 1, args \o <<op>>)
  BY <1>1, <1>3, TookAt DEF Pattern
<1>5. At \in 1..Len(words)
  BY <1>1 DEF NoneFits
<1>6. /\ line_ptr \in Seq(Word) /\ Len(line_ptr) = Len(words) + 1 - At /\ line_ptr # <<>>
      /\ \A x \in 1..Len(line_ptr) : line_ptr[x] = words[At + x - 1]
  BY <1>1, <1>3, <1>5 DEF LeftOver, AtEnd
<1>7. /\ line_ptr' \in Seq(Word) /\ Len(line_ptr') = Len(line_ptr) - 1
      /\ \A x \in 1..Len(line_ptr') : line_ptr'[x] = line_ptr[x + 1]
  BY <1>2, <1>6, HeadTailProperties
<1>8. At' = At + 1 /\ Len(line_ptr') = Len(words) + 1 - (At + 1)
  BY <1>1, <1>2, <1>6, <1>7 DEF At
<1> HIDE DEF At
<1>9. LeftOver(words, line_ptr', At + 1)
  <2>1. ASSUME NEW x \in 1..Len(line_ptr') PROVE line_ptr'[x] = words[(At + 1) + x - 1]
    <3>1. x + 1 \in 1..Len(line_ptr) /\ At + (x + 1) - 1 = (At + 1) + x - 1
      BY <1>1, <1>5, <1>6, <1>7
    <3> QED BY <1>6, <1>7, <3>1
  <2> QED BY <1>7, <1>8, <2>1 DEF LeftOver
<1>10. here' = h
  <2>1. p[here].is # "period"
    BY <1>1 DEF Singles
  <2>2. HereOf(p, here + 1) = h
    BY <1>1, <2>1, HereOfNext
  <2>3. here' = HereOf(p, flags')
    BY <1>2 DEF here, HereOf, Expected, Item, Pattern
  <2> QED BY <1>2, <2>2, <2>3
<1>11. Pattern' = Pattern /\ flags' \in 1..(Len(Pattern) + 1)
  BY <1>1, <1>2 DEF Pattern
<1> QED BY <1>2, <1>4, <1>8, <1>9, <1>10, <1>11 DEF Reading

LEMMA SkippedKeeps ==
  ASSUME CommandsInv, Closed, Reading, here <= Len(Pattern), op \in Singles \cup {"string"},
         opt, ~period,
         NoneFits(Pattern, words, here, At), Go(here + 1, line_ptr, <<"missing">>)
  PROVE  Reading'
<1> DEFINE p == Pattern
<1>1. /\ command \in DOMAIN args_of /\ WellFormed(p) /\ words \in Words
      /\ Len(p) \in Nat /\ here \in 1..Len(p) /\ op = p[here].is /\ opt = p[here].opt
      /\ ~RepeatedAt(p, here) /\ op \in Singles \cup {"string", "string_end"}
  BY Setting
<1>2. flags' = here + 1 /\ line_ptr' = line_ptr /\ args' = args \o <<"missing">>
      /\ command' = command /\ words' = words
  BY DEF Go
<1>3. ReadsAt(command, words, here, At, args) /\ LeftOver(words, line_ptr, At)
  BY DEF Reading
<1>4. ReadsAt(command, words, here + 1, At, args \o <<"missing">>)
  BY <1>1, <1>3, SkippedAt DEF Pattern
<1>5. At' = At
  BY <1>2 DEF At
<1>6. here' = here + 1
  <2>1. p[here].is # "period"
    BY <1>1 DEF Singles
  <2>2. HereOf(p, here + 1) = here + 1
    BY <1>1, <2>1, HereOfNext
  <2>3. here' = HereOf(p, flags')
    BY <1>2 DEF here, HereOf, Expected, Item, Pattern
  <2> QED BY <1>2, <2>2, <2>3
<1>7. Pattern' = Pattern /\ flags' \in 1..(Len(Pattern) + 1)
  BY <1>1, <1>2 DEF Pattern
<1> QED BY <1>2, <1>3, <1>4, <1>5, <1>6, <1>7 DEF Reading

LEMMA LeftKeeps ==
  ASSUME CommandsInv, Closed, Reading, here <= Len(Pattern), period, ~AtEnd,
         NoneFits(Pattern, words, here, At), Go(here + 2, line_ptr, <<>>)
  PROVE  Reading'
<1> DEFINE p == Pattern
<1>1. /\ command \in DOMAIN args_of /\ WellFormed(p) /\ words \in Words
      /\ Len(p) \in Nat /\ here \in 1..Len(p) /\ op = p[here].is
      /\ RepeatedAt(p, here) /\ op \in Singles \cup {"string", "string_end"}
      /\ At \in 1..Len(words)
  BY Setting
<1>2. ReadsAt(command, words, here, At, args) /\ LeftOver(words, line_ptr, At)
  BY DEF Reading
<1>3. args \o <<>> = args
  BY <1>2, ConcatEmptySeq DEF ReadsAt
<1>4. flags' = here + 2 /\ line_ptr' = line_ptr /\ args' = args
      /\ command' = command /\ words' = words
  BY <1>3 DEF Go
<1>5. ReadsAt(command, words, here + 2, At, args)
  <2>1. At <= Len(words)
    BY <1>1
  <2> QED BY <1>1, <1>2, <2>1, LeftAt DEF Pattern
<1>6. At' = At
  BY <1>4 DEF At
<1>7. here' = here + 2
  <2>1. p[here].is # "period"
    BY <1>1 DEF Singles
  <2>2. HereOf(p, here + 2) = here + 2
    BY <1>1, <2>1, HereOfNext
  <2>3. here' = HereOf(p, flags')
    BY <1>4 DEF here, HereOf, Expected, Item, Pattern
  <2> QED BY <1>4, <2>2, <2>3
<1>8. Pattern' = Pattern /\ flags' \in 1..(Len(Pattern) + 1)
  BY <1>4, <1>5 DEF Pattern, ReadsAt
<1> QED BY <1>2, <1>4, <1>5, <1>6, <1>7, <1>8 DEF Reading

\* What a line comes to, and what it claims.
Claim(o, a) ==
  LET declared == Declared(Pattern, words)
  IN /\ o = "ran" => \/ a \in declared
                     \/ a \in Allowed(Pattern, words) /\ NoneRepeated(command, words)
                     \/ command = "broadcast" /\ a = [x \in DOMAIN words |-> "user"]
     /\ o \in {"refused", "dropped"} => \A list \in declared : ~IsPrefix(a, list)
     /\ o = "aborted" => \/ MaxArgs <= Len(words) + Len(Pattern)
                         \/ command = "create_channel" /\ \E i \in 3..Len(words) : words[i].quoted

LEMMA FinishKeeps ==
  ASSUME CommandsInv, UNCHANGED <<command, words>>,
         outcome' \notin {"line", "head", "reading"},
         Closed => Claim(outcome', args')
  PROVE  CommandsInv'
<1>1. command' = command /\ words' = words /\ Closed' = Closed /\ Pattern' = Pattern
  BY DEF Closed, Pattern
<1>2. ArgumentsAreDeclared'
  <2>1. Closed <=> \A i \in DOMAIN words : words[i].closed
    BY DEF Closed
  <2> QED BY <1>1, <2>1 DEF ArgumentsAreDeclared, Claim, Pattern
<1> QED BY <1>1, <1>2 DEF CommandsInv

\* What create_channel sees when it is stuck.
LEMMA StuckSees ==
  ASSUME Stuck
  PROVE  /\ op = "user" /\ opt /\ period /\ ~AtEnd /\ word.quoted
<1>1. /\ Pattern = args_of["create_channel"] /\ here = 3
      /\ line_ptr # <<>> /\ line_ptr[1].quoted
  BY DEF Stuck, Pattern
<1>2. DOMAIN Pattern = 1..4
  <2>1. Pattern \in Seq(Items)
    BY <1>1, ChannelIs, CommandsAreKnown DEF Known, WellFormed
  <2> QED BY <1>1, <2>1, ChannelIs, LenProperties
<1>3. Expected(3) = Pattern[3] /\ Expected(3 + 1) = Pattern[4]
  BY <1>2 DEF Expected, Pattern
<1> QED BY <1>1, <1>3, ChannelIs DEF op, opt, period, AtEnd, word

\* The claims, where nothing is left, or only the end.
LEMMA NowhereClaims ==
  ASSUME CommandsInv, Closed, Reading, Table(Pattern, words)[here][At] = {},
         NEW o \in {"refused", "dropped"}
  PROVE  Claim(o, args)
<1>1. /\ Leads(Allowed(Pattern, words), args, {}) /\ args \in Seq(Arg)
  BY DEF Reading, ReadsAt, Pattern
<1>2. Allowed(Pattern, words) \subseteq Seq(Arg)
  <2>1. /\ WellFormed(Pattern) /\ words \in Words /\ Len(Pattern) \in Nat /\ Len(words) \in Nat
    BY Setting
  <2>2. 1 \in 1..(Len(Pattern) + 1) /\ 1 \in 1..(Len(words) + 1)
    BY <2>1
  <2> QED BY <2>1, <2>2, TableType, AllowedIs
<1>3. \A list \in Allowed(Pattern, words) : ~IsPrefix(args, list)
  BY <1>1, <1>2, LeadsNowhere
<1>4. Declared(Pattern, words) \subseteq Allowed(Pattern, words)
  BY DEF Declared
<1> QED BY <1>3, <1>4 DEF Claim

LEMMA TooManyKeeps == ASSUME CommandsInv, TooMany PROVE CommandsInv'
<1>1. /\ outcome = "reading" /\ Len(args) = MaxArgs /\ outcome' = "aborted" /\ args' = args
      /\ UNCHANGED <<command, words>>
  BY DEF TooMany, Finish
<1>2. ASSUME Closed PROVE Claim("aborted", args)
  <2>1. CASE Stuck
    BY <2>1 DEF Stuck, Claim
  <2>2. CASE Reading
    <3>1. /\ Len(Pattern) \in Nat /\ Len(words) \in Nat
          /\ here \in 1..(Len(Pattern) + 1) /\ At \in 1..(Len(words) + 1)
      BY <1>2, <2>2, Setting
    <3>2. Len(args) <= (At - 1) + (here - 1) /\ Len(args) \in Nat
      BY <2>2, LenProperties DEF Reading, ReadsAt
    <3>3. MaxArgs <= Len(words) + Len(Pattern)
      BY <1>1, <3>1, <3>2
    <3> QED BY <3>3 DEF Claim
  <2> QED BY <1>1, <1>2, <2>1, <2>2 DEF CommandsInv
<1> QED BY <1>1, <1>2, FinishKeeps

LEMMA PatternEndsKeeps == ASSUME CommandsInv, PatternEnds PROVE CommandsInv'
<1>1. /\ outcome = "reading" /\ op = "none" /\ args' = args
      /\ outcome' = IF AtEnd THEN "ran" ELSE "refused"
      /\ UNCHANGED <<command, words>>
  BY DEF PatternEnds, Loop, Finish
<1>2. ASSUME Closed PROVE Claim(outcome', args)
  <2>1. Reading
    BY <1>1, <1>2, StuckSees DEF CommandsInv
  <2>2. /\ WellFormed(Pattern) /\ words \in Words /\ Len(Pattern) \in Nat /\ Len(words) \in Nat
        /\ here \in 1..(Len(Pattern) + 1) /\ here > Len(Pattern)
        /\ At \in 1..(Len(words) + 1) /\ (AtEnd <=> At = Len(words) + 1)
    BY <1>1, <1>2, <2>1, Setting
  <2>3. Table(Pattern, words)[here][At] = IF At > Len(words) THEN {<<>>} ELSE {}
    <3>1. here \in 1..(Len(Pattern) + 2) /\ Pattern \in Seq(Items)
      BY <2>2 DEF WellFormed
    <3> QED BY <2>2, <3>1, RowEnd
  <2>4. CASE AtEnd
    <3>1. Table(Pattern, words)[here][At] = {<<>>}
      BY <2>2, <2>3, <2>4
    <3>2. args \in Allowed(Pattern, words) /\ args \in Seq(Arg)
      BY <2>1, <3>1, LeadsHere DEF Reading, ReadsAt, Pattern
    <3>3. ASSUME NEW r \in 1..Len(Pattern), RepeatedAt(Pattern, r)
          PROVE  \E x \in 1..Len(args) : args[x] = Pattern[r].is
      <4>1. Repeats(Pattern, words, here, At, args)
        BY <2>1 DEF Reading, ReadsAt, Pattern
      <4>2. ~ (here <= r) /\ ~ (At <= Len(words))
        BY <2>2, <2>4
      <4> QED BY <3>3, <4>1, <4>2 DEF Repeats
    <3>4. args \in Declared(Pattern, words)
      BY <2>2, <3>2, <3>3, AllRepeated
    <3> QED BY <1>1, <2>4, <3>4 DEF Claim
  <2>5. CASE ~AtEnd
    <3>1. Table(Pattern, words)[here][At] = {}
      BY <2>2, <2>3, <2>5
    <3> QED BY <1>1, <1>2, <2>1, <2>5, <3>1, NowhereClaims
  <2> QED BY <2>4, <2>5
<1> QED BY <1>1, <1>2, FinishKeeps

\* A text that is read where nothing has been repeated is a broadcast's, whose first
\* word is no user.
LEMMA RestForRepeated ==
  ASSUME CommandsInv, Closed, Reading, here \in 1..Len(Pattern),
         Pattern[here].is = "string_end", NEW r \in 1..Len(Pattern), RepeatedAt(Pattern, r),
         ~ \E x \in 1..Len(args) : args[x] = Pattern[r].is
  PROVE  NoneRepeated(command, words)
<1>1. /\ Known(command, Pattern) /\ WellFormed(Pattern) /\ Len(Pattern) \in Nat
      /\ Len(words) \in Nat /\ At \in 1..(Len(words) + 1)
  BY Setting
<1>2. DOMAIN Pattern = 1..Len(Pattern)
  BY <1>1, LenProperties DEF WellFormed
<1>3. r + 1 \in DOMAIN Pattern /\ Pattern[r + 1].is = "period" /\ r + 1 <= Len(Pattern)
  BY <1>1, <1>2 DEF RepeatedAt
<1>4. here = Len(Pattern) /\ r + 2 = Len(Pattern)
  <2>1. here = Len(Pattern)
    BY <1>1 DEF WellFormed
  <2>2. r + 1 # Len(Pattern)
    BY <1>3, <2>1
  <2> QED BY <1>1, <1>3, <2>1, <2>2 DEF WellFormed
<1>5. command = "broadcast" /\ r = 1 /\ Pattern[r].is = "user"
  BY <1>1, <1>4 DEF Known
<1>6. Repeats(Pattern, words, here, At, args)
  BY DEF Reading, ReadsAt, Pattern
<1>7. At <= r /\ ~Fits(Pattern[r].is, words[At])
  BY <1>1, <1>4, <1>6 DEF Repeats
<1>8. At = 1
  BY <1>1, <1>5, <1>7
<1>9. ~Fits("user", words[1])
  BY <1>5, <1>7, <1>8
<1> QED BY <1>3, <1>5, <1>9 DEF NoneRepeated, Pattern

LEMMA TakeRestKeeps == ASSUME CommandsInv, TakeRest PROVE CommandsInv'
<1> DEFINE bad == ~AtEnd /\ word.quoted /\ (~word.closed \/ Len(line_ptr) > 1)
<1>1. /\ outcome = "reading" /\ op = "string_end" /\ UNCHANGED <<command, words>>
      /\ bad => outcome' = "refused" /\ args' = args
      /\ ~bad => outcome' = "ran" /\ args' = Append(args, "string_end")
  BY DEF TakeRest, Loop, Finish
<1>2. ASSUME Closed PROVE Claim(outcome', args')
  <2>1. Reading
    BY <1>1, <1>2, StuckSees DEF CommandsInv
  <2>2. /\ WellFormed(Pattern) /\ words \in Words /\ Len(Pattern) \in Nat /\ Len(words) \in Nat
        /\ here \in 1..Len(Pattern) /\ Pattern[here].is = "string_end"
        /\ At \in 1..(Len(words) + 1) /\ (AtEnd <=> At = Len(words) + 1)
        /\ ~AtEnd => word = words[At] /\ word.closed
    BY <1>1, <1>2, <2>1, Setting
  <2>3. Table(Pattern, words)[here][At]
          = IF At > Len(words) \/ ~words[At].quoted \/ (words[At].closed /\ At = Len(words))
            THEN {<<"string_end">>} ELSE {}
    BY <2>2, RowRest DEF WellFormed
  <2>4. Len(line_ptr) = Len(words) + 1 - At
    BY <2>1 DEF Reading, LeftOver
  <2>5. bad <=> ~ (At > Len(words) \/ ~words[At].quoted \/ (words[At].closed /\ At = Len(words)))
    <3>1. Len(words) \in Nat /\ At \in Nat /\ At <= Len(words) + 1
      BY <2>2
    <3>2. CASE AtEnd
      <4>1. At > Len(words)
        BY <2>2, <3>1, <3>2
      <4> QED BY <3>2, <4>1
    <3>3. CASE ~AtEnd
      <4>1. word = words[At] /\ word.closed /\ At # Len(words) + 1
        BY <2>2, <3>3
      <4>2. ~ (At > Len(words)) /\ (Len(line_ptr) > 1 <=> At # Len(words))
        BY <2>4, <3>1, <4>1
      <4> HIDE DEF word, At, AtEnd
      <4> QED BY <3>3, <4>1, <4>2
    <3> QED BY <3>2, <3>3
  <2> HIDE DEF bad
  <2>6. CASE ~bad
    <3>1. Table(Pattern, words)[here][At] = {<<"string_end">>}
      BY <2>3, <2>5, <2>6
    <3> DEFINE a == Append(args, "string_end")
    <3>2. a \in Allowed(Pattern, words) /\ args \in Seq(Arg) /\ a = args \o <<"string_end">>
      BY <2>1, <3>1, LeadsHere, AppendIsConcat DEF Reading, ReadsAt, Pattern
    <3>3. a \in Seq(Arg)
      BY <3>2 DEF Arg
    <3>4. \A x \in 1..Len(args) : x \in 1..Len(a) /\ a[x] = args[x]
      BY <3>2, StillThere DEF Arg
    <3> HIDE DEF a
    <3>5. CASE \A r \in 1..Len(Pattern) : RepeatedAt(Pattern, r) =>
                 \E x \in 1..Len(args) : args[x] = Pattern[r].is
      <4>1. ASSUME NEW r \in 1..Len(Pattern), RepeatedAt(Pattern, r)
            PROVE  \E x \in 1..Len(a) : a[x] = Pattern[r].is
        <5>1. PICK x \in 1..Len(args) : args[x] = Pattern[r].is
          BY <3>5, <4>1
        <5> QED BY <3>4, <5>1
      <4>2. a \in Declared(Pattern, words)
        BY <2>2, <3>2, <3>3, <4>1, AllRepeated
      <4> QED BY <1>1, <2>6, <4>2 DEF Claim, a
    <3>6. ASSUME NEW r \in 1..Len(Pattern), RepeatedAt(Pattern, r),
                 ~ \E x \in 1..Len(args) : args[x] = Pattern[r].is
          PROVE  Claim(outcome', args')
      <4>1. NoneRepeated(command, words)
        BY <1>2, <2>1, <2>2, <3>6, RestForRepeated
      <4> QED BY <1>1, <2>6, <3>2, <4>1 DEF Claim, a
    <3> QED BY <3>5, <3>6
  <2>7. CASE bad
    <3>1. Table(Pattern, words)[here][At] = {}
      BY <2>3, <2>5, <2>7
    <3> QED BY <1>1, <1>2, <2>1, <2>7, <3>1, NowhereClaims
  <2> QED BY <2>6, <2>7
<1>3. outcome' \notin {"line", "head", "reading"}
  BY <1>1
<1> QED BY <1>1, <1>2, <1>3, FinishKeeps

LEMMA EndOfRepeatedKeeps == ASSUME CommandsInv, EndOfRepeated PROVE CommandsInv'
<1>1. /\ outcome = "reading" /\ op # "none" /\ period /\ AtEnd /\ args' = args
      /\ outcome' = "ran" /\ UNCHANGED <<command, words>>
  BY DEF EndOfRepeated, Loop, Finish
<1>2. ASSUME Closed PROVE Claim("ran", args)
  <2>1. Reading
    BY <1>1, <1>2, StuckSees DEF CommandsInv
  <2>2. /\ Known(command, Pattern) /\ WellFormed(Pattern) /\ words \in Words
        /\ Len(Pattern) \in Nat /\ Len(words) \in Nat /\ DOMAIN words = 1..Len(words)
        /\ here \in 1..Len(Pattern) /\ RepeatedAt(Pattern, here)
        /\ At = Len(words) + 1 /\ At \in 1..(Len(words) + 1)
    BY <1>1, <1>2, <2>1, Setting, WordsAre
  <2>3. /\ Leads(Allowed(Pattern, words), args, Table(Pattern, words)[here][At])
        /\ args \in Seq(Arg)
        /\ command = "broadcast" /\ here = 1 => args = Copies("user", At - 1)
    BY <2>1 DEF Reading, ReadsAt, Pattern
  <2>4. here + 1 = Len(Pattern) \/ here + 2 = Len(Pattern)
    <3>1. here + 1 <= Len(Pattern) /\ Pattern[here + 1].is = "period"
      BY <2>2 DEF RepeatedAt
    <3> QED BY <2>2, <3>1 DEF WellFormed
  <2>5. CASE here + 1 = Len(Pattern)
    <3>1. NoneFits(Pattern, words, here, At)
      BY <2>2 DEF NoneFits
    <3>2. Table(Pattern, words)[here][At] = Table(Pattern, words)[here + 2][At]
      BY <2>2, <3>1, LeaveMany
    <3>3. /\ here + 2 \in 1..(Len(Pattern) + 2) /\ here + 2 > Len(Pattern) /\ At > Len(words)
          /\ Pattern \in Seq(Items)
      BY <2>2, <2>5 DEF WellFormed
    <3>4. Table(Pattern, words)[here + 2][At] = {<<>>}
      BY <2>2, <3>3, RowEnd
    <3>5. args \in Allowed(Pattern, words)
      BY <2>3, <3>2, <3>4, LeadsHere
    <3>6. Repeats(Pattern, words, here, At, args)
      BY <2>1 DEF Reading, ReadsAt, Pattern
    <3>7. CASE \E x \in 1..Len(args) : args[x] = Pattern[here].is
      <4>1. \A r \in 1..Len(Pattern) : RepeatedAt(Pattern, r) => r = here
        <5> SUFFICES ASSUME NEW r \in 1..Len(Pattern), RepeatedAt(Pattern, r) PROVE r = here
          OBVIOUS
        <5>1. r + 1 <= Len(Pattern) /\ Pattern[r + 1].is = "period"
          BY <2>2 DEF RepeatedAt
        <5>2. r + 1 = Len(Pattern) \/ (r + 2 = Len(Pattern) /\ Pattern[r + 2].is = "string_end")
          BY <2>2, <5>1 DEF WellFormed
        <5>3. Pattern[here + 1].is = "period"
          BY <2>2 DEF RepeatedAt
        <5>4. ~ (r + 2 = Len(Pattern) /\ Pattern[r + 2].is = "string_end")
          BY <2>5, <5>3
        <5> QED BY <2>2, <2>5, <5>2, <5>4
      <4>2. args \in Declared(Pattern, words)
        BY <2>2, <2>3, <3>5, <3>7, <4>1, AllRepeated
      <4> QED BY <4>2 DEF Claim
    <3>8. CASE ~ \E x \in 1..Len(args) : args[x] = Pattern[here].is
      <4>1. At <= here
        BY <2>2, <3>6, <3>8 DEF Repeats
      <4>2. /\ here + 1 \in DOMAIN Pattern /\ Pattern[here + 1].is = "period"
            /\ Len(words) < (here + 1) - 1
        <5>1. DOMAIN Pattern = 1..Len(Pattern)
          BY <2>2, LenProperties DEF WellFormed
        <5> QED BY <2>2, <2>5, <4>1, <5>1 DEF RepeatedAt
      <4>3. NoneRepeated(command, words)
        BY <4>2 DEF NoneRepeated, Pattern
      <4> QED BY <3>5, <4>3 DEF Claim
    <3> QED BY <3>7, <3>8
  <2>6. CASE here + 2 = Len(Pattern)
    <3>1. command = "broadcast" /\ here = 1
      BY <2>2, <2>6 DEF Known
    <3>2. args = Copies("user", Len(words))
      BY <2>2, <2>3, <3>1
    <3>3. args = [x \in DOMAIN words |-> "user"]
      BY <2>2, <3>2 DEF Copies
    <3> QED BY <3>1, <3>3 DEF Claim
  <2> QED BY <2>4, <2>5, <2>6
<1> QED BY <1>1, <1>2, FinishKeeps

\* An argument that is not a string, and of which the next word is none.
LEMMA NoWordKeeps ==
  ASSUME CommandsInv, outcome = "reading", op \notin {"none"} \cup strings, Closed, Reading,
         AtEnd \/ word.quoted \/ op \notin word.is
  PROVE  /\ NoneFits(Pattern, words, here, At) /\ here <= Len(Pattern)
         /\ Go(here + 1, line_ptr, <<"missing">>) /\ opt /\ ~period => CommandsInv'
         /\ Go(here + 2, line_ptr, <<>>) /\ period /\ ~AtEnd => CommandsInv'
         /\ ~opt /\ ~period => Claim("refused", args) /\ Claim("dropped", args)
<1>1. /\ WellFormed(Pattern) /\ words \in Words /\ Len(Pattern) \in Nat
      /\ here \in 1..(Len(Pattern) + 1) /\ At \in 1..(Len(words) + 1)
      /\ here <= Len(Pattern)
      /\ here \in 1..Len(Pattern) /\ op = Pattern[here].is /\ opt = Pattern[here].opt
      /\ op \in Singles /\ (period <=> RepeatedAt(Pattern, here))
  BY Setting DEF strings
<1>2. NoneFits(Pattern, words, here, At)
  BY <1>1, Fitting
<1>3. ASSUME Go(here + 1, line_ptr, <<"missing">>), opt, ~period PROVE CommandsInv'
  <2>1. Reading'
    BY <1>1, <1>2, <1>3, SkippedKeeps DEF Singles
  <2> QED BY <1>3, <2>1, GoKeeps DEF Go
<1>4. ASSUME Go(here + 2, line_ptr, <<>>), period, ~AtEnd PROVE CommandsInv'
  <2>1. Reading'
    BY <1>1, <1>2, <1>4, LeftKeeps
  <2> QED BY <1>4, <2>1, GoKeeps DEF Go
<1>5. ASSUME ~opt, ~period PROVE Claim("refused", args) /\ Claim("dropped", args)
  <2>1. Table(Pattern, words)[here][At] = {}
    BY <1>1, <1>2, <1>5, NoRow DEF Singles
  <2> QED BY <2>1, NowhereClaims
<1> QED BY <1>1, <1>2, <1>3, <1>4, <1>5

\* The loop does not come on from where create_channel is stuck.
LEMMA StuckStays ==
  ASSUME Stuck, Go(here + 1, line_ptr, <<"missing">>)
  PROVE  Stuck'
<1>1. /\ command = "create_channel" /\ here = 3 /\ flags' = 4 /\ line_ptr' = line_ptr
      /\ command' = command /\ words' = words
  BY DEF Stuck, Go
<1>2. here' = 3
  <2>1. Pattern = args_of["create_channel"] /\ Pattern' = Pattern
    BY <1>1 DEF Pattern
  <2>2. 4 \in DOMAIN Pattern
    <3>1. Pattern \in Seq(Items)
      BY <2>1, ChannelIs, CommandsAreKnown DEF Known, WellFormed
    <3> QED BY <2>1, <3>1, ChannelIs, LenProperties
  <2>3. Expected(flags)' = Pattern[4]
    BY <1>1, <2>2 DEF Expected, Pattern
  <2> QED BY <1>1, <2>1, <2>3, ChannelIs DEF here
<1> QED BY <1>1, <1>2 DEF Stuck

\* And comes to be stuck where it may have a user, and the word is quoted.
LEMMA GetsStuck ==
  ASSUME CommandsInv, Closed, Reading, opt, period, op \in Singles, ~AtEnd, word.quoted,
         Go(here + 1, line_ptr, <<"missing">>)
  PROVE  Stuck'
<1>1. /\ Known(command, Pattern) /\ Len(words) \in Nat /\ here \in 1..Len(Pattern)
      /\ opt = Pattern[here].opt /\ RepeatedAt(Pattern, here)
      /\ At \in 1..Len(words) /\ word = words[At]
  <2>1. op # "none"
    BY DEF Singles
  <2>2. here <= Len(Pattern) /\ Known(command, Pattern) /\ Len(words) \in Nat
    BY <2>1, Setting
  <2>3. /\ here \in 1..Len(Pattern) /\ opt = Pattern[here].opt /\ RepeatedAt(Pattern, here)
        /\ At \in 1..Len(words) /\ word = words[At]
    BY <2>2, Setting
  <2> QED BY <2>2, <2>3
<1>2. command = "create_channel" /\ here = 3
  BY <1>1 DEF Known
<1>3. 3 <= At
  BY <1>1, <1>2 DEF Reading, ReadsAt
<1>4. /\ At \in 3..Len(words) /\ words[At].quoted
      /\ line_ptr # <<>> /\ line_ptr[1].quoted
  BY <1>1, <1>3 DEF AtEnd, word
<1>5. flags \in 1..5
  <2>1. Len(Pattern) = 4
    BY <1>2, ChannelIs DEF Pattern
  <2> QED BY <2>1 DEF Reading
<1>6. Stuck
  BY <1>2, <1>4, <1>5 DEF Stuck
<1> QED BY <1>6, StuckStays

LEMMA MissingKeeps == ASSUME CommandsInv, Missing PROVE CommandsInv'
<1>1. /\ outcome = "reading" /\ op \notin {"none"} \cup strings
      /\ ~AtEnd => word.quoted
      /\ ~ (period /\ AtEnd)
      /\ IF opt THEN Go(here + 1, line_ptr, <<"missing">>)
         ELSE IF period THEN Go(here + 2, line_ptr, <<>>)
         ELSE Finish("dropped")
  BY DEF Missing, Loop
<1>2. CASE ~Closed
  <2>1. UNCHANGED <<command, words>> /\ (outcome' = outcome \/ outcome' = "dropped")
    BY <1>1 DEF Go, Finish
  <2> QED BY <1>1, <1>2, <2>1, GoKeeps, FinishKeeps
<1>3. CASE Closed /\ Stuck
  <2>1. Go(here + 1, line_ptr, <<"missing">>)
    BY <1>1, <1>3, StuckSees
  <2>2. Stuck'
    BY <1>3, <2>1, StuckStays
  <2> QED BY <1>1, <2>1, <2>2, GoKeeps DEF Go
<1>4. CASE Closed /\ Reading
  <2>1. op \in Singles
    BY <1>1, <1>4, Setting DEF strings
  <2>2. CASE opt /\ period
    <3>1. Go(here + 1, line_ptr, <<"missing">>) /\ ~AtEnd /\ word.quoted
      BY <1>1, <2>2
    <3>2. Stuck'
      BY <1>4, <2>1, <2>2, <3>1, GetsStuck
    <3> QED BY <1>1, <3>1, <3>2, GoKeeps DEF Go
  <2>3. CASE opt /\ ~period
    BY <1>1, <1>4, <2>3, NoWordKeeps
  <2>4. CASE ~opt /\ period
    BY <1>1, <1>4, <2>4, NoWordKeeps
  <2>5. CASE ~opt /\ ~period
    <3>1. Claim("dropped", args)
      BY <1>1, <1>4, <2>5, NoWordKeeps
    <3>2. outcome' = "dropped" /\ args' = args /\ UNCHANGED <<command, words>>
      BY <1>1, <2>5 DEF Finish
    <3> QED BY <3>1, <3>2, FinishKeeps
  <2> QED BY <2>2, <2>3, <2>4, <2>5
<1> QED BY <1>1, <1>2, <1>3, <1>4 DEF CommandsInv

LEMMA NoFitKeeps == ASSUME CommandsInv, NoFit PROVE CommandsInv'
<1>1. /\ outcome = "reading" /\ op \notin {"none"} \cup strings
      /\ ~AtEnd /\ ~word.quoted /\ op \notin word.is
      /\ IF period THEN Go(here + 2, line_ptr, <<>>)
         ELSE IF opt THEN Go(here + 1, line_ptr, <<"missing">>)
         ELSE Finish("refused")
  BY DEF NoFit, Loop
<1>2. CASE ~Closed
  <2>1. UNCHANGED <<command, words>> /\ (outcome' = outcome \/ outcome' = "refused")
    BY <1>1 DEF Go, Finish
  <2> QED BY <1>1, <1>2, <2>1, GoKeeps, FinishKeeps
<1>3. CASE Closed
  <2>1. Reading
    BY <1>1, <1>3, StuckSees DEF CommandsInv
  <2>2. CASE period
    BY <1>1, <1>3, <2>1, <2>2, NoWordKeeps
  <2>3. CASE opt /\ ~period
    BY <1>1, <1>3, <2>1, <2>3, NoWordKeeps
  <2>4. CASE ~opt /\ ~period
    <3>1. Claim("refused", args)
      BY <1>1, <1>3, <2>1, <2>4, NoWordKeeps
    <3>2. outcome' = "refused" /\ args' = args /\ UNCHANGED <<command, words>>
      BY <1>1, <2>4 DEF Finish
    <3> QED BY <3>1, <3>2, FinishKeeps
  <2> QED BY <2>2, <2>3, <2>4
<1> QED BY <1>2, <1>3

LEMMA TakeKeeps == ASSUME CommandsInv, Take PROVE CommandsInv'
<1>1. /\ outcome = "reading" /\ op \notin {"none"} \cup strings
      /\ ~AtEnd /\ ~word.quoted /\ op \in word.is
      /\ Go(here + 1, Tail(line_ptr), <<op>>)
  BY DEF Take, Loop
<1>2. ASSUME Closed PROVE Reading'
  <2>1. Reading
    BY <1>1, <1>2, StuckSees DEF CommandsInv
  <2>2. here <= Len(Pattern) /\ op \in Singles
    BY <1>1, <1>2, <2>1, Setting DEF strings
  <2>3. ~NoneFits(Pattern, words, here, At)
    BY <1>1, <1>2, <2>1, <2>2, Fitting
  <2> QED BY <1>1, <1>2, <2>1, <2>2, <2>3, TookKeeps
<1> QED BY <1>1, <1>2, GoKeeps DEF Go

LEMMA TakeStringKeeps == ASSUME CommandsInv, TakeString PROVE CommandsInv'
<1>1. /\ outcome = "reading" /\ op = "string"
      /\ IF AtEnd \/ ~word.closed
         THEN IF opt THEN Go(here + 1, IF AtEnd THEN line_ptr ELSE Tail(line_ptr), <<"missing">>)
              ELSE Finish("refused")
         ELSE Go(here + 1, Tail(line_ptr), <<"string">>)
  BY DEF TakeString, Loop
<1>2. CASE ~Closed
  <2>1. UNCHANGED <<command, words>> /\ (outcome' = outcome \/ outcome' = "refused")
    BY <1>1 DEF Go, Finish
  <2> QED BY <1>1, <1>2, <2>1, GoKeeps, FinishKeeps
<1>3. CASE Closed
  <2>1. Reading
    BY <1>1, <1>3, StuckSees DEF CommandsInv
  <2>2. /\ WellFormed(Pattern) /\ words \in Words /\ Len(Pattern) \in Nat
        /\ At \in 1..(Len(words) + 1) /\ here <= Len(Pattern) /\ here \in 1..Len(Pattern)
        /\ op = Pattern[here].is /\ opt = Pattern[here].opt
        /\ period <=> RepeatedAt(Pattern, here)
        /\ ~AtEnd => word.closed
    BY <1>1, <1>3, <2>1, Setting
  <2>3. ~period
    BY <1>1, <2>2, LaterRow DEF Singles
  <2>4. NoneFits(Pattern, words, here, At) <=> AtEnd
    BY <1>1, <1>3, <2>1, <2>2, Fitting
  <2>5. CASE ~AtEnd
    <3>1. Go(here + 1, Tail(line_ptr), <<op>>)
      BY <1>1, <2>2, <2>5
    <3>2. Reading'
      BY <1>1, <1>3, <2>1, <2>2, <2>4, <2>5, <3>1, TookKeeps
    <3> QED BY <1>1, <3>1, <3>2, GoKeeps DEF Go
  <2>6. CASE AtEnd /\ opt
    <3>1. Go(here + 1, line_ptr, <<"missing">>)
      BY <1>1, <2>6
    <3>2. Reading'
      BY <1>1, <1>3, <2>1, <2>2, <2>3, <2>4, <2>6, <3>1, SkippedKeeps
    <3> QED BY <1>1, <3>1, <3>2, GoKeeps DEF Go
  <2>7. CASE AtEnd /\ ~opt
    <3>1. Table(Pattern, words)[here][At] = {}
      BY <1>1, <2>2, <2>3, <2>4, <2>7, NoRow
    <3>2. Claim("refused", args)
      BY <1>3, <2>1, <3>1, NowhereClaims
    <3>3. outcome' = "refused" /\ args' = args /\ UNCHANGED <<command, words>>
      BY <1>1, <2>7 DEF Finish
    <3> QED BY <3>2, <3>3, FinishKeeps
  <2> QED BY <2>5, <2>6, <2>7
<1> QED BY <1>2, <1>3

\* The head of the line is what may be there, and what it is now is not a word.
LEMMA HeadIs ==
  ASSUME CommandsInv, outcome \in {"line", "head"}, line_ptr # <<>>, NEW marks,
         line_ptr[1] \in [head : marks]
  PROVE  /\ words \in Seq(Word)
         /\ \E h \in Seq(Mark) :
              /\ h # <<>> /\ line_ptr = h \o words /\ Tail(line_ptr) = Tail(h) \o words
              /\ line_ptr[1] = h[1]
              /\ \A i \in DOMAIN h : h[i].head = "name" => i = Len(h)
<1> DEFINE S == Mark \cup Word
<1>1. words \in Seq(Word) /\ words \in Seq(S)
  BY CommandsAssumption, SeqMonotonic DEF CommandsInv
<1>2. PICK h \in Seq(Mark) : /\ line_ptr = h \o words
                             /\ \A i \in DOMAIN h : h[i].head = "name" => i = Len(h)
  BY DEF CommandsInv, HeadInv
<1>3. h \in Seq(S)
  BY SeqMonotonic
<1>4. h # <<>>
  <2> SUFFICES ASSUME h = <<>> PROVE FALSE
    OBVIOUS
  <2>1. line_ptr = words
    BY <1>1, <1>2, ConcatEmptySeq
  <2>2. 1 \in 1..Len(words)
    BY <1>1, <2>1, EmptySeq
  <2>3. line_ptr[1] \in Word
    BY <1>1, <2>1, <2>2, ElementOfSeq
  <2>4. DOMAIN line_ptr[1] = {"quoted", "closed", "is"}
    BY <2>3 DEF Word
  <2>5. DOMAIN line_ptr[1] = {"head"}
    OBVIOUS
  <2> QED BY <2>4, <2>5
<1> HIDE DEF S
<1>5. /\ Len(h) \in Nat \ {0} /\ Len(words) \in Nat
      /\ h \o words \in Seq(S) /\ Len(h \o words) = Len(h) + Len(words)
      /\ \A i \in 1..(Len(h) + Len(words)) :
           (h \o words)[i] = IF i <= Len(h) THEN h[i] ELSE words[i - Len(h)]
  BY <1>1, <1>3, <1>4, EmptySeq, LenProperties, ConcatProperties
<1>6. line_ptr[1] = h[1]
  BY <1>2, <1>5
<1>7. Tail(h \o words) = Tail(h) \o words
  <2> DEFINE l == Tail(h \o words)
             r == Tail(h) \o words
  <2>1. /\ Tail(h) \in Seq(S) /\ Len(Tail(h)) = Len(h) - 1
        /\ \A i \in 1..Len(Tail(h)) : Tail(h)[i] = h[i + 1]
    BY <1>3, <1>4, HeadTailProperties
  <2>2. h \o words # <<>>
    BY <1>2
  <2>3. /\ l \in Seq(S) /\ Len(l) = Len(h \o words) - 1
        /\ \A i \in 1..Len(l) : l[i] = (h \o words)[i + 1]
    BY <1>5, <2>2, HeadTailProperties
  <2>4. /\ r \in Seq(S) /\ Len(r) = Len(Tail(h)) + Len(words)
        /\ \A i \in 1..(Len(Tail(h)) + Len(words)) :
             r[i] = IF i <= Len(Tail(h)) THEN Tail(h)[i] ELSE words[i - Len(Tail(h))]
    BY <1>1, <2>1, ConcatProperties
  <2> HIDE DEF l, r
  <2>5. ASSUME NEW i \in 1..Len(l) PROVE l[i] = r[i]
    <3>1. /\ i + 1 \in 1..(Len(h) + Len(words)) /\ i \in 1..(Len(Tail(h)) + Len(words))
          /\ l[i] = IF i + 1 <= Len(h) THEN h[i + 1] ELSE words[(i + 1) - Len(h)]
      BY <1>5, <2>1, <2>3
    <3>2. CASE i + 1 <= Len(h)
      <4>1. i \in 1..Len(Tail(h)) /\ i <= Len(Tail(h))
        BY <1>5, <2>1, <3>2
      <4> QED BY <2>1, <2>4, <3>1, <3>2, <4>1
    <3>3. CASE ~ (i + 1 <= Len(h))
      <4>1. ~ (i <= Len(Tail(h))) /\ (i + 1) - Len(h) = i - Len(Tail(h))
        BY <1>5, <2>1, <3>3
      <4> QED BY <2>4, <3>1, <3>3, <4>1
    <3> QED BY <3>2, <3>3
  <2>6. Len(l) = Len(r)
    BY <1>5, <2>1, <2>3, <2>4
  <2>7. l = r
    BY <2>3, <2>4, <2>5, <2>6, SeqEqual
  <2> QED BY <2>7 DEF l, r
<1> QED BY <1>1, <1>2, <1>4, <1>6, <1>7

LEMMA ModifierKeeps == ASSUME CommandsInv, Modifier PROVE CommandsInv'
<1>1. /\ outcome \in {"line", "head"} /\ line_ptr # <<>> /\ line_ptr[1] \in [head : {"modifier"}]
      /\ line_ptr' = Tail(line_ptr) /\ outcome' = "head"
      /\ UNCHANGED <<command, flags, args, words>>
  BY DEF Modifier, AtHead
<1>2. PICK h \in Seq(Mark) :
        /\ h # <<>> /\ line_ptr = h \o words /\ Tail(line_ptr) = Tail(h) \o words
        /\ line_ptr[1] = h[1]
        /\ \A i \in DOMAIN h : h[i].head = "name" => i = Len(h)
  BY <1>1, HeadIs
<1> DEFINE t == Tail(h)
<1>3. /\ t \in Seq(Mark) /\ Len(t) = Len(h) - 1 /\ Len(h) \in Nat
      /\ \A i \in 1..Len(t) : t[i] = h[i + 1]
  BY <1>2, HeadTailProperties, LenProperties
<1>4. DOMAIN t = 1..Len(t) /\ DOMAIN h = 1..Len(h) /\ Len(t) \in Nat
  BY <1>3, LenProperties
<1>5. line_ptr' = t \o words'
  BY <1>1, <1>2
<1> HIDE DEF t
<1>6. \A i \in DOMAIN t : t[i].head = "name" => i = Len(t)
  <2> SUFFICES ASSUME NEW i \in DOMAIN t, t[i].head = "name" PROVE i = Len(t)
    OBVIOUS
  <2>1. i + 1 \in DOMAIN h /\ i \in 1..Len(t)
    BY <1>3, <1>4
  <2>2. i + 1 = Len(h)
    BY <1>2, <1>3, <2>1
  <2> QED BY <1>3, <1>4, <2>1, <2>2
<1>7. HeadInv'
  <2>1. flags = 1 /\ args = <<>>
    BY <1>1 DEF CommandsInv, HeadInv
  <2> QED BY <1>1, <1>3, <1>5, <1>6, <2>1 DEF HeadInv
<1>8. ArgumentsAreDeclared'
  BY <1>1 DEF ArgumentsAreDeclared
<1> QED BY <1>1, <1>7, <1>8 DEF CommandsInv

LEMMA NameKeeps == ASSUME CommandsInv, Name PROVE CommandsInv'
<1>1. /\ outcome \in {"line", "head"} /\ line_ptr # <<>> /\ line_ptr[1] \in [head : {"name"}]
      /\ line_ptr' = Tail(line_ptr) /\ outcome' = "reading"
      /\ UNCHANGED <<command, flags, args, words>>
  BY DEF Name, AtHead
<1>2. PICK h \in Seq(Mark) :
        /\ h # <<>> /\ line_ptr = h \o words /\ Tail(line_ptr) = Tail(h) \o words
        /\ line_ptr[1] = h[1]
        /\ \A i \in DOMAIN h : h[i].head = "name" => i = Len(h)
  BY <1>1, HeadIs
<1>3. words \in Seq(Word)
  BY <1>1, HeadIs
<1>4. line_ptr' = words
  <2>1. h[1].head = "name"
    BY <1>1, <1>2
  <2>2. DOMAIN h = 1..Len(h) /\ Len(h) \in Nat \ {0}
    BY <1>2, LenProperties, EmptySeq
  <2>3. Len(h) = 1
    BY <1>2, <2>1, <2>2
  <2>4. Tail(h) \in Seq(Mark) /\ Len(Tail(h)) = 0
    BY <1>2, <2>3, HeadTailProperties
  <2>5. Tail(h) = <<>>
    BY <2>4, EmptySeq
  <2> QED BY <1>1, <1>2, <1>3, <2>5, ConcatEmptySeq
<1>5. flags = 1 /\ args = <<>>
  BY <1>1 DEF CommandsInv, HeadInv
<1>6. ASSUME Closed PROVE Reading'
  <2> DEFINE p == Pattern
  <2>1. command \in DOMAIN args_of
    BY CommandsAssumption DEF CommandsInv
  <2>2. WellFormed(p)
    BY <2>1, CommandsAreKnown DEF Known, Pattern
  <2>3. words \in Words /\ Len(words) \in Nat /\ DOMAIN words = 1..Len(words)
    BY <1>3, <1>6, LenProperties DEF Words, Closed
  <2>4. p \in Seq(Items) /\ Len(p) \in Nat /\ DOMAIN p = 1..Len(p)
    BY <2>2, LenProperties DEF WellFormed
  <2>5. At' = 1 /\ p' = p
    BY <1>1, <1>4, <2>3 DEF At, Pattern
  <2>6. here' = 1
    <3>1. Item(p, 1).is # "period"
      <4>1. CASE p = <<>>
        <5>1. 1 \notin DOMAIN p
          BY <2>4, <4>1, EmptySeq
        <5> QED BY <5>1 DEF Item, One
      <4>2. CASE p # <<>>
        <5>1. 1 \in DOMAIN p
          BY <2>4, <4>2, EmptySeq
        <5> QED BY <2>2, <4>2, <5>1 DEF Item, WellFormed
      <4> QED BY <4>1, <4>2
    <3>2. here' = HereOf(p, 1)
      BY <1>1, <1>5 DEF here, HereOf, Expected, Item, Pattern
    <3> QED BY <3>1, <3>2 DEF HereOf
  <2>7. Leads(Allowed(p, words), <<>>, Table(p, words)[1][1])
    BY AllowedIs, LeadsFirst
  <2>8. <<>> \in Seq(Arg) /\ Len(<<>>) = 0
    BY EmptySeq
  <2>9. Copies("user", 1 - 1) = <<>>
    <3>1. "user" \in Arg
      BY DEF Arg, Singles
    <3>2. Copies("user", 0) = <<>>
      BY <3>1, CopiesAre
    <3>3. 1 - 1 = 0
      OBVIOUS
    <3> QED BY <3>2, <3>3
  <2>10. ReadsAt(command, words, 1, 1, <<>>)
    <3>1. Repeats(p, words, 1, 1, <<>>)
      BY <2>4 DEF Repeats
    <3> QED BY <2>3, <2>4, <2>7, <2>8, <2>9, <3>1 DEF ReadsAt, Pattern
  <2>11. LeftOver(words, words, 1)
    BY <1>3, <2>3 DEF LeftOver
  <2>12. flags' \in 1..(Len(p) + 1)
    BY <1>1, <1>5, <2>4
  <2> HIDE DEF p
  <2>13. ReadsAt(command', words', here', At', args')
    BY <1>1, <1>5, <2>5, <2>6, <2>10
  <2>14. LeftOver(words', line_ptr', At')
    BY <1>1, <1>4, <2>5, <2>11
  <2> QED BY <2>5, <2>12, <2>13, <2>14 DEF Reading, p
<1>7. ArgumentsAreDeclared'
  BY <1>1 DEF ArgumentsAreDeclared
<1>8. Closed' = Closed
  BY <1>1 DEF Closed
<1> QED BY <1>1, <1>6, <1>7, <1>8 DEF CommandsInv

LEMMA CommandsInvStep == CommandsInv /\ [CommandsNext]_commandsVars => CommandsInv'
<1> SUFFICES ASSUME CommandsInv, [CommandsNext]_commandsVars PROVE CommandsInv'
  OBVIOUS
<1>1. CASE Modifier
  BY <1>1, ModifierKeeps
<1>2. CASE EmptyLine \/ BadHead \/ Extf
  <2>1. UNCHANGED <<command, words>> /\ outcome' \in {"nothing", "unknown", "extf"}
    BY <1>2 DEF EmptyLine, BadHead, Extf
  <2>2. Claim(outcome', args')
    BY <2>1 DEF Claim
  <2> QED BY <2>1, <2>2, FinishKeeps
<1>3. CASE Name
  BY <1>3, NameKeeps
<1>4. CASE TooMany
  BY <1>4, TooManyKeeps
<1>5. CASE PatternEnds
  BY <1>5, PatternEndsKeeps
<1>6. CASE TakeRest
  BY <1>6, TakeRestKeeps
<1>7. CASE EndOfRepeated
  BY <1>7, EndOfRepeatedKeeps
<1>8. CASE Missing
  BY <1>8, MissingKeeps
<1>9. CASE NoFit
  BY <1>9, NoFitKeeps
<1>10. CASE Take
  BY <1>10, TakeKeeps
<1>11. CASE TakeString
  BY <1>11, TakeStringKeeps
<1>12. CASE UNCHANGED commandsVars
  <2>1. /\ command' = command /\ line_ptr' = line_ptr /\ flags' = flags /\ args' = args
        /\ outcome' = outcome /\ words' = words
    BY <1>12 DEF commandsVars
  <2>2. here' = here /\ At' = At /\ Pattern' = Pattern /\ Closed' = Closed
    BY <2>1 DEF here, Expected, At, Pattern, Closed
  <2>3. (Reading' <=> Reading) /\ (Stuck' <=> Stuck)
    BY <2>1, <2>2 DEF Reading, Stuck
  <2>4. HeadInv' <=> HeadInv
    BY <2>1 DEF HeadInv
  <2>5. ArgumentsAreDeclared' <=> ArgumentsAreDeclared
    BY <2>1 DEF ArgumentsAreDeclared
  <2> QED BY <2>1, <2>2, <2>3, <2>4, <2>5 DEF CommandsInv
<1> QED BY <1>1, <1>2, <1>3, <1>4, <1>5, <1>6, <1>7, <1>8, <1>9, <1>10, <1>11, <1>12
        DEF CommandsNext

\* A command's handler runs on arguments that are declared for the words of the line,
\* but for lines that leave nothing for an argument which is to be there once or more
\* and a broadcast without a text, and a line is turned down only if there are none,
\* though the loop never goes back (interface.c:3520-3700).
THEOREM ReadAsDeclared == CommandsSpec => []ArgumentsAreDeclared
<1>1. CommandsInv => ArgumentsAreDeclared
  BY DEF CommandsInv
<1> QED BY <1>1, InvInit, CommandsInvStep, PTL DEF CommandsSpec

=============================================================================
