---------------------------- MODULE ScriptCalls ----------------------------
(***************************************************************************)
(* What both bindings of telegram-cli promise a script about its calls:    *)
(* they are made later, in the order in which they were accepted; each is  *)
(* made once, or dropped when its turn comes; and each one made is         *)
(* answered at most once, in any order.                                    *)
(***************************************************************************)
EXTENDS Naturals, Sequences

VARIABLE fate  \* of each accepted call, by its number

Fates == {"waiting", "made", "answered", "dropped"}

TypeOK == fate \in Seq(Fates)

Init == fate = <<>>

Accept == fate' = Append(fate, "waiting")

\* c is the call whose turn it is.
HasTurn(c) == fate[c] = "waiting" /\ \A b \in 1..(c - 1) : fate[b] # "waiting"

Make(c) == HasTurn(c) /\ fate' = [fate EXCEPT ![c] = "made"]
Drop(c) == HasTurn(c) /\ fate' = [fate EXCEPT ![c] = "dropped"]
Answer(c) == fate[c] = "made" /\ fate' = [fate EXCEPT ![c] = "answered"]

Next == Accept \/ \E c \in DOMAIN fate : Make(c) \/ Drop(c) \/ Answer(c)

Spec == Init /\ [][Next]_fate
=============================================================================
