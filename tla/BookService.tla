---------------------------- MODULE BookService ----------------------------
(***************************************************************************)
(* What a browser may rely on from /getorderbook: a request is answered at *)
(* most once, with the book it asked for, or it is never answered; which   *)
(* of the two is decided once.  Nothing is promised about when, or about   *)
(* the order of the answers to different requests.                         *)
(***************************************************************************)
EXTENDS Naturals, Sequences

CONSTANTS Popups, MaxAsks

VARIABLES asked, outcome

NoBook == [ex |-> "none", market |-> "none"]

Unasked == [is |-> "unasked", book |-> NoBook]
Pending == [is |-> "pending", book |-> NoBook]
Dropped == [is |-> "dropped", book |-> NoBook]

Init ==
  /\ asked = <<>>
  /\ outcome = [no \in 1..MaxAsks |-> Unasked]

\* A request arrives; one that names no exchange is dropped there and then.
Ask(p) ==
  /\ Len(asked) < MaxAsks
  /\ asked' = Append(asked, p)
  /\ \E first \in {Pending, Dropped} :
       outcome' = [outcome EXCEPT ![Len(asked) + 1] = first]

Answer(no) ==
  /\ outcome[no] = Pending
  /\ outcome' = [outcome EXCEPT ![no] =
       [is |-> "answered",
        book |-> [ex |-> asked[no].ex, market |-> asked[no].market]]]
  /\ UNCHANGED asked

Drop(no) ==
  /\ outcome[no] = Pending
  /\ outcome' = [outcome EXCEPT ![no] = Dropped]
  /\ UNCHANGED asked

Next ==
  \/ \E p \in Popups : Ask(p)
  \/ \E no \in 1..MaxAsks : Answer(no) \/ Drop(no)

Spec == Init /\ [][Next]_<<asked, outcome>>
=============================================================================
