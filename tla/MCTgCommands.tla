--------------------------- MODULE MCTgCommands ---------------------------
(* The words of the lines, and the commands of a run.                        *)
EXTENDS TgCommands

W(is) == [quoted |-> FALSE, closed |-> TRUE, is |-> is]

\* A user, a chat, a number, which may be a message's too, a word that is
\* none of these, a quoted string, and one without its second quote.
MCWords ==
  {W({"user", "peer"}), W({"chat", "peer"}), W({"number", "msg_id"}), W({}),
   [quoted |-> TRUE, closed |-> TRUE, is |-> {}]}
MCOpen == [quoted |-> TRUE, closed |-> FALSE, is |-> {}]

MCLines ==
  LET closed == UNION {[1..n -> MCWords] : n \in 0..4}
  IN closed \cup {Append(l, MCOpen) : l \in {c \in closed : Len(c) < 3}}

H(h) == [head |-> h]
MCHeads ==
  {<<>>, <<H("name")>>, <<H("modifier"), H("name")>>, <<H("[")>>, <<H("(")>>,
   <<H("modifier"), H("(")>>}
=============================================================================
