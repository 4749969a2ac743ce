--------------------------- MODULE MCTgConnections --------------------------
(* Values for the constants of TgConnections.                              *)
EXTENDS TgConnections

CONSTANTS c1, c2, q1, q2, q3

MCConns == {c1, c2}
MCQueries == {q1, q2, q3}
MCViews == {q3}
=============================================================================
