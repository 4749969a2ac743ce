----------------------------- MODULE MCTgFiles -----------------------------
(* Values for the constants of TgFiles, one group per run.                 *)
EXTENDS TgFiles

\* Three chats, so that the placeholder may be too many or too few.
MCById3 == <<"a", "b", "c">>
MCChatOf1 == <<"b">>

\* Two chats, with updates and messages.
MCById2 == <<"a", "b">>
MCChatOf3 == <<"a", "b", "a">>
=============================================================================
