------------------------------ MODULE MCPyQueue ------------------------------
(* Values for the constants of PyQueue.                                     *)
EXTENDS PyQueue

\* A list that is long enough for a group, and one that is not.
MCLists == {"trio", "pair"}
MCElements == [trio |-> <<"peer", "peer", "peer">>, pair |-> <<"peer", "peer">>]

\* A peer, a message, a list, and the function without a case.
MCFunctions == {"chat_info", "load_photo", "create_group_chat", "accept_secret_chat"}

\* One method of each kind.
MCMethods == {"send_msg", "rename_chat", "info", "mark_read", "send_contact"}
=============================================================================
