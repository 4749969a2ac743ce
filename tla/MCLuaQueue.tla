----------------------------- MODULE MCLuaQueue -----------------------------
(* Values for the constants of LuaQueue.                                   *)
EXTENDS LuaQueue

\* No argument, a string after another argument, strings only, and the two
\* functions lua_do_all has no right case for.
MCFunctions ==
  {"status_online", "send_msg", "add_contact", "restore_msg", "set_profile_name"}
=============================================================================
