------------------------------- MODULE LuaQueue -------------------------------
(***************************************************************************)
(* The calls a Lua script of telegram-cli makes.  A call is not made at    *)
(* once: parse_lua_function checks it and appends it to the array lua_ptr, *)
(* and lua_do_all, once per turn of the loop, makes the calls in the array *)
(* and empties it.  The function and the value a script gives to be called *)
(* back with are in the Lua registry, under two numbers that a malloced    *)
(* lua_query_extra holds until the answer comes.                           *)
(*                                                                         *)
(* Slots are numbered from 1.  A slot's flags outlive what the slot holds, *)
(* which is why they are a variable of their own.                          *)
(***************************************************************************)
EXTENDS Naturals, Sequences, FiniteSets

CONSTANTS
  Functions,  \* the functions the script calls
  MaxSlots,   \* MAX_LUA_COMMANDS, 1000 in the source
  MaxCalls    \* bound: calls the script has accepted

VARIABLES
  run,       \* "up"; "aborted" by an assertion; "garbled": nonsense was used
  script,    \* the script is running
  cb,        \* and it is the callback of this call; 0 if it is not one
  queue,     \* lua_ptr[0 .. pos - 1]
  flagged,   \* slots with flags & 1, in use or not
  at,        \* lua_do_all: p, 0 if it is not running
  cur,       \* and q, 0 if no arguments are to be freed
  made,      \* calls accepted so far; a call is known by its number
  issued,    \* history: those lua_do_all has made
  queries,   \* calls Telegram has not answered
  copies,    \* arguments that tstrdup has copied: <<call, argument>>
  refs,      \* calls whose two entries in the registry are there
  addr,      \* where the extra of each call was allocated
  mem,       \* what is there: of which call; 0 if it is free
  strayed    \* history: calls whose extra was freed as if it were a string

control == <<run, script, cb>>
array   == <<queue, flagged>>
reading == <<at, cur, issued>>
heap    == <<copies, refs, addr, mem, strayed>>
vars    == <<control, array, reading, made, queries, heap>>

-----------------------------------------------------------------------------
(* The table of functions: "str" is an argument that is copied, "id" a     *)
(* peer or a message, "num" a number with a bound, "any" one without.      *)

Params(f) ==
  CASE f \in {"get_contact_list", "get_dialog_list", "status_online", "status_offline"} -> <<>>
    [] f \in {"send_typing", "send_typing_abort", "load_photo", "load_video", "load_video_thumb",
              "load_audio", "load_document", "load_document_thumb", "chat_info", "channel_info",
              "user_info", "del_contact", "mark_read", "create_secret_chat", "delete_msg",
              "accept_secret_chat", "export_chat_link", "channel_get_admins",
              "channel_get_users"} -> <<"id">>
    [] f \in {"msg_global_search", "set_profile_photo", "set_profile_name",
              "ext_function", "import_chat_link"} -> <<"str">>
    [] f = "restore_msg" -> <<"num">>
    [] f \in {"send_msg", "post_msg", "rename_chat", "send_photo", "send_video", "send_audio",
              "send_document", "send_file", "send_text", "chat_set_photo", "reply_msg",
              "msg_search", "create_group_chat"} -> <<"id", "str">>
    [] f \in {"fwd_msg", "fwd_media", "chat_add_user", "chat_del_user",
              "channel_invite_user", "channel_kick_user"} -> <<"id", "id">>
    [] f = "get_history" -> <<"id", "num">>
    [] f \in {"add_contact", "rename_contact"} -> <<"str", "str", "str">>
    [] f = "send_contact" -> <<"id", "str", "str", "str">>
    [] f = "send_location" -> <<"id", "any", "any">>

ASSUME TableAssumption == \A f \in Functions : Params(f) \in Seq({"id", "str", "num", "any"})
ASSUME BoundsAssumption == {MaxSlots, MaxCalls} \subseteq Nat

Args(f) == DOMAIN Params(f)
Strings(f) == {i \in Args(f) : Params(f)[i] = "str"}

\* How far each case of lua_do_all goes on from the extra: over that and the
\* arguments, but set_profile_name over one more.
Takes(f) == 1 + Len(Params(f)) + (IF f = "set_profile_name" THEN 1 ELSE 0)

Items ==
  [is : {"num"}, num : Nat] \cup [is : {"type"}, type : Functions] \cup
  [is : {"extra"}, of : 1..MaxCalls] \cup [is : {"value"}] \cup
  [is : {"str"}, of : 1..MaxCalls, arg : Nat]

\* What a call puts into the array.
Header(f, c) ==
  <<[is |-> "num", num |-> 1 + Len(Params(f))], [is |-> "type", type |-> f],
    [is |-> "extra", of |-> c]>>

Entry(f, c) ==
  Header(f, c) \o
    [i \in Args(f) |-> IF i \in Strings(f) THEN [is |-> "str", of |-> c, arg |-> i]
                                           ELSE [is |-> "value"]]

\* The slots of arguments S of a call whose entry comes next.
Slots(S) == {Len(queue) + 3 + i : i \in S}

\* Calls whose extra somebody still points to.
Pointing ==
  queries \cup {c \in 1..made : cb = c} \cup
  {c \in 1..made : cur # 0 /\ queue[cur] = [is |-> "extra", of |-> c]}

TypeOK ==
  /\ run \in {"up", "aborted", "garbled"}
  /\ script \in BOOLEAN
  /\ cb \in 0..made /\ (cb # 0 => script)
  /\ queue \in Seq(Items) /\ Len(queue) < MaxSlots
  /\ flagged \subseteq 1..MaxSlots
  /\ at \in 0..(Len(queue) + 1) /\ cur \in 0..at
  /\ made \in 0..MaxCalls /\ issued \in 0..made
  /\ queries \cup refs \cup strayed \subseteq 1..made
  /\ copies \subseteq (1..made) \X Nat
  /\ addr \in [1..MaxCalls -> 0..MaxCalls]
  /\ mem \in [1..MaxCalls -> 0..MaxCalls]

Init ==
  /\ run = "up" /\ script = FALSE /\ cb = 0
  /\ queue = <<>> /\ flagged = {}
  /\ at = 0 /\ cur = 0
  /\ made = 0 /\ issued = 0
  /\ queries = {} /\ copies = {} /\ refs = {}
  /\ addr = [c \in 1..MaxCalls |-> 0]
  /\ mem = [a \in 1..MaxCalls |-> 0]
  /\ strayed = {}

-----------------------------------------------------------------------------
(* The script, run by a hook or by a callback.                             *)

\* Mutated form of Fits: off by one.
FitsOffByOne(f) == Len(queue) + 2 + Len(Params(f)) < MaxSlots

\* parse_lua_function has room: the last slot of the array is never used.
Fits(f) == Len(queue) + 3 + Len(Params(f)) < MaxSlots

\* malloc: memory nobody knows, or memory that was freed though somebody
\* still points to it.
Free(a) == a # 0 /\ mem[a] = 0
Malloced(c) == {c} \cup {a \in {addr[x] : x \in Pointing} : Free(a)}

\* The arguments are good: the call is in the array, its strings copied.
Accepted(f) ==
  LET c == made + 1
  IN /\ script /\ made < MaxCalls /\ Fits(f)
     /\ made' = c
     /\ queue' = queue \o Entry(f, c)
     /\ flagged' = (flagged \ Slots(Args(f))) \cup Slots(Strings(f))
     /\ copies' = copies \cup {<<c, i>> : i \in Strings(f)}
     /\ refs' = refs \cup {c}
     /\ \E a \in Malloced(c) : /\ addr' = [addr EXCEPT ![c] = a]
                               /\ mem' = [mem EXCEPT ![a] = c]
     /\ UNCHANGED <<control, reading, queries, strayed>>

\* Mutated form of Refused: pos is not set back.
RefusedKeepsHeader(f, bad) ==
  /\ script /\ made < MaxCalls /\ Fits(f)
  /\ bad # {} /\ \A i \in bad : Params(f)[i] # "any"
  /\ queue' = queue \o Header(f, made + 1)
  /\ flagged' = (flagged \ Slots(Args(f))) \cup Slots(Strings(f) \ bad)
  /\ UNCHANGED <<control, reading, made, queries, heap>>

\* Some argument is bad: references and extra are given back, pos is set back,
\* and the flags of strings that were good stay behind.
Refused(f, bad) ==
  /\ script /\ made < MaxCalls /\ Fits(f)
  /\ bad # {} /\ \A i \in bad : Params(f)[i] # "any"
  /\ flagged' = (flagged \ Slots(Args(f))) \cup Slots(Strings(f) \ bad)
  /\ UNCHANGED <<control, queue, reading, made, queries, heap>>

\* There is no room: the assertion fails, whatever the arguments.
Overflows(f) ==
  /\ script /\ made < MaxCalls /\ ~Fits(f)
  /\ run' = "aborted"
  /\ UNCHANGED <<script, cb, array, reading, made, queries, heap>>

\* A hook: between two events, or within a call lua_do_all makes.
Hook ==
  /\ ~script
  /\ at = 0 \/ cur # 0
  /\ script' = TRUE
  /\ UNCHANGED <<run, cb, array, reading, made, queries, heap>>

\* The answer to c, as an event or while lua_do_all makes that very call: the
\* callback runs the function its extra names, if there still is one.
Answer(c) ==
  /\ ~script
  /\ c \in queries
  /\ at = 0 \/ (cur # 0 /\ queue[cur].of = c)
  /\ queries' = queries \ {c}
  /\ IF mem[addr[c]] = 0 THEN run' = "garbled" /\ UNCHANGED <<script, cb>>
     ELSE script' = TRUE /\ cb' = c /\ UNCHANGED run
  /\ UNCHANGED <<array, reading, made, heap>>

\* Mutated form of Return: the callback does not unref.
ReturnKeepsRefs ==
  /\ script
  /\ script' = FALSE /\ cb' = 0
  /\ IF cb = 0 THEN UNCHANGED mem
     ELSE mem' = [mem EXCEPT ![addr[cb]] = 0]
  /\ UNCHANGED <<run, array, reading, made, queries, copies, refs, addr, strayed>>

\* The script is done.  A callback unrefs what its extra names, and frees it.
Return ==
  /\ script
  /\ script' = FALSE /\ cb' = 0
  /\ IF cb = 0 THEN UNCHANGED <<refs, mem>>
     ELSE /\ refs' = refs \ {mem[addr[cb]]}
          /\ mem' = [mem EXCEPT ![addr[cb]] = 0]
  /\ UNCHANGED <<run, array, reading, made, queries, copies, addr, strayed>>

-----------------------------------------------------------------------------
(* lua_do_all, once per turn of net_loop.                                  *)

Begin ==
  /\ ~script /\ at = 0 /\ queue # <<>>
  /\ at' = 1
  /\ UNCHANGED <<control, array, cur, issued, made, queries, heap>>

\* One call is made.  There is no case for restore_msg; set_profile_name
\* takes what is in the slot after its entry for a string.
Issue ==
  /\ ~script /\ at # 0 /\ cur = 0 /\ at <= Len(queue)
  /\ LET f == queue[at + 1].type
         c == queue[at + 2].of
     IN \/ /\ f = "restore_msg"
           /\ run' = "aborted"
           /\ UNCHANGED <<at, cur, issued, queries>>
        \/ /\ Takes(f) > 1 + Len(Params(f))
           /\ run' = "garbled"
           /\ UNCHANGED <<at, cur, issued, queries>>
        \/ /\ f # "restore_msg" /\ Takes(f) = 1 + Len(Params(f))
           /\ cur' = at + 2 /\ at' = at + 2 + Takes(f)
           /\ issued' = issued + 1
           /\ queries' = queries \cup {c}
           /\ UNCHANGED run
  /\ UNCHANGED <<script, cb, array, made, heap>>

\* Mutated form of Freed: the last argument is not looked at.
FreedButLast == {i \in cur..(at - 2) : i \in flagged}

\* The slots of the call just made, its extra's among them, whose flags say
\* they hold a string.
Freed == {i \in cur..(at - 1) : i \in flagged}

\* What they point to is freed, string or not.
FreeArgs ==
  /\ ~script /\ cur # 0
  /\ copies' = copies \ {<<queue[i].of, queue[i].arg>> : i \in Freed \ {cur}}
  /\ LET c == queue[cur].of
     IN IF cur \notin Freed THEN UNCHANGED <<run, mem, strayed>>
        ELSE /\ run' = IF mem[addr[c]] = 0 THEN "aborted" ELSE run
             /\ mem' = [mem EXCEPT ![addr[c]] = 0]
             /\ strayed' = strayed \cup {c}
  /\ cur' = 0
  /\ UNCHANGED <<script, cb, array, at, issued, made, queries, refs, addr>>

\* Mutated form of End: the loop over the array is left after one call.
EndAfterOne ==
  /\ ~script /\ at > 1 /\ cur = 0
  /\ queue' = <<>> /\ at' = 0
  /\ UNCHANGED <<control, flagged, cur, issued, made, queries, heap>>

\* pos = 0; the flags stay.
End ==
  /\ ~script /\ at > Len(queue) /\ cur = 0
  /\ queue' = <<>> /\ at' = 0
  /\ UNCHANGED <<control, flagged, cur, issued, made, queries, heap>>

Next ==
  /\ run = "up"
  /\ \/ \E f \in Functions :
          \/ Accepted(f)
          \/ \E bad \in SUBSET Args(f) : Refused(f, bad)
          \/ Overflows(f)
     \/ Hook
     \/ \E c \in 1..MaxCalls : Answer(c)
     \/ Return
     \/ Begin \/ Issue \/ FreeArgs \/ End

Spec == Init /\ [][Next]_vars

-----------------------------------------------------------------------------
(* Properties.                                                             *)

\* Calls in the array that have not been made.
Waiting == (issued + 1)..made

\* Calls whose entries are still to be read.
Unread == {queue[i].of : i \in {j \in DOMAIN queue : j >= at /\ queue[j].is = "extra"}}

Fate ==
  [c \in 1..made |-> IF c \in Unread THEN "waiting"
                     ELSE IF c \in queries THEN "made" ELSE "answered"]

Calls == INSTANCE ScriptCalls WITH fate <- Fate

\* Calls are made in the order in which the script made them, once each,
\* whatever is refused in between, and though callbacks append while lua_do_all
\* reads (lua-tg.c:1145-1398).
ImplementsCalls == Calls!Spec

\* From where lua_do_all reads on, the function of a call, and the entries of
\* the first calls of those it has not made.
Start == IF at = 0 THEN 1 ELSE at

Named(c) ==
  CHOOSE f \in Functions :
    \E i \in (Start + 2)..Len(queue) :
      queue[i] = [is |-> "extra", of |-> c] /\ queue[i - 1].type = f

EntriesTo[c \in 0..made] ==
  IF c <= issued THEN <<>> ELSE EntriesTo[c - 1] \o Entry(Named(c), c)

\* From where lua_do_all reads on, the array is the calls it has not made, in
\* the order the script made them, one entry after another and nothing else:
\* whatever was refused, and though callbacks append while it reads
\* (lua-tg.c:1145-1398, 1493-1612).
QueueIsFramed ==
  run = "up" => SubSeq(queue, Start, Len(queue)) = EntriesTo[made]

\* A copied string belongs to a call in the array, from the time it is
\* accepted until it has been made: none is freed twice and none is left
\* (lua-tg.c:1388-1393, 1605-1609).
StringsHaveOneOwner ==
  run = "up" =>
    copies = {<<queue[i].of, queue[i].arg>> :
                i \in {j \in DOMAIN queue : /\ queue[j].is = "str"
                                            /\ j >= (IF cur # 0 THEN cur ELSE at)}}

\* The registry holds the two entries of each call that has not been called
\* back and no others, and each finds its own through its extra, as long as no
\* extra was put into a slot with a flag left over.
CallsKeepTheirExtra ==
  run = "up" /\ strayed = {} =>
    /\ refs = Waiting \cup queries \cup ({cb} \ {0})
    /\ \A c \in refs : mem[addr[c]] = c

\* "These functions may return false immidiately if something is bad with
\* args, or return true and call cb_function in future." (README-LUA:20):
\* while Telegram has not answered, the extra of the call is there.
CallbacksAreKept == \A c \in queries : mem[addr[c]] = c
=============================================================================
