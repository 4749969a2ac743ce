------------------------------- MODULE PyQueue -------------------------------
(***************************************************************************)
(* The calls a Python script of telegram-cli makes, and the references the *)
(* binding takes to the script's objects and gives back.  A call is not    *)
(* made at once: push_py_func appends its arguments, a tuple, to py_ptr,   *)
(* and py_do_all, once per turn of net_loop, makes the calls in the array  *)
(* and empties it.  A call may be answered while it is made.               *)
(*                                                                         *)
(* rc is the count the interpreter keeps of each object; the object is     *)
(* freed when it becomes zero, and whoever touches it afterwards reads     *)
(* freed memory.  Strings, numbers and floats are not tracked.             *)
(***************************************************************************)
EXTENDS Integers, Sequences, FiniteSets, SequencesExt

CONSTANTS
  Peers, Msgs, Callables,  \* objects of the script
  Lists,       \* lists of peers; Elements gives their elements
  Elements,
  Chats,       \* the peers that are chats
  Functions,   \* functions of the module tgl the script calls
  Methods,     \* methods of its peers and messages it calls
  NoObject,
  MaxEntries,  \* calls py_ptr has room for, 499 in the source
  MaxObjects,  \* bound: objects made
  MaxCalls     \* bound: calls accepted

Objects == Peers \cup Msgs \cup Callables \cup Lists

ASSUME ObjectsAssumption ==
  /\ Peers \cap Msgs = {} /\ Lists \cap (Peers \cup Msgs) = {}
  /\ Callables \cap (Peers \cup Msgs \cup Lists) = {}
  /\ Elements \in [Lists -> Seq(Peers) \ {<<>>}] /\ IsFiniteSet(Lists)
  /\ NoObject \notin Objects /\ Chats \subseteq Peers
  /\ {MaxEntries, MaxObjects, MaxCalls} \subseteq Nat

VARIABLES
  run,      \* "up"; "aborted" by an assertion; "corrupt": freed memory was
            \* used; "ended" by safe_quit; "killed" by a signal
  script,   \* the script is running
  back,     \* and it is the callback of this query
  quit,     \* safe_quit
  queue,    \* py_ptr, one entry for its two slots
  at,       \* py_do_all: the next entry; 0 if it is not running
  cur,      \* and the one under way; 0 if there is none
  early,    \* whose callback has been run, and given back, already
  made,     \* calls accepted; a call is known by its number
  queries,  \* calls Telegram has not answered, each with its callback
  dropped,  \* history: calls that were not made when their turn came
  born,     \* objects that have been made
  held,     \* objects the script refers to
  hook,     \* the function set_on_... was given
  rc,       \* reference counts
  leak,     \* history: references that nobody will give back
  over      \* history: references given back by somebody who had none

control == <<run, script, back, quit>>
array   == <<queue, made>>
reading == <<at, cur, early, dropped>>
heap    == <<born, held, hook, rc, leak, over>>
vars    == <<control, array, reading, queries, heap>>

-----------------------------------------------------------------------------
(* The switch of py_do_all: which objects each call takes.                 *)

Params(f) ==
  CASE f \in {"send_msg", "send_typing", "send_typing_abort", "rename_chat", "send_photo",
              "send_video", "send_audio", "send_document", "send_file", "send_text",
              "chat_set_photo", "fwd_msg", "fwd_media", "chat_info", "user_info",
              "get_history", "del_contact", "msg_search", "mark_read",
              "create_secret_chat", "send_contact", "send_location"} -> <<Peers>>
    [] f \in {"chat_add_user", "chat_del_user"} -> <<Peers, Peers>>
    [] f \in {"load_photo", "load_video", "load_audio", "load_document",
              "load_video_thumb", "load_document_thumb"} -> <<Msgs>>
    [] f = "create_group_chat" -> <<Lists>>
    [] OTHER -> <<>>

Arguments(f) ==
  {objs \in UNION {[1..n -> Objects \ Callables] : n \in 0..2} :
     Len(objs) = Len(Params(f)) /\ \A i \in DOMAIN objs : objs[i] \in Params(f)[i]}

\* What is told apart of the number of a function.
Kind(f) == IF f \in {"create_group_chat", "accept_secret_chat"} THEN f ELSE "other"

\* call: its number; objs: the tracked arguments before the callback; got: how
\* many of them PyArg_ParseTuple takes before it meets a bad argument, none if
\* there are too few or too many of them, all if they are as they should (sound).
Entry(f, objs, got, sound, cb) ==
  [call |-> made + 1, kind |-> Kind(f), objs |-> objs, got |-> got, sound |-> sound,
   cb |-> cb]
Sound(f, objs, cb) == Entry(f, objs, Len(objs), TRUE, cb)

\* A group needs more than two peers.
Asks(e) ==
  e.sound /\ (e.kind = "create_group_chat" => Len(Elements[e.objs[1]]) > 2)

-----------------------------------------------------------------------------
(* Reference counts.                                                       *)

Flag(b) == IF b THEN 1 ELSE 0
At(o, s) == {i \in DOMAIN s : s[i] = o}
Times(o, s) == Cardinality(At(o, s))
Alive(o) == rc[o] > 0

\* For each object, how many references to it are in s; those to objects in S; and
\* both of two such counts.
Of(s) == [o \in Objects |-> Times(o, s)]
Only(S, n) == [o \in Objects |-> IF o \in S THEN n[o] ELSE 0]
Incref(r, n) == [o \in Objects |-> r[o] + n[o]]

\* The references to o in the lists of S: a list, and the place in it.
InLists(o, S) == UNION {{l} \X At(o, Elements[l]) : l \in S}

\* As many references as n says are given back, and a list of which the last one
\* goes gives back its own.
Decref(r, n) ==
  LET gone == {l \in Lists : 0 < r[l] /\ r[l] <= n[l]}
  IN [o \in Objects |-> r[o] - n[o] - Cardinality(InLists(o, gone))]

\* References to what is in the tuple that are given back: the list within
\* its case, peer and peer1 after the switch.  After create_group_chat, peer
\* is the last of the list.
Parsed(e)   == Of(SubSeq(e.objs, 1, e.got))
Unparsed(e) == Of(SubSeq(e.objs, e.got + 1, Len(e.objs)))
BackInCase(e) == Only(Lists, Parsed(e))
BackAfter(e) ==
  IF e.kind = "create_group_chat" /\ Asks(e) THEN Of(<<Last(Elements[e.objs[1]])>>)
  ELSE Only(Peers, Parsed(e))

\* The counts become r; a freed object among those given back is read.
Becomes(r) ==
  /\ rc' = r
  /\ run' = IF \E o \in Objects : r[o] < 0 THEN "corrupt" ELSE run

Optional(o) == IF o = NoObject THEN <<>> ELSE <<o>>

\* What the tuple of a call refers to.
Tuple(e) == e.objs \o Optional(e.cb)

NoQuery == [call |-> 0, cb |-> NoObject]
CurCall == IF cur = 0 THEN 0 ELSE queue[cur].call

TypeOK ==
  /\ run \in {"up", "aborted", "corrupt", "ended", "killed"}
  /\ script \in BOOLEAN /\ quit \in BOOLEAN /\ early \in BOOLEAN
  /\ queries \cup {back} \subseteq [call : 0..made, cb : Callables \cup {NoObject}]
  /\ Len(queue) <= MaxEntries
  /\ at \in 0..(Len(queue) + 1) /\ cur \in 0..Len(queue)
  /\ made \in 0..MaxCalls /\ dropped \subseteq 1..made
  /\ held \subseteq born /\ born \subseteq Objects
  /\ hook \in Callables \cup {NoObject}
  /\ rc \in [Objects -> Int]
  /\ leak \in [Objects -> Nat] /\ over \in [Objects -> Nat]

\* py_init imports the script, which may call and set hooks already.
Init ==
  /\ run = "up" /\ script = TRUE /\ back = NoQuery /\ quit = FALSE
  /\ queue = <<>> /\ made = 0
  /\ at = 0 /\ cur = 0 /\ early = FALSE /\ dropped = {}
  /\ queries = {}
  /\ born = {} /\ held = {} /\ hook = NoObject
  /\ rc = [o \in Objects |-> 0] /\ leak = rc /\ over = rc

-----------------------------------------------------------------------------
(* The script.                                                             *)

New(S) == IF Cardinality(born) < MaxObjects THEN S \ born ELSE {}

\* It makes an object: a function, or a tgl.Peer by its type and id.
Make(o) ==
  /\ script /\ o \in New(Callables \cup Peers)
  /\ born' = born \cup {o} /\ held' = held \cup {o}
  /\ rc' = [rc EXCEPT ![o] = 1]
  /\ UNCHANGED <<control, array, reading, queries, hook, leak, over>>

\* It makes a list of peers.
MakeList(l) ==
  /\ script /\ l \in New(Lists)
  /\ \A p \in ToSet(Elements[l]) : p \in held /\ Alive(p)
  /\ born' = born \cup {l} /\ held' = held \cup {l}
  /\ rc' = Incref(rc, Of(<<l>> \o Elements[l]))
  /\ UNCHANGED <<control, array, reading, queries, hook, leak, over>>

\* It is given an object, as an argument of a hook or a callback or by an
\* attribute of another one.  The reference made with the object stays.
Obtain(o) ==
  /\ script /\ o \in New(Peers \cup Msgs)
  /\ born' = born \cup {o} /\ held' = held \cup {o}
  /\ rc' = [rc EXCEPT ![o] = 2]
  /\ leak' = [leak EXCEPT ![o] = 1]
  /\ UNCHANGED <<control, array, reading, queries, hook, over>>

\* It forgets an object.
Forget(o) ==
  /\ script /\ o \in held
  /\ held' = held \ {o}
  /\ Becomes(Decref(rc, Of(<<o>>)))
  /\ UNCHANGED <<script, back, quit, array, reading, queries, born, hook, leak, over>>

\* It reads an attribute, a value of its own or one that it keeps.
ReadAttribute(o) ==
  /\ script /\ o \in held \cap (Peers \cup Msgs)
  /\ run' = IF Alive(o) THEN run ELSE "corrupt"
  /\ UNCHANGED <<script, back, quit, array, reading, queries, heap>>

\* Mutated form of SetHook: the old function is not given back.
SetHookKeepsOld(o) ==
  /\ script /\ o \in held \cap Callables /\ Alive(o)
  /\ hook' = o
  /\ Becomes(Incref(rc, Of(<<o>>)))
  /\ UNCHANGED <<script, back, quit, array, reading, queries, born, held, leak, over>>

\* set_on_loop and the others.
SetHook(o) ==
  /\ script /\ o \in held \cap Callables /\ Alive(o)
  /\ hook' = o
  /\ Becomes(Decref(Incref(rc, Of(<<o>>)), Of(Optional(hook))))
  /\ UNCHANGED <<script, back, quit, array, reading, queries, born, held, leak, over>>

SafeQuit ==
  /\ script
  /\ quit' = TRUE
  /\ UNCHANGED <<run, script, back, array, reading, queries, heap>>

\* The script can make a call with these arguments, and there is room.
CanPush(objs, cb) ==
  /\ script /\ made < MaxCalls /\ Len(queue) < MaxEntries
  /\ \A o \in ToSet(objs \o Optional(cb)) : o \in held /\ Alive(o)

\* push_py_func, of a tuple that refers to objs: no argument is looked at yet,
\* and the tuple is not given back.
Pushed(e, refs) ==
  /\ queue' = Append(queue, e)
  /\ made' = made + 1
  /\ rc' = Incref(rc, Of(refs))
  /\ UNCHANGED <<control, reading, queries, born, held, hook, over>>

\* A function of the module.  A load needs its callback.
Push(f, objs, got, sound, cb) ==
  /\ CanPush(objs, cb)
  /\ sound => got = Len(objs)
  /\ Params(f) = <<Msgs>> /\ cb = NoObject => ~sound
  /\ Pushed(Entry(f, objs, got, sound, cb), objs \o Optional(cb))
  /\ UNCHANGED leak

\* Methods of a peer or a message parse their arguments, and push nothing if one
\* is bad.
Pass(f, objs, cb) ==
  /\ CanPush(objs, cb)
  /\ Pushed(Sound(f, objs, cb), objs \o Optional(cb))
  /\ UNCHANGED leak

\* The methods that send something.
CallSend(f, peer, cb) ==
  /\ f \in {"send_msg", "send_photo", "send_video", "send_audio", "send_document", "send_file",
            "send_text", "history", "send_location"}
  /\ Pass(f, <<peer>>, cb)

\* Those of a chat return False for another peer.
CallChat(f, objs, cb) ==
  /\ f \in {"rename_chat", "chat_set_photo", "chat_add_user", "chat_del_user"}
  /\ objs[1] \in Chats
  /\ Pass(f, objs, cb)

\* info needs a callback, and pushes chat_info for a user, too; load_... of a
\* message do.
CallInfo(f, o, cb) ==
  /\ f \in {"info", "load_photo", "load_audio", "load_video", "load_document",
            "load_video_thumb", "load_document_thumb"}
  /\ o \in IF f = "info" THEN Peers ELSE Msgs
  /\ cb # NoObject
  /\ Pass(f, <<o>>, cb)

\* Without a callback these build no tuple: the peer is pushed in its place, with
\* the references of three increments.
CallBare(f, peer, cb) ==
  /\ f \in {"send_typing", "send_typing_abort", "mark_read"}
  /\ \/ cb # NoObject /\ Pass(f, <<peer>>, cb)
     \/ /\ cb = NoObject /\ CanPush(<<peer>>, cb)
        /\ Pushed(Entry(f, <<>>, 0, FALSE, cb), <<peer, peer, peer>>)
        /\ leak' = Incref(leak, Of(<<peer, peer, peer>>))

\* send_contact does not pass the callback on.  Without one it leaves out two
\* strings, and PyArg_ParseTuple refuses a tuple that is too short before it takes
\* anything from it.
CallSendContact(f, peer, cb) ==
  /\ f = "send_contact"
  /\ CanPush(<<peer>>, cb)
  /\ Pushed(Entry(f, <<peer>>, Flag(cb # NoObject), cb # NoObject, NoObject), <<peer>>)
  /\ UNCHANGED leak

CallMethod(f, cb) ==
  \/ \E p \in Peers : CallSend(f, p, cb) \/ CallBare(f, p, cb) \/ CallSendContact(f, p, cb)
  \/ \E objs \in Arguments(f) : CallChat(f, objs, cb)
  \/ \E o \in Peers \cup Msgs : CallInfo(f, o, cb)

\* There is no room: the assertion fails.
Overflow ==
  /\ script /\ Len(queue) = MaxEntries
  /\ run' = "aborted"
  /\ UNCHANGED <<script, back, quit, array, reading, queries, heap>>

-----------------------------------------------------------------------------
(* Hooks and answers: events, or within a call that py_do_all makes.       *)

Within == cur # 0 /\ Asks(queue[cur])

Hook ==
  /\ ~script /\ hook # NoObject
  /\ at = 0 \/ Within
  /\ script' = TRUE
  /\ UNCHANGED <<run, back, quit, array, reading, queries, heap>>

\* The callback gets the answer, if there is one to call.
Answer(q) ==
  /\ ~script
  /\ at = 0 \/ (Within /\ q.call = CurCall)
  /\ queries' = queries \ {q}
  /\ IF q.cb = NoObject THEN UNCHANGED <<run, script, back>>
     ELSE IF Alive(q.cb) THEN script' = TRUE /\ back' = q /\ UNCHANGED run
     ELSE run' = "corrupt" /\ UNCHANGED <<script, back>>
  /\ UNCHANGED <<quit, array, reading, heap>>

\* The script is done, and a callback is given back.
Return ==
  /\ script
  /\ script' = FALSE /\ back' = NoQuery
  /\ Becomes(Decref(rc, Of(Optional(back.cb))))
  /\ early' = (early \/ (back # NoQuery /\ back.call = CurCall))
  /\ UNCHANGED <<quit, array, at, cur, dropped, queries, born, held, hook, leak, over>>

-----------------------------------------------------------------------------
(* py_do_all, and the end of the turn of net_loop.                         *)

\* Mutated form of Begin: net_loop looks at safe_quit before the calls are made.
BeginChecksQuit ==
  /\ ~script /\ at = 0
  /\ at' = 1
  /\ script' = (hook # NoObject)
  /\ run' = IF quit /\ queries = {} THEN "ended" ELSE run
  /\ UNCHANGED <<back, quit, array, cur, early, dropped, queries, heap>>

\* Mutated form of Begin: calls are made one batch at a time.
BeginWhenAnswered ==
  /\ ~script /\ at = 0 /\ queries = {}
  /\ at' = 1
  /\ script' = (hook # NoObject)
  /\ UNCHANGED <<run, back, quit, array, cur, early, dropped, queries, heap>>

\* py_on_loop runs the script first.
Begin ==
  /\ ~script /\ at = 0
  /\ at' = 1
  /\ script' = (hook # NoObject)
  /\ UNCHANGED <<run, back, quit, array, cur, early, dropped, queries, heap>>

\* A call is made, or dropped with a message on the terminal.
\* accept_secret_chat has no case.
Issue ==
  /\ ~script /\ at # 0 /\ cur = 0 /\ at <= Len(queue)
  /\ LET e == queue[at]
     IN IF e.kind = "accept_secret_chat"
          THEN run' = "aborted" /\ UNCHANGED <<at, cur, dropped, queries>>
          ELSE /\ cur' = at /\ at' = at + 1
               /\ IF Asks(e)
                    THEN /\ queries' = queries \cup {[call |-> e.call, cb |-> e.cb]}
                         /\ UNCHANGED dropped
                    ELSE dropped' = dropped \cup {e.call} /\ UNCHANGED queries
               /\ UNCHANGED run
  /\ UNCHANGED <<script, back, quit, array, early, heap>>

\* What the tuple of the call goes on referring to, and the reference to a
\* callback that is never called.
Kept(e) ==
  LET cb == Of(Optional(e.cb))
      lost == IF e.sound /\ ~Asks(e) THEN Incref(cb, cb) ELSE cb
  IN Incref(Incref(Unparsed(e), Only(Msgs, Parsed(e))), lost)

\* After the case: the callback is taken, the peers are given back.
Tidied(e, after) ==
  LET r  == Decref(rc, BackInCase(e))
      cb == IF e.sound THEN Optional(e.cb) ELSE <<>>
  IN /\ IF \E o \in ToSet(cb) : r[o] <= 0
          THEN run' = "corrupt" /\ rc' = r /\ UNCHANGED <<cur, early>>
          ELSE /\ Becomes(Decref(Incref(r, Of(cb)), Incref(BackAfter(e), Of(after))))
               /\ cur' = 0 /\ early' = FALSE
     /\ leak' = Incref(leak, Kept(e))
     /\ over' = IF e.kind = "create_group_chat" /\ Asks(e)
                  THEN Incref(over, BackAfter(e)) ELSE over
     /\ UNCHANGED <<script, back, quit, array, at, dropped, queries, born, held, hook>>

\* Mutated form of Tidy: the tuple is given back as well, which goes with it.
TidyReleasesTuple ==
  ~script /\ cur # 0 /\ Tidied(queue[cur], Tuple(queue[cur]))

Tidy == ~script /\ cur # 0 /\ Tidied(queue[cur], <<>>)

\* Mutated form of ReadAll: one call is read.
ReadOne == at > 1 \/ queue = <<>>
ReadAll == at > Len(queue)

\* pos = 0.  Then net_loop looks at safe_quit, which ends the process or, in a
\* daemon, is forgotten, and at signals.
End ==
  /\ ~script /\ at # 0 /\ cur = 0 /\ ReadAll
  /\ queue' = <<>> /\ at' = 0
  /\ \/ quit /\ queries = {} /\ run' = "ended" /\ UNCHANGED quit
     \/ quit /\ queries = {} /\ quit' = FALSE /\ UNCHANGED run
     \/ ~(quit /\ queries = {}) /\ UNCHANGED <<run, quit>>
     \/ run' = "killed" /\ UNCHANGED quit
  /\ UNCHANGED <<script, back, made, cur, early, dropped, queries, heap>>

Next ==
  /\ run = "up"
  /\ \/ \E o \in Objects : Make(o) \/ MakeList(o) \/ Obtain(o) \/ Forget(o) \/ SetHook(o)
     \/ \E o \in Objects : ReadAttribute(o)
     \/ SafeQuit \/ Overflow
     \/ \E cb \in Callables \cup {NoObject} :
          \/ \E f \in Functions : \E objs \in Arguments(f) : \E got \in 0..Len(objs) :
               \E sound \in BOOLEAN : Push(f, objs, got, sound, cb)
          \/ \E f \in Methods : CallMethod(f, cb)
     \/ Hook \/ \E q \in queries : Answer(q)
     \/ Return
     \/ Begin \/ Issue \/ Tidy \/ End

Spec == Init /\ [][Next]_vars

Up == run = "up"

\* The script comes to an end each time it runs.  Events and hooks do not keep
\* net_loop from its turn, nor a call under way from its end, for good.
Fairness ==
  /\ WF_vars(Up /\ Return)
  /\ SF_vars(Up /\ Begin)
  /\ SF_vars(Up /\ Issue)
  /\ SF_vars(Up /\ Tidy)
  /\ SF_vars(Up /\ End)

FairSpec == Spec /\ Fairness

-----------------------------------------------------------------------------
(* Properties.                                                             *)

Unread == {i \in DOMAIN queue : i >= at}
Waiting == {queue[i].call : i \in Unread}

Fate ==
  [c \in 1..made |->
     IF c \in Waiting THEN "waiting"
     ELSE IF c \in dropped THEN "dropped"
     ELSE IF \E q \in queries : q.call = c THEN "made" ELSE "answered"]

Calls == INSTANCE ScriptCalls WITH fate <- Fate

\* Calls are made in the order in which the script made them, once each,
\* though callbacks append while py_do_all reads (python-tg.c:761-1099).
ImplementsCalls == Calls!Spec

\* safe_quit ends the process with no call unmade and no query unanswered,
\* whenever it was called (python-tg.c:1158-1171, loop.c:334-348).
QuitLosesNoCall == run = "ended" => Waiting = {} /\ queries = {}

\* A queued call is made or dropped in the end, whether or not the calls
\* before it are answered.
QueuedIsMade ==
  \A c \in 1..MaxCalls :
    (run = "up" /\ c \in Waiting) ~> (run # "up" \/ c \notin Waiting)

\* Who refers to o: the script, hook, lists, tuples of calls not over, queries.
Live == {l \in Lists : Alive(l)}
Tuples == Unread \cup ({cur} \ {0})
InTuples(o) == UNION {{i} \X At(o, Tuple(queue[i])) : i \in Tuples}
InQueries(o) == {q \in queries \cup {back} : q.cb = o /\ q.call # CurCall}
Holders(o) ==
  Flag(o \in held) + Flag(o = hook) + Cardinality(InLists(o, Live))
     + Cardinality(InTuples(o)) + Cardinality(InQueries(o))
     - Flag(early /\ queue[cur].cb = o)

\* The count of an object is the number of those who refer to it, plus what
\* the binding forgot to give back, less what it gave back without having it
\* (python-tg.c:53-69, 474-757, 1087-1096; python-types.c:375-940).
CountsAreHolders ==
  run = "up" => \A o \in born : rc[o] + over[o] = Holders(o) + leak[o]

\* What the script, the hook, a query or a list that is there refers to.
InUse ==
  (held \cup {hook} \cup {q.cb : q \in queries}
     \cup UNION {ToSet(Elements[l]) : l \in Live}) \ {NoObject}

\* What the script, a list that is there, the hook or a query refers to is there,
\* unless create_group_chat has given it back more often than the binding leaked it
\* (python-tg.c:1016-1031, 1087-1096).
UsedIsAlive == run = "up" => \A o \in InUse : over[o] <= leak[o] => Alive(o)

\* "Increment reference on cb_extra as it is passed on to the callback to use"
\* (python-tg.c:1089): the callback of a call under way is there to be used.
CallbackIsThere ==
  cur # 0 /\ queue[cur].sound /\ queue[cur].cb # NoObject => Alive(queue[cur].cb)
=============================================================================
