----------------------------- MODULE TgCommands -----------------------------
(****************************************************************************)
(* interpreter_ex of telegram-cli: how a line becomes a call of a command's *)
(* handler.  After the modifiers and the name it goes through the command's *)
(* pattern and the words of the line side by side, one step of the loop a   *)
(* step here; a word that does not fit an optional or a repeated argument   *)
(* is tried again with the next one, and nothing is ever tried back.        *)
(*                                                                         *)
(* A word is given by what it can be read as.  Channels and secret chats    *)
(* are parsed as chats are, and file names as strings.                      *)
(***************************************************************************)
EXTENDS Naturals, Sequences, SequencesExt

CONSTANTS
  Names,    \* the commands that are looked at
  Lines,    \* the words that may follow a name
  Heads,    \* and those that may be there instead of, or before, it
  MaxArgs   \* bound: the room in args, 1000 in the code

VARIABLES
  command,  \* the command of the line
  line_ptr, \* the words not yet read
  flags,    \* where in the pattern it is
  args,     \* what the arguments have been read as
  outcome,  \* what has come of the line
  words     \* history: the words that followed the name

commandsVars == <<command, line_ptr, flags, args, outcome, words>>

Word == [quoted : BOOLEAN, closed : BOOLEAN, is : SUBSET {"user", "chat", "peer", "msg_id", "number"}]
Mark == [head : {"modifier", "[", "name", "("}]

-----------------------------------------------------------------------------
(* The table of the commands: of those with one pattern, one.               *)

One(k)   == [is |-> k, opt |-> FALSE]
Maybe(k) == [is |-> k, opt |-> TRUE]

args_of ==
  [stats             |-> <<>>,
   user_info         |-> <<One("user")>>,
   mark_read         |-> <<One("peer")>>,
   add_contact       |-> <<One("string"), One("string"), One("string")>>,
   broadcast         |-> <<One("user"), One("period"), One("string_end")>>,
   chat_add_user     |-> <<One("chat"), One("user"), Maybe("number")>>,
   channel_set_admin |-> <<One("chat"), One("user"), One("number")>>,
   channel_set_about |-> <<One("chat"), One("string")>>,
   create_channel    |-> <<One("string"), One("string"), Maybe("user"), One("period")>>,
   create_group_chat |-> <<One("string"), One("user"), One("period")>>,
   dialog_list       |-> <<Maybe("number"), Maybe("number")>>,
   fwd               |-> <<One("peer"), One("msg_id"), One("period")>>,
   fwd_media         |-> <<One("peer"), One("msg_id")>>,
   help              |-> <<Maybe("string")>>,
   history           |-> <<One("peer"), Maybe("number"), Maybe("number")>>,
   msg               |-> <<One("peer"), One("string_end")>>,
   msg_kbd           |-> <<One("peer"), One("string"), One("string_end")>>,
   reply_audio       |-> <<One("msg_id"), One("string")>>,
   search            |-> <<Maybe("peer"), Maybe("number"), Maybe("number"), Maybe("number"),
                           Maybe("number"), One("string_end")>>,
   send_photo        |-> <<One("peer"), One("string"), Maybe("string_end")>>,
   set               |-> <<One("string"), One("number")>>,
   start_bot         |-> <<One("user"), One("chat"), One("string")>>]

\* What is known of the lines; a name ends what may be there before the words.
ASSUME CommandsAssumption ==
  /\ Names \subseteq DOMAIN args_of /\ Lines \subseteq Seq(Word) /\ MaxArgs \in Nat
  /\ \A h \in Heads : h \in Seq(Mark) /\ \A i \in DOMAIN h : h[i].head = "name" => i = Len(h)

Expected(i) == IF i \in DOMAIN args_of[command] THEN args_of[command][i] ELSE One("none")

\* What the handler asserts of arg_num.
Asserted(c, n) ==
  CASE c = "fwd"                           -> n >= 2
    [] c \in {"broadcast", "create_group_chat"} -> n >= 1
    [] c = "create_channel"                -> n >= 2
    [] c \in {"send_photo", "reply_audio"} -> n >= 2
    [] c = "dialog_list"                   -> n <= 2
    [] OTHER                               -> n = Len(args_of[c])

CommandsTypeOK ==
  /\ command \in Names
  /\ line_ptr \in Seq(Word \cup Mark)
  /\ flags \in 1..11
  /\ outcome \in {"line", "head", "nothing", "unknown", "extf", "reading", "ran", "refused",
                  "dropped", "aborted"}
  /\ words \in Lines

CommandsInit ==
  /\ command \in Names
  /\ words \in Lines
  /\ \E head \in Heads : line_ptr = head \o words
  /\ flags = 1
  /\ args = <<>>
  /\ outcome = "line"

-----------------------------------------------------------------------------
(* The head of the line.                                                    *)

AtHead(marks) ==
  /\ outcome \in {"line", "head"}
  /\ line_ptr # <<>> /\ line_ptr[1] \in [head : marks]

\* An empty line.
EmptyLine ==
  /\ outcome = "line" /\ line_ptr = <<>>
  /\ outcome' = "nothing"
  /\ UNCHANGED <<command, line_ptr, flags, args, words>>

\* A line that begins with (: callback_extf gets it as it is.
Extf ==
  /\ outcome = "line" /\ AtHead({"("})
  /\ outcome' = "extf"
  /\ UNCHANGED <<command, line_ptr, flags, args, words>>

\* A modifier, such as [offline] or [reply=7].
Modifier ==
  /\ AtHead({"modifier"})
  /\ line_ptr' = Tail(line_ptr)
  /\ outcome' = "head"
  /\ UNCHANGED <<command, flags, args, words>>

\* "can not parse modifier", "can not find command"; behind a modifier a ( begins
\* the name of a command like any other character.
BadHead ==
  /\ \/ /\ outcome \in {"line", "head"}
        /\ line_ptr # <<>> /\ line_ptr[1] \notin [head : {"modifier", "name", "("}]
     \/ outcome = "head" /\ (line_ptr = <<>> \/ AtHead({"("}))
  /\ outcome' = "unknown"
  /\ UNCHANGED <<command, line_ptr, flags, args, words>>

Name ==
  /\ AtHead({"name"})
  /\ line_ptr' = Tail(line_ptr)
  /\ outcome' = "reading"
  /\ UNCHANGED <<command, flags, args, words>>

-----------------------------------------------------------------------------
(* The loop over the arguments.                                             *)

\* flags steps back from a period to the argument that is repeated.
here   == IF Expected(flags).is = "period" THEN flags - 1 ELSE flags
op     == Expected(here).is
opt    == Expected(here).opt
period == op # "none" /\ Expected(here + 1).is = "period"
AtEnd  == line_ptr = <<>>
word   == line_ptr[1]

strings == {"string", "string_end"}
Loop == outcome = "reading" /\ Len(args) < MaxArgs

Finish(s) ==
  /\ outcome' = s
  /\ UNCHANGED <<command, line_ptr, flags, args, words>>

Go(next, rest, more) ==
  /\ flags' = next /\ line_ptr' = rest /\ args' = args \o more
  /\ UNCHANGED <<command, outcome, words>>

\* assert (args_num < 1000)
TooMany ==
  /\ outcome = "reading" /\ Len(args) = MaxArgs
  /\ Finish("aborted")

\* The pattern is at its end.
PatternEnds ==
  /\ Loop /\ op = "none"
  /\ Finish(IF AtEnd THEN "ran" ELSE "refused")

\* The rest of the line is one string: what follows the last argument, quoted
\* or not.  It may be empty.
TakeRest ==
  /\ Loop /\ op = "string_end"
  /\ IF ~AtEnd /\ word.quoted /\ (~word.closed \/ Len(line_ptr) > 1)
     THEN Finish("refused")
     ELSE /\ args' = Append(args, "string_end")
          /\ line_ptr' = <<>>
          /\ outcome' = "ran"
          /\ UNCHANGED <<command, flags, words>>

\* The line ends where an argument may be repeated: whatever the pattern has
\* after it, the handler is called.
EndOfRepeated ==
  /\ Loop /\ op \notin {"none", "string_end"}
  /\ period /\ AtEnd
  /\ Finish("ran")

\* No word for the argument, or a quoted one for one that cannot be: an optional
\* one is put in as missing, a repeated one passed, and otherwise the line is
\* dropped without a message.
Missing ==
  /\ Loop /\ op \notin {"none"} \cup strings
  /\ ~AtEnd => word.quoted
  /\ ~(period /\ AtEnd)
  /\ IF opt THEN Go(here + 1, line_ptr, <<"missing">>)
     ELSE IF period THEN Go(here + 2, line_ptr, <<>>)
     ELSE Finish("dropped")

\* Mutated form of NoFit: the word is not put back.
NoFitEatsWord ==
  /\ Loop /\ op \notin {"none"} \cup strings
  /\ ~AtEnd /\ ~word.quoted /\ op \notin word.is
  /\ IF period THEN Go(here + 2, Tail(line_ptr), <<>>)
     ELSE IF opt THEN Go(here + 1, Tail(line_ptr), <<"missing">>)
     ELSE Finish("refused")

\* The word is not of the kind.
NoFit ==
  /\ Loop /\ op \notin {"none"} \cup strings
  /\ ~AtEnd /\ ~word.quoted /\ op \notin word.is
  /\ IF period THEN Go(here + 2, line_ptr, <<>>)
     ELSE IF opt THEN Go(here + 1, line_ptr, <<"missing">>)
     ELSE Finish("refused")

Take ==
  /\ Loop /\ op \notin {"none"} \cup strings
  /\ ~AtEnd /\ ~word.quoted /\ op \in word.is
  /\ Go(here + 1, Tail(line_ptr), <<op>>)

\* A word or a quoted string.
TakeString ==
  /\ Loop /\ op = "string"
  /\ ~(period /\ AtEnd)
  /\ IF AtEnd \/ ~word.closed
     THEN IF opt THEN Go(here + 1, IF AtEnd THEN line_ptr ELSE Tail(line_ptr), <<"missing">>)
          ELSE Finish("refused")
     ELSE Go(here + 1, Tail(line_ptr), <<"string">>)

CommandsNext ==
  \/ EmptyLine \/ Extf \/ Modifier \/ BadHead \/ Name
  \/ TooMany \/ PatternEnds \/ TakeRest \/ EndOfRepeated
  \/ Missing \/ NoFit \/ Take \/ TakeString

CommandsSpec == CommandsInit /\ [][CommandsNext]_commandsVars

-----------------------------------------------------------------------------
(* Properties.                                                             *)

\* Whether a word can be an argument.
Fits(k, w) == IF k = "string" THEN w.closed ELSE ~w.quoted /\ k \in w.is

\* How many arguments of a kind the words from j on can be.
Many(k, list, j) == {m \in 0..(Len(list) + 1 - j) : \A x \in 1..m : Fits(k, list[j + x - 1])}

\* What may be made, from each word on, by a pattern that is at its end.
AtItsEnd(list) == [j \in 1..(Len(list) + 1) |-> IF j > Len(list) THEN {<<>>} ELSE {}]

\* By a pattern that is at an item, if after and later are what may be made by
\* what comes one and two items behind it.
Makes(pattern, list, i, after, later) ==
  LET k == pattern[i].is
      n == Len(list)
  IN [j \in 1..(n + 1) |->
        IF k = "string_end"
        THEN IF j > n \/ ~list[j].quoted \/ (list[j].closed /\ j = n) THEN {<<k>>} ELSE {}
        ELSE IF i < Len(pattern) /\ pattern[i + 1].is = "period"
        THEN UNION {{[x \in 1..m |-> k] \o rest : rest \in later[j + m]} : m \in Many(k, list, j)}
        ELSE (IF j <= n /\ Fits(k, list[j])
              THEN {<<k>> \o rest : rest \in after[j + 1]} ELSE {})
             \cup (IF pattern[i].opt
                   THEN {<<"missing">> \o rest : rest \in after[j]} ELSE {})]

\* The lists of arguments that a pattern may make of some words, what is repeated
\* being there any number of times.
Allowed(pattern, list) ==
  LET n == Len(pattern)
      D[i \in 1..(n + 2)] == IF i > n THEN AtItsEnd(list)
                             ELSE Makes(pattern, list, i, D[i + 1], D[i + 2])
  IN D[1][1]

\* What the help text declares: <user>+ is one or more.
Declared(pattern, list) ==
  {a \in Allowed(pattern, list) :
     \A i \in DOMAIN pattern : pattern[i].is = "period" =>
       \E x \in DOMAIN a : a[x] = pattern[i - 1].is}

\* The lines that leave nothing to be repeated: they end before it, or, where a
\* text comes after it, that is what is there.
NoneRepeated(c, list) ==
  \E i \in DOMAIN args_of[c] :
    /\ args_of[c][i].is = "period"
    /\ Len(list) < i - 1 \/ (c = "broadcast" /\ ~Fits("user", list[1]))

\* The loop never goes back, and yet it finds what the help text declares
\* (interface.c:3520-3700, 1655-1777): a line is turned down only if no list of
\* arguments that is declared for its words begins with what has been read, and a
\* handler runs on such a list, but for two kinds of lines, which it is called for
\* all the same.  One leaves nothing for an argument that is to be there once or more
\* (fwd, create_group_chat, create_channel and broadcast, 3566): that argument is
\* not there then.  The other is a broadcast of which every word is a user: it has
\* no text.  Of lines whose quotes are closed; and the room in args runs out only
\* for lines that need it, or at a quoted word where create_channel may have a user,
\* which is put in as missing again and again.
ArgumentsAreDeclared ==
  LET pattern  == args_of[command]
      declared == Declared(pattern, words)
  IN (\A i \in DOMAIN words : words[i].closed) =>
       /\ outcome = "ran" =>
            \/ args \in declared
            \/ args \in Allowed(pattern, words) /\ NoneRepeated(command, words)
            \/ command = "broadcast" /\ args = [x \in DOMAIN words |-> "user"]
       /\ outcome \in {"refused", "dropped"} => \A list \in declared : ~IsPrefix(args, list)
       /\ outcome = "aborted" =>
            \/ MaxArgs <= Len(words) + Len(pattern)
            \/ command = "create_channel" /\ \E i \in 3..Len(words) : words[i].quoted

\* Each handler asserts that it is given as many arguments as it goes on to
\* read (interface.c:975: assert (arg_num >= 2)).
HandlersAssertionsHold == outcome = "ran" => Asserted(command, Len(args))
=============================================================================
