------------------------------ MODULE TgConsole ------------------------------
(***************************************************************************)
(* The terminal of telegram-cli.  What is typed makes lines for the        *)
(* interpreter, with readline a key at a time, without it from whatever a  *)
(* read returns.  In between the library may ask for strings: a phone      *)
(* number, a code, a password and the like, up to three in a row, each     *)
(* read behind a prompt of its own and all given to one callback.          *)
(*                                                                         *)
(* A key is its number among those typed.  Output between the keys hides   *)
(* the line, or the prompt, and shows it again: nothing else changes.  A   *)
(* bot's hash given with an option is not asked for, and not looked at.    *)
(***************************************************************************)
EXTENDS Naturals, Sequences

CONSTANTS
  MaxKeys,   \* bound: keys typed
  MaxAsks,   \* bound: how often the library asks
  MaxOne,    \* MAX_ONE_STRING_LEN, 511 in the code
  Totals     \* the numbers of strings that may be asked for

ASSUME ConsoleAssumption ==
  {MaxKeys, MaxAsks, MaxOne} \subseteq Nat /\ Totals \subseteq 1..3

VARIABLES
  readline_disabled,     \* option -R
  newlines,              \* the keys that end a line
  typed,                 \* how many have been typed, and how many of them read
  read,
  eof,                   \* nothing more is typed
  term_ev,               \* the event of the terminal is there
  line,                  \* rl_line_buffer, or line_buffer
  saved_line,            \* what deactivate_readline put aside
  read_one_string, one_string, one_string_num, one_string_total_args,
  one_string_cb,         \* the ask whose callback it is
  one_string_results,
  safe_quit,
  ran,                   \* history: the lines the interpreter has run
  asks,                  \* history: how many strings each ask wants
  answers,               \* history: what callbacks have been given
  behind                 \* history: for each key read, the ask whose prompt was there, or 0

keys    == <<newlines, typed, read, eof, term_ev>>
rl      == <<line, saved_line>>
prompt  == <<read_one_string, one_string, one_string_num, one_string_total_args,
             one_string_cb, one_string_results>>
consoleVars ==
  <<readline_disabled, keys, rl, prompt, safe_quit, ran, asks, answers, behind>>

Keys == 1..MaxKeys

ConsoleTypeOK ==
  /\ {readline_disabled, eof, term_ev, read_one_string, safe_quit} \subseteq BOOLEAN
  /\ typed \in 0..MaxKeys /\ read \in 0..typed /\ newlines \subseteq 1..typed
  /\ {line, saved_line, one_string} \subseteq Seq(Keys)
  /\ one_string_num \in 0..3 /\ one_string_total_args \in 0..3
  /\ one_string_cb \in 0..Len(asks)
  /\ one_string_results \in [1..3 -> Seq(Keys)]
  /\ ran \in Seq(Seq(Keys))
  /\ asks \in Seq(Totals)
  /\ answers \in Seq([ask : 1..Len(asks), strings : Seq(Seq(Keys))])
  /\ behind \in Seq(0..Len(asks)) /\ Len(behind) = read

ConsoleInit ==
  /\ readline_disabled \in BOOLEAN
  /\ newlines = {} /\ typed = 0 /\ read = 0 /\ eof = FALSE /\ term_ev = TRUE
  /\ line = <<>> /\ saved_line = <<>>
  /\ read_one_string = FALSE /\ one_string = <<>>
  /\ one_string_num = 0 /\ one_string_total_args = 0 /\ one_string_cb = 0
  /\ one_string_results = [i \in 1..3 |-> <<>>]
  /\ safe_quit = FALSE
  /\ ran = <<>> /\ asks = <<>> /\ answers = <<>> /\ behind = <<>>

Type(isNewline) ==
  /\ ~eof /\ typed < MaxKeys
  /\ typed' = typed + 1
  /\ newlines' = IF isNewline THEN newlines \cup {typed + 1} ELSE newlines
  /\ UNCHANGED <<readline_disabled, read, eof, term_ev, rl, prompt, safe_quit, ran, asks,
                 answers, behind>>

Close ==
  /\ ~eof
  /\ eof' = TRUE
  /\ UNCHANGED <<readline_disabled, newlines, typed, read, term_ev, rl, prompt, safe_quit,
                 ran, asks, answers, behind>>

-----------------------------------------------------------------------------
(* Lines for the interpreter.                                              *)

\* Of keys one after another: the lines that are whole, and what is left, with
\* one key more.
WithKey(s, k, ends) ==
  IF k \in ends THEN [whole |-> Append(s.whole, s.left), left |-> <<>>]
  ELSE [whole |-> s.whole, left |-> Append(s.left, k)]

\* What the next n keys make of the line.
Scanned(n) ==
  LET s[i \in 0..n] == IF i = 0 THEN [whole |-> <<>>, left |-> line]
                       ELSE WithKey(s[i - 1], read + i, newlines)
  IN s[n]

\* stdin_read_callback while no prompt is there: readline reads one key, a read
\* as many as there are, or fewer.
ReadLines(n) ==
  /\ term_ev /\ ~read_one_string
  /\ read + n <= typed
  /\ readline_disabled \/ n = 1
  /\ ran' = ran \o Scanned(n).whole
  /\ line' = Scanned(n).left
  /\ read' = read + n
  /\ behind' = behind \o [i \in 1..n |-> 0]
  /\ UNCHANGED <<readline_disabled, newlines, typed, eof, term_ev, saved_line, prompt,
                 safe_quit, asks, answers>>

\* The end of what is typed.  readline runs a line that is not empty, and then
\* calls the interpreter with none; without it, or behind a prompt, the event
\* is freed at the end of the turn.
EndOfInput ==
  /\ eof /\ read = typed /\ term_ev
  /\ IF readline_disabled \/ read_one_string
     THEN term_ev' = FALSE /\ UNCHANGED <<line, ran, safe_quit>>
     ELSE /\ IF line = <<>> THEN safe_quit' = TRUE /\ UNCHANGED ran
             ELSE ran' = Append(ran, line) /\ UNCHANGED safe_quit
          /\ line' = <<>>
          /\ UNCHANGED term_ev
  /\ UNCHANGED <<readline_disabled, newlines, typed, read, eof, saved_line, prompt, asks,
                 answers, behind>>

-----------------------------------------------------------------------------
(* Strings for the library.                                                *)

\* Mutated form of deactivate_readline: the line is put aside behind a prompt
\* too.
deactivate_always ==
  IF readline_disabled THEN UNCHANGED rl
  ELSE saved_line' = line /\ line' = <<>>

\* Without readline its line is empty, and line_buffer another.
deactivate_readline ==
  IF read_one_string \/ readline_disabled THEN UNCHANGED rl
  ELSE saved_line' = line /\ line' = <<>>

\* do_get_values, with do_get_string.  A prompt that is there goes, with its
\* callback and what was typed for it.
do_get_values(total) ==
  /\ Len(asks) < MaxAsks
  /\ asks' = Append(asks, total)
  /\ one_string_cb' = Len(asks) + 1
  /\ one_string_num' = 0
  /\ one_string_total_args' = total
  /\ deactivate_readline
  /\ read_one_string' = TRUE
  /\ one_string' = <<>>
  /\ UNCHANGED <<readline_disabled, keys, one_string_results, safe_quit, ran, answers, behind>>

ReadKey ==
  /\ term_ev /\ read_one_string
  /\ read < typed
  /\ read' = read + 1
  /\ behind' = Append(behind, one_string_cb)

\* A key of a string; there may be no room for it.
ReadPromptKey ==
  /\ ReadKey
  /\ read + 1 \notin newlines
  /\ one_string' = IF Len(one_string) < MaxOne THEN Append(one_string, read + 1) ELSE one_string
  /\ UNCHANGED <<readline_disabled, newlines, typed, eof, term_ev, rl, read_one_string,
                 one_string_num, one_string_total_args, one_string_cb, one_string_results,
                 safe_quit, ran, asks, answers>>

Results == [one_string_results EXCEPT ![one_string_num + 1] = one_string]

\* one_string_read_end, with another string to come: the line is shown and put
\* aside again.
NextString ==
  /\ ReadKey
  /\ read + 1 \in newlines
  /\ one_string_num + 1 < one_string_total_args
  /\ one_string_results' = Results
  /\ one_string_num' = one_string_num + 1
  /\ one_string' = <<>>
  /\ UNCHANGED <<readline_disabled, newlines, typed, eof, term_ev, rl, read_one_string,
                 one_string_total_args, one_string_cb, safe_quit, ran, asks, answers>>

\* one_string_read_end, with the last one.  The callback may ask again, for as
\* many strings, before it returns.
LastString ==
  /\ ReadKey
  /\ read + 1 \in newlines
  /\ one_string_num + 1 = one_string_total_args
  /\ one_string_results' = Results
  /\ answers' = Append(answers, [ask |-> one_string_cb,
                                 strings |-> SubSeq(Results, 1, one_string_total_args)])
  /\ \/ /\ read_one_string' = FALSE
        /\ one_string_num' = one_string_num + 1
        /\ IF readline_disabled THEN UNCHANGED line ELSE line' = saved_line
        /\ UNCHANGED <<one_string, one_string_cb, asks, saved_line>>
     \/ /\ Len(asks) < MaxAsks
        /\ asks' = Append(asks, one_string_total_args)
        /\ one_string_cb' = Len(asks) + 1
        /\ one_string_num' = 0
        /\ one_string' = <<>>
        /\ UNCHANGED <<read_one_string, rl>>
  /\ UNCHANGED <<readline_disabled, newlines, typed, eof, term_ev, one_string_total_args,
                 safe_quit, ran>>

ConsoleNext ==
  \/ \E b \in BOOLEAN : Type(b)
  \/ Close
  \/ \E n \in Keys : ReadLines(n)
  \/ EndOfInput
  \/ \E total \in Totals : do_get_values(total)
  \/ ReadPromptKey \/ NextString \/ LastString

ConsoleSpec == ConsoleInit /\ [][ConsoleNext]_consoleVars

-----------------------------------------------------------------------------
(* Properties.                                                             *)

\* The keys read behind the prompts of an ask, or behind none, cut into lines.  Which
\* prompt a key is behind is settled when it is read, not when it is typed.
Typed(a) ==
  LET s[k \in 0..read] == IF k = 0 THEN [whole |-> <<>>, left |-> <<>>]
                          ELSE IF behind[k] = a THEN WithKey(s[k - 1], k, newlines)
                          ELSE s[k - 1]
  IN s[read]

\* The interpreter runs the lines that were read while no prompt was there, cut
\* where they were ended and nowhere else, though prompts came in the middle of
\* them; and the line that is not ended is still there, or put aside.
LinesAreWhatWasTyped ==
  LET s    == Typed(0)
      kept == IF read_one_string /\ ~readline_disabled THEN saved_line ELSE line
  IN \/ ran = s.whole /\ kept = s.left
     \/ eof /\ ran = Append(s.whole, s.left) /\ kept = <<>>

Cut(s) == SubSeq(s, 1, IF Len(s) < MaxOne THEN Len(s) ELSE MaxOne)

\* A callback gets as many strings as it asked for, those read behind its own
\* prompts, and it gets them once, though prompts replace one another and
\* callbacks ask again.
AnswersAreWhatWasTyped ==
  /\ \A i \in DOMAIN answers :
       LET a == answers[i]
           s == Typed(a.ask)
       IN Len(a.strings) = asks[a.ask] /\ a.strings = [j \in DOMAIN s.whole |-> Cut(s.whole[j])]
  /\ \A i, j \in DOMAIN answers : answers[i].ask = answers[j].ask => i = j

\* Each key goes to the line or the prompt that was there when it was read
\* (loop.c:131-306, interface.c:3729-3762).
KeysGoWhereTyped == LinesAreWhatWasTyped /\ AnswersAreWhatWasTyped
=============================================================================
