------------------------------ MODULE MCTgLoop ------------------------------
(***************************************************************************)
(* Parts of telegram-cli that one loop turns and that share no state: the  *)
(* files, the terminal, the list of messages marked read, the bytes of a   *)
(* socket and the arguments of a command, with values for their constants. *)
(* A behaviour is one of one part.  What is named after no part is of the  *)
(* files, or of the marks.                                                 *)
(***************************************************************************)
EXTENDS Integers, TgFiles, TgMarks, TgConsole, TgCommands

VARIABLES
  part,                                 \* the part that runs
  breaks, sent, arrived, gone, in_buf_pos, error, done

-----------------------------------------------------------------------------
(* Files; and messages of three peers, of which one is a channel.           *)

MCChats == {"a", "b"}
MCById == <<"a", "b">>
MCChatOf == <<"a", "b", "a">>

MCPeerOf == <<"u", "u", "v", "c">>

Socket == INSTANCE TgLines WITH
  MaxBytes <- 7, Size <- 3, newlines <- breaks, ran <- done

-----------------------------------------------------------------------------
(* Commands: a user, a chat, a number, which may be a message's too, a word *)
(* that is none of these, a quoted string, and one that is not closed.       *)

W(is) == [quoted |-> FALSE, closed |-> TRUE, is |-> is]
MCQuoted == [quoted |-> TRUE, closed |-> TRUE, is |-> {}]
MCWords ==
  {W({"user", "peer"}), W({"chat", "peer"}), W({"number", "msg_id"}), W({}), MCQuoted}

MCLines ==
  LET closed == UNION {[1..n -> MCWords] : n \in 0..4}
  IN closed \cup {Append(l, [MCQuoted EXCEPT !.closed = FALSE]) : l \in {c \in closed : Len(c) < 3}}

\* What comes before the words: also nothing, a bad modifier, and a query.
H(h) == [head |-> h]
MCHeads ==
  {<<>>, <<H("name")>>, <<H("modifier"), H("name")>>, <<H("[")>>, <<H("(")>>,
   <<H("modifier"), H("(")>>}

ASSUME LoopAssumption == Socket!LinesAssumption

-----------------------------------------------------------------------------
linesVars == <<breaks, sent, arrived, gone, in_buf_pos, error, done>>
loopVars == <<part, vars, consoleVars, marksVars, linesVars, commandsVars>>

\* The parts that do not run have one state each.
LoopInit ==
  /\ part \in {"files", "console", "marks", "lines", "commands"}
  /\ Init
  /\ ConsoleInit /\ (part # "console" => ~readline_disabled)
  /\ MarksInit /\ (part # "marks" => ~enable_json /\ log_level = 0)
  /\ Socket!Init
  /\ IF part = "commands" THEN CommandsInit
     ELSE command = "" /\ line_ptr = <<>> /\ flags = 1 /\ args = <<>> /\ outcome = "" /\ words = <<>>

FilesOnly ==
  part = "files" /\ UNCHANGED <<part, consoleVars, marksVars, linesVars, commandsVars>>
ConsoleOnly ==
  part = "console" /\ UNCHANGED <<part, vars, marksVars, linesVars, commandsVars>>
MarksOnly ==
  part = "marks" /\ UNCHANGED <<part, vars, consoleVars, linesVars, commandsVars>>
LinesOnly ==
  part = "lines" /\ UNCHANGED <<part, vars, consoleVars, marksVars, commandsVars>>
CommandsOnly ==
  part = "commands" /\ UNCHANGED <<part, vars, consoleVars, marksVars, linesVars>>

LoopNext ==
  \/ FilesOnly /\ Next
  \/ ConsoleOnly /\ ConsoleNext
  \/ MarksOnly /\ MarksNext
  \/ LinesOnly /\ Socket!Next
  \/ CommandsOnly /\ CommandsNext

LoopSpec == LoopInit /\ [][LoopNext]_loopVars

\* The property of the socket, under its name.
FittingLinesRun == Socket!FittingLinesRun
=============================================================================
