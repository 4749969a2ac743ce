------------------------------- MODULE TgLines -------------------------------
(***************************************************************************)
(* The bytes of a socket connection on their way to the interpreter:       *)
(* libevent's buffer, and in_buf, which a line must fit into.  A byte is   *)
(* its number among those sent.  in_buf holds consecutive bytes, the first *)
(* of a line in front, so a line that is run is known by its newline.      *)
(***************************************************************************)
EXTENDS Naturals, Sequences, SequencesExt

CONSTANTS
  MaxBytes,   \* bound: bytes sent
  Size        \* the room in in_buf, 4096 in the code

LinesAssumption == MaxBytes \in Nat /\ Size \in Nat \ {0}

VARIABLES
  newlines,     \* the bytes that end a line
  sent,         \* how many bytes have been sent, and how many have arrived
  arrived,
  gone,         \* how many bytes have left in_buf,
  in_buf_pos,   \* and how many are in it; libevent has the others
  error,
  ran           \* history: the newlines of the lines the interpreter has run

vars == <<newlines, sent, arrived, gone, in_buf_pos, error, ran>>

Bytes == 1..MaxBytes

TypeOK ==
  /\ sent \in 0..MaxBytes /\ arrived \in 0..sent /\ newlines \subseteq 1..sent
  /\ gone \in 0..arrived
  /\ in_buf_pos \in 0..Size /\ gone + in_buf_pos <= arrived
  /\ error \in BOOLEAN
  /\ ran \in Seq(newlines)

Init ==
  /\ newlines = {} /\ sent = 0 /\ arrived = 0
  /\ gone = 0 /\ in_buf_pos = 0
  /\ error = FALSE
  /\ ran = <<>>

Send(isNewline) ==
  /\ sent < MaxBytes
  /\ sent' = sent + 1
  /\ newlines' = IF isNewline THEN newlines \cup {sent + 1} ELSE newlines
  /\ UNCHANGED <<arrived, gone, in_buf_pos, error, ran>>

-----------------------------------------------------------------------------
(* read_incoming.                                                          *)

\* Where in_buf ends once it is filled, of the bytes to here, after gone g.
Filled(g, here) == IF here < g + Size THEN here ELSE g + Size

LastOf(S) == CHOOSE b \in S : \A c \in S : c <= b

\* Mutated form of Rounds: what is read after the lines waits for the next call.
OneRound(here) ==
  LET ends == newlines \cap ((gone + 1)..Filled(gone, here))
  IN IF ends = {} THEN gone ELSE LastOf(ends)

\* What has left in_buf at the end: all lines in it are run, which makes room
\* for more, and so on until there is none in it.
Rounds(here) ==
  LET round[g \in 0..MaxBytes] ==
        LET ends == newlines \cap ((g + 1)..Filled(g, here))
        IN IF ends = {} THEN g ELSE round[LastOf(ends)]
  IN round[gone]

InOrder(S) == SelectSeq([b \in Bytes |-> b], LAMBDA b : b \in S)

\* n bytes arrive, and read_incoming is called.  After an error the first
\* newline ends what was passed over.
Arrive(n) ==
  /\ arrived + n <= sent
  /\ arrived' = arrived + n
  /\ gone' = Rounds(arrived + n)
  /\ in_buf_pos' = Filled(gone', arrived') - gone'
  /\ LET lines == InOrder(newlines \cap ((gone + 1)..gone'))
     IN /\ ran' = ran \o IF error /\ lines # <<>> THEN Tail(lines) ELSE lines
        /\ error' = ((error /\ lines = <<>>) \/ in_buf_pos' = Size)
  /\ UNCHANGED <<newlines, sent>>

Next ==
  \/ \E b \in BOOLEAN : Send(b)
  \/ \E n \in Bytes : Arrive(n)

-----------------------------------------------------------------------------
(* Properties.                                                             *)

\* The line that ends with b fits in the buffer with its newline.
Fits(b) == \E c \in newlines \cup {0} : c < b /\ b - c <= Size

\* A line is run in its turn, once, with the call that its newline arrives in,
\* however the bytes are cut, if it and the lines before it fit in the buffer with
\* their newlines.  One that does not fit ends all progress: the buffer stays full
\* (read_incoming, loop.c:688-722).
FittingLinesRun ==
  \A b \in newlines :
    b <= arrived /\ (\A c \in newlines : c <= b => Fits(c))
      => IsPrefix(InOrder({c \in newlines : c <= b}), ran)
=============================================================================
