------------------------------- MODULE TgFiles -------------------------------
(***************************************************************************)
(* What telegram-cli keeps over a restart of secret chats: the secret chat *)
(* file, written over in place, item by item, whenever a chat changes, and *)
(* the state file, which says up to which update Telegram need not send    *)
(* again.  The process may end at any time, between two writes too.        *)
(*                                                                         *)
(* An item of a file is what one or more calls of write put there; within  *)
(* it nothing is told apart.  Single calls of write are not cut.           *)
(***************************************************************************)
EXTENDS Naturals, Sequences, FiniteSets, SequencesExt

CONSTANTS
  Chats,     \* secret chats
  ById,      \* the order tgl_peer_iterator_ex visits them in
  Lengths,   \* how long a print_name may be
  ChatOf,    \* the updates Telegram has, in order: the chat each is for
  MaxMade,   \* bound: chats established
  MaxSent,   \* bound: messages sent in a chat
  TornStarts \* bound: whether the starts after a torn save are looked at

ASSUME ChatsAssumption ==
  /\ ById \in Seq(Chats) /\ ToSet(ById) = Chats /\ Len(ById) > 1
  /\ \A i, j \in DOMAIN ById : ById[i] = ById[j] => i = j
  /\ Lengths \subseteq Nat \ {0}
  /\ ChatOf \in Seq(Chats)
  /\ MaxMade \in Nat /\ MaxSent \in Nat
  /\ TornStarts \in BOOLEAN

VARIABLES
  pc,       \* "down", "up", "aborted" by an assertion, "garbled": nonsense read
  chats,    \* TLS: what is known of each chat in state sc_ok
  qts,      \* TLS->qts
  wqts,     \* the static of write_state_file
  pos,      \* read_secret_chat_file: where in the file it reads
  left,     \* and x, the chats it has still to read
  file,     \* the secret chat file
  state,    \* the state file: its qts
  kept,     \* history: what the last save was of that was no part of a load, or
            \* the last of one that came through
  acked,    \* history: for each chat, messages Telegram has acknowledged
  torn,     \* history: the process ended in a save, or in a load that had saved
  made      \* history: how many chats were established

reading == <<pos, left>>
vars == <<pc, chats, qts, wqts, reading, file, state, kept, acked, torn, made>>

-----------------------------------------------------------------------------
(* The secret chat file.                                                   *)

Updates == 1..Len(ChatOf)
\* Of a chat: its numbers, and how long its print_name is.
Known == [in : 0..Len(ChatOf), out : 0..MaxSent, name : Lengths]
Memory == UNION {[S -> Known] : S \in SUBSET Chats}

Item ==
  [is : {"magic", "version"}] \cup [is : {"num"}, num : Nat] \cup
  [is : {"id", "name"}, chat : Chats] \cup [is : {"len"}, chat : Chats, len : Lengths] \cup
  [is : {"rest"}, chat : Chats, in : 0..Len(ChatOf), out : 0..MaxSent]

\* What is written of a chat.
Entry(c, known) ==
  <<[is |-> "id", chat |-> c], [is |-> "len", chat |-> c, len |-> known.name]>>
    \o [i \in 1..known.name |-> [is |-> "name", chat |-> c]]
    \o <<[is |-> "rest", chat |-> c, in |-> known.in, out |-> known.out]>>

\* write_secret_chat: a peer that is no chat, or not in state sc_ok, is left out.
Written(ch, c) == IF c \in DOMAIN ch THEN Entry(c, ch[c]) ELSE <<>>

\* What is written of ch, with num for the number of chats.
Items(ch, num) ==
  <<[is |-> "magic"], [is |-> "version"], [is |-> "num", num |-> num]>>
    \o FlattenSeq([i \in DOMAIN ById |-> Written(ch, ById[i])])

\* A file is opened without O_TRUNC: what is not written over stays.
Over(items, old) ==
  IF Len(items) >= Len(old) THEN items
  ELSE items \o SubSeq(old, Len(items) + 1, Len(old))

Placeholder == 2

\* Mutated form of Saved: the number is not patched at the end.
SavedUnpatched(ch) == Over(Items(ch, Placeholder), file)

\* write_secret_chat_file: the number is patched last.
Saved(ch) == Over(Items(ch, Cardinality(DOMAIN ch)), file)

\* The file if the process ends before that.
CutSaves(ch) ==
  LET items == Items(ch, Placeholder)
  IN {Over(SubSeq(items, 1, k), file) : k \in 0..Len(items)}

\* read_secret_chat.  An item that is not there fails an assertion; one of
\* another kind, or of another chat, is nonsense, which may fail one too.
HasEntry ==
  /\ pos + 1 <= Len(file)
  /\ file[pos + 1].is = "len" => pos + 2 + file[pos + 1].len <= Len(file)

EntryIs(c, known) ==
  /\ pos + 2 + known.name <= Len(file)
  /\ SubSeq(file, pos, pos + 2 + known.name) = Entry(c, known)

\* The names of the chats that were read are together longer than they were in
\* the file: what is saved of these chats is over the next that is to be read.
Outgrown == left > 0 /\ pos <= Len(Items(chats, Placeholder))

TypeOK ==
  /\ pc \in {"down", "up", "aborted", "garbled"}
  /\ chats \in Memory
  /\ {qts, wqts, state} \subseteq 0..Len(ChatOf)
  /\ pos \in Nat
  /\ left \in 0..Len(ById)
  /\ file \in Seq(Item)
  /\ kept \in Memory
  /\ acked \in [Chats -> 0..MaxSent]
  /\ torn \in BOOLEAN
  /\ made \in 0..MaxMade

Nothing == [c \in {} |-> [in |-> 0]]

Init ==
  /\ pc = "down"
  /\ chats = Nothing
  /\ qts = 0 /\ wqts = 0
  /\ pos = 0 /\ left = 0
  /\ file = <<>>
  /\ state = 0
  /\ kept = Nothing
  /\ acked = [c \in Chats |-> 0]
  /\ torn = FALSE /\ made = 0

-----------------------------------------------------------------------------
(* Start and end of the process.                                           *)

\* Mutated form of Start: one chat more is read.
StartReadsOneMore ==
  /\ pc = "down" /\ (torn => TornStarts)
  /\ chats' = Nothing
  /\ qts' = state /\ wqts' = 0
  /\ pos' = 4
  /\ IF file = <<>> THEN pc' = "up" /\ left' = 0
     ELSE IF Len(file) < 3 THEN pc' = "aborted" /\ left' = 0
     ELSE pc' = "up" /\ left' = file[3].num + 1
  /\ UNCHANGED <<file, state, kept, acked, torn, made>>

\* read_state_file, and the head of read_secret_chat_file.
Start ==
  /\ pc = "down" /\ (torn => TornStarts)
  /\ chats' = Nothing
  /\ qts' = state /\ wqts' = 0
  /\ pos' = 4
  /\ IF file = <<>> THEN pc' = "up" /\ left' = 0
     ELSE IF Len(file) < 3 THEN pc' = "aborted" /\ left' = 0
     ELSE pc' = "up" /\ left' = file[3].num
  /\ UNCHANGED <<file, state, kept, acked, torn, made>>

Down ==
  /\ pc' = "down"
  /\ chats' = Nothing
  /\ qts' = 0 /\ wqts' = 0
  /\ pos' = 0 /\ left' = 0

\* The process ends, between two saves.
Crash ==
  /\ pc = "up"
  /\ Down
  /\ torn' = (torn \/ (left > 0 /\ pos > 4))
  /\ UNCHANGED <<file, state, kept, acked, made>>

\* The process ends while it saves ch.
CrashInSave(ch) ==
  /\ file' \in CutSaves(ch)
  /\ Down
  /\ torn' = TRUE
  /\ UNCHANGED <<state, kept>>

With(c, known) == [d \in DOMAIN chats \cup {c} |-> IF d = c THEN known ELSE chats[d]]

\* The name in the file is read and not passed on: the library, which is external,
\* makes the name anew.  It reports each chat it is given as working, on which
\* secret_chat_update_gw saves those read so far, into the same file.
LoadEntry(c, known) ==
  /\ EntryIs(c, known)
  /\ UNCHANGED <<acked, made>>
  /\ \E l \in Lengths :
       LET read == With(c, [known EXCEPT !.name = l])
       IN \/ /\ chats' = read
             /\ pos' = pos + 3 + known.name /\ left' = left - 1
             /\ file' = Saved(read)
             /\ kept' = IF left' = 0 THEN read ELSE kept
             /\ UNCHANGED <<pc, qts, wqts, state, torn>>
          \/ CrashInSave(read)

LoadFails ==
  /\ ~ \E c \in Chats \ DOMAIN chats, known \in Known : EntryIs(c, known)
  /\ pc' \in IF HasEntry THEN {"garbled", "aborted"} ELSE {"aborted"}
  /\ UNCHANGED <<chats, qts, wqts, reading, file, state, kept, acked, torn, made>>

LoadChat ==
  /\ pc = "up" /\ left > 0
  /\ \/ \E c \in Chats \ DOMAIN chats, known \in Known : LoadEntry(c, known)
     \/ LoadFails

-----------------------------------------------------------------------------
(* The process at work.                                                    *)

Running == pc = "up" /\ left = 0

\* A change of what is known of the chats, with its save.
Save(ch) ==
  \/ /\ chats' = ch
     /\ file' = Saved(ch)
     /\ kept' = ch
     /\ UNCHANGED <<pc, reading, state, torn, wqts>>
  \/ CrashInSave(ch)

\* secret_chat_update_gw, TGL_UPDATE_WORKING
Establish(c) ==
  /\ Running /\ c \notin DOMAIN chats
  /\ made < MaxMade /\ made' = made + 1
  /\ \E l \in Lengths : Save(With(c, [in |-> qts, out |-> 0, name |-> l]))
  /\ qts' \in IF pc' = "up" THEN {qts} ELSE {0}
  /\ acked' = [acked EXCEPT ![c] = 0]

\* secret_chat_update_gw, TGL_UPDATE_DELETED
Discard(c) ==
  /\ Running /\ c \in DOMAIN chats
  /\ Save([d \in DOMAIN chats \ {c} |-> chats[d]])
  /\ UNCHANGED made
  /\ qts' \in IF pc' = "up" THEN {qts} ELSE {0}
  /\ acked' = [acked EXCEPT ![c] = 0]

\* Mutated form of Receive: print_message_gw does not save.
ReceiveUnsaved ==
  LET c == ChatOf[qts + 1]
  IN /\ Running /\ qts < Len(ChatOf)
     /\ chats' = IF c \in DOMAIN chats
                   THEN [chats EXCEPT ![c].in = IF @ > qts THEN @ ELSE qts + 1] ELSE chats
     /\ qts' = qts + 1
     /\ UNCHANGED <<pc, wqts, reading, file, state, kept, acked, torn, made>>

\* The next update.  If it is of a chat and new to it, print_message_gw saves;
\* that the library drops what a chat has had before is external.
Receive ==
  LET c == ChatOf[qts + 1]
      new == c \in DOMAIN chats /\ chats[c].in <= qts
  IN /\ Running /\ qts < Len(ChatOf)
     /\ IF new THEN Save([chats EXCEPT ![c].in = qts + 1])
        ELSE UNCHANGED <<pc, chats, wqts, reading, file, state, kept, torn>>
     /\ qts' = IF pc' = "up" THEN qts + 1 ELSE 0
     /\ UNCHANGED <<acked, made>>

\* A message is sent.  Nothing is saved before it is acknowledged.
Send(c) ==
  /\ Running /\ c \in DOMAIN chats
  /\ chats[c].out < MaxSent
  /\ chats' = [chats EXCEPT ![c].out = @ + 1]
  /\ UNCHANGED <<pc, qts, wqts, reading, file, state, kept, acked, torn, made>>

\* Mutated form of Acknowledge: print_msg_success_gw does not save.
AcknowledgeUnsaved(c) ==
  /\ Running /\ c \in DOMAIN chats
  /\ acked[c] < chats[c].out
  /\ acked' = [acked EXCEPT ![c] = @ + 1]
  /\ UNCHANGED <<pc, chats, qts, wqts, reading, file, state, kept, torn, made>>

\* print_msg_success_gw
Acknowledge(c) ==
  /\ Running /\ c \in DOMAIN chats
  /\ acked[c] < chats[c].out
  /\ Save(chats)
  /\ UNCHANGED made
  /\ qts' \in IF pc' = "up" THEN {qts} ELSE {0}
  /\ acked' = IF pc' = "up" THEN [acked EXCEPT ![c] = @ + 1] ELSE acked

\* net_loop after the events of a turn: write_state_file.
EndTurn ==
  /\ Running
  /\ wqts < qts
  /\ wqts' = qts
  /\ state' = qts
  /\ UNCHANGED <<pc, chats, qts, reading, file, kept, acked, torn, made>>

\* Bound: once torn, only the starts that follow are looked at, if TornStarts.
Next ==
  \/ Start
  \/ Crash
  \/ LoadChat
  \/ /\ ~torn
     /\ \/ \E c \in Chats : Establish(c) \/ Discard(c) \/ Send(c) \/ Acknowledge(c)
        \/ Receive
        \/ EndTurn

Spec == Init /\ [][Next]_vars

-----------------------------------------------------------------------------
(* Properties.                                                             *)

SameNumbers(a, b) ==
  /\ DOMAIN a = DOMAIN b
  /\ \A c \in DOMAIN a : a[c].in = b[c].in /\ a[c].out = b[c].out

\* Unless it was cut, a start that comes through reads what was saved, but for
\* the names: the number of chats fits, whatever is left in the file of longer
\* lists before, and though it is written while it is read (loop.c:492-690).
RestartRestores ==
  [][~torn /\ pc' = "up" /\ left' = 0 /\ (pc = "down" \/ left > 0)
       => SameNumbers(chats', kept)]_vars

\* And it comes through, unless a save made while it reads has gone beyond what
\* was read: entries of the same chats, whose names are longer than the ones in
\* the file (loop.c:626, 664; interface.c:3264).
LoadsUnlessOutgrown == pc \in {"aborted", "garbled"} => torn \/ Outgrown

\* No update for a chat is skipped: the state file never says that Telegram
\* need not send again what the chat does not have on disk.  Chats are saved
\* in the turn of the event, before write_state_file (loop.c:350).
StateNotAhead ==
  ~torn => \A c \in DOMAIN kept, u \in 1..state : ChatOf[u] = c => kept[c].in >= u

\* The number of a message that was acknowledged is not used again: a chat
\* that is read at a start is past it (interface.c:2337).
AckedNotSentAgain ==
  ~torn /\ Running => \A c \in DOMAIN chats : chats[c].out >= acked[c]

\* The reader asserts that every chat the file announces is in it
\* (loop.c:626: assert (read (fd, &id, 4) == 4)).
AnnouncedChatsAreThere == pc = "up" /\ left > 0 => HasEntry
=============================================================================
