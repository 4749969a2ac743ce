------------------------------- MODULE TgMarks -------------------------------
(***************************************************************************)
(* Messages that have been marked read are not reported one by one: they   *)
(* wait in a list, for a timer of a second or for the list to be full, and *)
(* are then counted by who they were exchanged with.                       *)
(*                                                                         *)
(* Those marked read while the state is loaded, or while log_level is      *)
(* below 1, are passed over.  A report in text knows users, chats and      *)
(* secret chats: at a message of another kind of peer, a channel, its      *)
(* assert (0) ends the process.                                            *)
(*                                                                         *)
(* That the messages are still there when they are counted is the TGL      *)
(* library's doing: the list holds pointers.                               *)
(***************************************************************************)
EXTENDS Naturals, Sequences, SequencesExt, FiniteSets

CONSTANTS
  Messages,   \* messages
  Peers,      \* those they were exchanged with
  Printed,    \* those of them that are users, chats or secret chats
  PeerOf,     \* a message's: to_id, or from_id if it is to ourselves
  MaxList,    \* MAX_UNREAD_MESSAGE_COUNT, 10000 in the code
  MaxBatch    \* bound: messages marked by one update

ASSUME MarksAssumption ==
  /\ PeerOf \in [Messages -> Peers] /\ Printed \subseteq Peers
  /\ {MaxList, MaxBatch} \subseteq Nat

VARIABLES
  enable_json,           \* option --json
  binlog_read,           \* the state has been loaded
  log_level,             \* 1 stands for all there is above it
  unread_message_list,
  unread_message_event,  \* the timer runs
  aborted,               \* assert (0) has ended the process
  counted,               \* history: for each peer, messages counted in reports
  named,                 \* history: messages a report in JSON has named
  marked,                \* history: messages marked read and taken
  passed                 \* history: messages marked read and passed over

levelVars == <<enable_json, binlog_read, log_level>>
marksVars == <<levelVars, unread_message_list, unread_message_event, aborted, counted, named,
               marked, passed>>

MarksTypeOK ==
  /\ {enable_json, binlog_read, aborted} \subseteq BOOLEAN
  /\ log_level \in {0, 1}
  /\ unread_message_list \in Seq(Messages) /\ Len(unread_message_list) <= MaxList
  /\ unread_message_event \in BOOLEAN
  /\ counted \in [Peers -> Nat]
  /\ named \subseteq Messages
  /\ marked \subseteq Messages /\ passed \subseteq Messages

MarksInit ==
  /\ enable_json \in BOOLEAN
  /\ binlog_read = FALSE
  /\ log_level \in {0, 1}
  /\ unread_message_list = <<>>
  /\ unread_message_event = FALSE
  /\ counted = [p \in Peers |-> 0]
  /\ aborted = FALSE
  /\ named = {} /\ marked = {} /\ passed = {}

\* The state is loaded, and the loop begins.
Loaded ==
  /\ ~binlog_read
  /\ binlog_read' = TRUE
  /\ UNCHANGED <<enable_json, log_level, unread_message_list, unread_message_event, aborted,
                 counted, named, marked, passed>>

\* set log_level: what waits goes on waiting.
do_set(num) ==
  /\ binlog_read /\ ~aborted
  /\ log_level' = num
  /\ UNCHANGED <<enable_json, binlog_read, unread_message_list, unread_message_event, aborted,
                 counted, named, marked, passed>>

\* print_read_list, of one list and then of another: a peer's first message is found, and
\* those after it that are the same peer's are counted with it and struck out.
\* In JSON only the first is printed.  In text the report ends at the first message of a
\* peer it does not know, and the process with it: those counted up to there are printed.
Of(list, p) == {i \in DOMAIN list : PeerOf[list[i]] = p}

Firsts(list) == {list[i] : i \in {j \in DOMAIN list : \A k \in 1..(j - 1) :
                                                      PeerOf[list[k]] # PeerOf[list[j]]}}

AllPrinted(list) == \A i \in DOMAIN list : PeerOf[list[i]] \in Printed

Total(list, p) ==
  IF \E i \in Of(list, p) : \A k \in 1..i : PeerOf[list[k]] \in Printed
  THEN Cardinality(Of(list, p)) ELSE 0

print_read_lists(list, other) ==
  IF enable_json
  THEN named' = named \cup Firsts(list) \cup Firsts(other) /\ UNCHANGED <<counted, aborted>>
  ELSE /\ counted' = [p \in Peers |-> counted[p] + Total(list, p)
                                      + IF AllPrinted(list) THEN Total(other, p) ELSE 0]
       /\ aborted' = ~(AllPrinted(list) /\ AllPrinted(other))
       /\ UNCHANGED named

unread_message_alarm ==
  /\ unread_message_event /\ ~aborted
  /\ print_read_lists(unread_message_list, <<>>)
  /\ unread_message_list' = <<>>
  /\ unread_message_event' = FALSE
  /\ UNCHANGED <<levelVars, marked, passed>>

\* A message is marked read once; one that comes while the state is loaded, or with the
\* level below 1, changes nothing.
Fresh(batch) == ~aborted /\ ToSet(batch) \cap (marked \cup passed) = {}

PassOver(batch) ==
  /\ Fresh(batch)
  /\ ~binlog_read \/ log_level < 1
  /\ passed' = passed \cup ToSet(batch)
  /\ UNCHANGED <<levelVars, unread_message_list, unread_message_event, aborted, counted,
                 named, marked>>

\* Mutated form of mark_read_upd: the list is not emptied when it is full.
mark_read_keeps(batch) ==
  \/ PassOver(batch)
  \/ /\ Fresh(batch) /\ binlog_read /\ log_level >= 1
     /\ marked' = marked \cup ToSet(batch)
     /\ IF Len(unread_message_list) + Len(batch) <= MaxList
        THEN /\ unread_message_list' = unread_message_list \o batch
             /\ unread_message_event' = TRUE
             /\ UNCHANGED <<counted, named, aborted>>
        ELSE /\ print_read_lists(unread_message_list, batch)
             /\ UNCHANGED <<unread_message_list, unread_message_event>>
     /\ UNCHANGED <<levelVars, passed>>

\* mark_read_upd
mark_read_upd(batch) ==
  \/ PassOver(batch)
  \/ /\ Fresh(batch) /\ binlog_read /\ log_level >= 1
     /\ marked' = marked \cup ToSet(batch)
     /\ IF Len(unread_message_list) + Len(batch) <= MaxList
        THEN /\ unread_message_list' = unread_message_list \o batch
             /\ unread_message_event' = TRUE
             /\ UNCHANGED <<counted, named, aborted>>
        ELSE /\ print_read_lists(unread_message_list, batch)
             /\ unread_message_list' = <<>>
             /\ unread_message_event' = FALSE
     /\ UNCHANGED <<levelVars, passed>>

Batches == {b \in UNION {[1..n -> Messages] : n \in 1..MaxBatch} : IsInjective(b)}

MarksNext ==
  \/ Loaded
  \/ \E num \in {0, 1} : do_set(num)
  \/ unread_message_alarm
  \/ \E batch \in Batches : mark_read_upd(batch)

MarksSpec == MarksInit /\ [][MarksNext]_marksVars

-----------------------------------------------------------------------------
(* Properties.                                                             *)

\* Each message that was marked read once the state was loaded and with log_level at
\* least 1 waits, with the timer running, or has been reported, and not both, nor
\* twice: the counts add up, whatever the timer, a full list and the level do meanwhile
\* (interface.c:2881-2976).  In JSON one message stands for all of its peer's.  In text
\* only a message of a peer that the report does not know ends the process
\* (interface.c:2937-2938), and up to there no message has been counted twice.
MarksAddUp ==
  /\ unread_message_event <=> unread_message_list # <<>>
  /\ aborted => ~enable_json /\ \E m \in marked : PeerOf[m] \notin Printed
  /\ \A p \in Peers :
       LET all == {m \in marked : PeerOf[m] = p}
           seen == counted[p] + Cardinality(Of(unread_message_list, p))
       IN IF enable_json
          THEN all # {} => \/ \E m \in named : PeerOf[m] = p
                           \/ Of(unread_message_list, p) # {}
          ELSE seen <= Cardinality(all) /\ (~aborted => seen = Cardinality(all))
=============================================================================
