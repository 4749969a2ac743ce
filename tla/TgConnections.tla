---------------------------- MODULE TgConnections ----------------------------
(***************************************************************************)
(* telegram-cli takes commands from its console and from socket            *)
(* connections.  A command sends queries to Telegram whose callbacks come  *)
(* later, when the connection may be gone, so struct in_ev counts who      *)
(* still points to it: the connection itself, each query, and notify_ev,   *)
(* the main session.  Memory is given back at the count of zero.  The loop *)
(* and the ways out of it (quit, safe_quit, SIGTERM) are here too.         *)
(*                                                                         *)
(* Everything runs in one thread.  A query is the TGL library's; that its  *)
(* callback comes once is the library's promise.                           *)
(***************************************************************************)
EXTENDS Naturals, FiniteSets

CONSTANTS
  Conns,     \* the connections that may ever be accepted
  Queries,   \* bound: the queries that may ever be sent
  Views,     \* those of them that are of view_*, whose callback opens a viewer
  MaxTimes,  \* bound: n in the modifier [xn] of a command
  MaxLost,   \* bound: references a connection may lose
  Console,   \* the terminal, for which ev is NULL
  Nobody

ASSUME NamesAssumption == {Console, Nobody} \cap Conns = {} /\ Console # Nobody
ASSUME ViewsAssumption == Views \subseteq Queries
ASSUME BoundsAssumption ==
  IsFiniteSet(Queries) /\ MaxTimes \in Nat \ {0} /\ MaxLost \in Nat

VARIABLES
  daemonize,   \* option -d
  halted,      \* how the process ended, "no" while it runs
  mem,         \* for each connection: "none", "live", or "freed" memory
  bev,         \* connections whose bufferevent is there
  refcnt,      \* the count in struct in_ev
  asker,       \* for each query, who asked it; Nobody before
  waiting,     \* queries whose callback has not run
  told,        \* queries answered to whoever asked
  lost,        \* for each connection, references nobody holds any more
  notify_ev,   \* the main session; Nobody if it is the terminal
  safe_quit, sigterm_cnt

conns   == <<mem, bev, refcnt, lost>>
queries == <<asker, waiting, told>>
flags   == <<safe_quit, sigterm_cnt>>
vars    == <<daemonize, halted, conns, queries, notify_ev, flags>>

Ends == {"no", "quit", "safe_quit", "SIGTERM", "crash"}

TypeOK ==
  /\ daemonize \in BOOLEAN
  /\ halted \in Ends
  /\ mem \in [Conns -> {"none", "live", "freed"}]
  /\ bev \subseteq Conns
  /\ refcnt \in [Conns -> Nat]
  /\ asker \in [Queries -> Conns \cup {Console, Nobody}]
  /\ waiting \subseteq Queries
  /\ told \subseteq Queries
  /\ lost \in [Conns -> Nat]
  /\ notify_ev \in Conns \cup {Nobody}
  /\ safe_quit \in BOOLEAN
  /\ sigterm_cnt \in {0, 1}

Init ==
  /\ daemonize \in BOOLEAN
  /\ halted = "no"
  /\ mem = [c \in Conns |-> "none"]
  /\ bev = {}
  /\ refcnt = [c \in Conns |-> 0]
  /\ asker = [q \in Queries |-> Nobody]
  /\ waiting = {} /\ told = {}
  /\ lost = [c \in Conns |-> 0]
  /\ notify_ev = Nobody
  /\ safe_quit = FALSE
  /\ sigterm_cnt = 0

-----------------------------------------------------------------------------
(* Taking and giving back references.                                      *)

Take(ev, n) ==
  refcnt' = IF ev \in Conns THEN [refcnt EXCEPT ![ev] = @ + n] ELSE refcnt

\* if (!--ev->refcnt) free (ev)
Release(c) ==
  /\ refcnt' = [refcnt EXCEPT ![c] = @ - 1]
  /\ mem' = IF refcnt[c] = 1 THEN [mem EXCEPT ![c] = "freed"] ELSE mem

\* accept_incoming
Accept(c) ==
  /\ mem[c] = "none"
  /\ mem' = [mem EXCEPT ![c] = "live"]
  /\ bev' = bev \cup {c}
  /\ refcnt' = [refcnt EXCEPT ![c] = 1]
  /\ UNCHANGED <<daemonize, halted, lost, queries, notify_ev, flags>>

\* event_incoming: the bufferevent goes, and its reference with it.
event_incoming(c) ==
  /\ bev' = bev \ {c}
  /\ Release(c)
  /\ UNCHANGED lost

\* The peer closes the connection, or it fails.
Close(c) ==
  /\ c \in bev
  /\ event_incoming(c)
  /\ UNCHANGED <<daemonize, halted, queries, notify_ev, flags>>

-----------------------------------------------------------------------------
(* Commands.  A line comes from the terminal or from an open connection.   *)

Sources == bev \cup {Console}

\* Mutated form of Ask: one reference for all the queries of [xn].
AskOnce(ev, qs) ==
  /\ ev \in Sources
  /\ qs # {} /\ Cardinality(qs) <= MaxTimes
  /\ qs \subseteq Views \/ qs \cap Views = {}
  /\ \A q \in qs : asker[q] = Nobody
  /\ Take(ev, 1)
  /\ asker' = [q \in Queries |-> IF q \in qs THEN ev ELSE asker[q]]
  /\ waiting' = waiting \cup qs
  /\ UNCHANGED <<daemonize, halted, mem, bev, lost, told, notify_ev, flags>>

\* A command that asks Telegram, n times with [xn].
Ask(ev, qs) ==
  /\ ev \in Sources
  /\ qs # {} /\ Cardinality(qs) <= MaxTimes
  /\ qs \subseteq Views \/ qs \cap Views = {}
  /\ \A q \in qs : asker[q] = Nobody
  /\ Take(ev, Cardinality(qs))
  /\ asker' = [q \in Queries |-> IF q \in qs THEN ev ELSE asker[q]]
  /\ waiting' = waiting \cup qs
  /\ UNCHANGED <<daemonize, halted, mem, bev, lost, told, notify_ev, flags>>

\* A command that has its answer, a contact or a photo that is not there, an
\* address of a medium, or statistics, calls the callback itself, or prints.
AskAtOnce(ev, q) ==
  /\ ev \in Sources
  /\ asker[q] = Nobody
  /\ asker' = [asker EXCEPT ![q] = ev]
  /\ told' = IF ev = Console \/ q \notin Views THEN told \cup {q} ELSE told
  /\ UNCHANGED <<daemonize, halted, conns, waiting, notify_ev, flags>>

\* msg_kbd with a keyboard that does not parse, load_* of a message without a
\* medium: the reference is taken and no query sent.
Lose(c) ==
  /\ c \in bev
  /\ lost[c] < MaxLost
  /\ Take(c, 1)
  /\ lost' = [lost EXCEPT ![c] = @ + 1]
  /\ UNCHANGED <<daemonize, halted, mem, bev, queries, notify_ev, flags>>

\* do_main_session: the reference of the session before is given back, which
\* may be this one, and then one is taken.
main_session(ev) ==
  LET left == IF notify_ev = Nobody THEN refcnt
              ELSE [refcnt EXCEPT ![notify_ev] = @ - 1]
  IN /\ ev \in Sources
     /\ notify_ev' = IF ev = Console THEN Nobody ELSE ev
     /\ mem' = IF notify_ev # Nobody /\ left[notify_ev] = 0
                 THEN [mem EXCEPT ![notify_ev] = "freed"] ELSE mem
     /\ refcnt' = IF ev = Console THEN left ELSE [left EXCEPT ![ev] = @ + 1]
     /\ UNCHANGED <<daemonize, halted, bev, lost, queries, flags>>

\* What quit and safe_quit do first in a daemon: they close the connection they
\* came from.  The terminal has none, and with [x2] it is gone the second
\* time: a null pointer.  If the memory went too, what uses it on the way back
\* to read_incoming may end the process or not.
Hangup(ev, times) ==
  IF ~daemonize THEN UNCHANGED <<conns, halted>>
  ELSE IF ev = Console \/ times > 1
  THEN halted' = "crash" /\ UNCHANGED conns
  ELSE /\ event_incoming(ev)
       /\ halted' \in IF refcnt[ev] = 1 THEN {halted, "crash"} ELSE {halted}

\* do_quit, with do_halt (0), which returns at once in a daemon.
quit(ev, times) ==
  /\ ev \in Sources
  /\ IF daemonize THEN Hangup(ev, times)
     ELSE halted' = "quit" /\ UNCHANGED conns
  /\ UNCHANGED <<daemonize, queries, notify_ev, safe_quit, sigterm_cnt>>

\* do_safe_quit
do_safe_quit(ev, times) ==
  /\ ev \in Sources
  /\ Hangup(ev, times)
  /\ safe_quit' = TRUE
  /\ UNCHANGED <<daemonize, queries, notify_ev, sigterm_cnt>>

-----------------------------------------------------------------------------
(* Callbacks, signals and the loop.                                        *)

\* More than n references to the connection that asked were left, one given
\* back here.
Hears(q, n) == refcnt[asker[q]] > n /\ asker[q] \in bev /\ q \notin Views

\* Mutated form of Answer: the reference is not given back.
AnswerKeeps(q) ==
  /\ q \in waiting
  /\ waiting' = waiting \ {q}
  /\ told' = IF asker[q] = Console \/ Hears(q, 0) THEN told \cup {q} ELSE told
  /\ UNCHANGED <<daemonize, halted, conns, asker, notify_ev, flags>>

\* Mutated form of Answer: nothing is printed when one reference is left.
AnswerQuiet(q) ==
  /\ q \in waiting
  /\ waiting' = waiting \ {q}
  /\ IF asker[q] = Console THEN UNCHANGED <<mem, refcnt>> ELSE Release(asker[q])
  /\ told' = IF asker[q] = Console \/ Hears(q, 2) THEN told \cup {q} ELSE told
  /\ UNCHANGED <<daemonize, halted, bev, asker, lost, notify_ev, flags>>

\* print_success_gw and its like: the reference is given back first.  If it
\* was the last one nothing is printed, nor when the bufferevent is gone.
\* open_filename_gw opens a viewer for the terminal, or prints that it failed,
\* and returns without a word if the query came from a connection.
Answer(q) ==
  /\ q \in waiting
  /\ waiting' = waiting \ {q}
  /\ IF asker[q] = Console THEN UNCHANGED <<mem, refcnt>> ELSE Release(asker[q])
  /\ told' = IF asker[q] = Console \/ Hears(q, 1) THEN told \cup {q} ELSE told
  /\ UNCHANGED <<daemonize, halted, bev, asker, lost, notify_ev, flags>>

\* The first SIGTERM, and the first SIGINT, is counted, another of the same
\* ends the process.  1 stands for one or two.
Signal ==
  /\ \/ sigterm_cnt' = 1 /\ UNCHANGED halted
     \/ sigterm_cnt = 1 /\ halted' = "SIGTERM" /\ UNCHANGED sigterm_cnt
  /\ UNCHANGED <<daemonize, conns, queries, notify_ev, safe_quit>>

\* Mutated form of LoopTail: it does not wait for the queries.
LoopTailAtOnce ==
  /\ safe_quit \/ sigterm_cnt > 0
  /\ safe_quit' = FALSE
  /\ halted' = IF daemonize THEN halted
               ELSE IF safe_quit THEN "safe_quit" ELSE "SIGTERM"
  /\ UNCHANGED <<daemonize, conns, queries, notify_ev, sigterm_cnt>>

\* Mutated form of LoopTail: safe_quit is forgotten while queries wait.
LoopTailForgets ==
  LET done == safe_quit /\ waiting = {}
  IN /\ safe_quit \/ sigterm_cnt > 0
     /\ safe_quit' = FALSE
     /\ halted' = IF daemonize \/ (~done /\ sigterm_cnt = 0) THEN halted
                  ELSE IF done THEN "safe_quit" ELSE "SIGTERM"
     /\ UNCHANGED <<daemonize, conns, queries, notify_ev, sigterm_cnt>>

\* net_loop after the events: do_halt returns in a daemon.
LoopTail ==
  LET done == safe_quit /\ waiting = {}
  IN /\ done \/ sigterm_cnt > 0
     /\ safe_quit' = (safe_quit /\ ~done)
     /\ halted' = IF daemonize THEN halted
                  ELSE IF done THEN "safe_quit" ELSE "SIGTERM"
     /\ UNCHANGED <<daemonize, conns, queries, notify_ev, sigterm_cnt>>

Next ==
  /\ halted = "no"
  /\ \/ \E c \in Conns : Accept(c) \/ Close(c) \/ Lose(c)
     \/ \E ev \in Conns \cup {Console} :
          \/ \E qs \in SUBSET Queries : Ask(ev, qs)
          \/ \E q \in Queries : AskAtOnce(ev, q)
          \/ main_session(ev)
          \/ \E times \in 1..MaxTimes : quit(ev, times) \/ do_safe_quit(ev, times)
     \/ \E q \in Queries : Answer(q)
     \/ Signal
     \/ LoopTail

Spec == Init /\ [][Next]_vars

\* The loop turns, and Telegram answers.
FairSpec ==
  /\ Spec
  /\ WF_vars(halted = "no" /\ LoopTail)
  /\ \A q \in Queries : WF_vars(halted = "no" /\ Answer(q))

-----------------------------------------------------------------------------
(* Properties.                                                             *)

AsksOf(c) == {q \in waiting : asker[q] = c}

\* The count is the number of those who point to the connection
\* (interface.c:743-1609, 2329-3345, loop.c:732), and of references lost.
CountIsHolders ==
  \A c \in Conns : mem[c] = "live" =>
    refcnt[c] = Cardinality(AsksOf(c)) + (IF c \in bev THEN 1 ELSE 0)
                  + (IF notify_ev = c THEN 1 ELSE 0) + lost[c]

\* What is still pointed to has not been freed: callbacks, updates printed to
\* the main session and reads find their connection, however it ended.
HoldersFindTheirConnection ==
  \A c \in Conns :
    c \in bev \/ AsksOf(c) # {} \/ notify_ev = c => mem[c] = "live"

\* And what nobody points to has been freed, but for lost references.
NothingLeaks ==
  \A c \in Conns :
    mem[c] = "live" => c \in bev \/ AsksOf(c) # {} \/ notify_ev = c \/ lost[c] > 0

\* The memory of a connection lives exactly as long as somebody points to it.
MemoryIffHeld == HoldersFindTheirConnection /\ NothingLeaks

\* Queries that have ended, and whoever is to hear of it is still there: the
\* terminal of every one, a connection of all but its view_* commands, which end
\* without a word (interface.c:2599).
Heard ==
  {q \in Queries \ waiting :
     asker[q] = Console \/ (asker[q] \in bev /\ q \notin Views)}

\* A connection that is still open has been told the end of each query that has
\* one to tell, the last one too, for which the callback looks at the count
\* before it prints (interface.c:2329).
OpenOnesAreTold == Heard \subseteq told

\* "safe_quit: Waits for all queries to end, then quits" (interface.c:1737).
\* Without a signal the process ends by it with every query ended, and those who
\* are still there told, but of what they viewed.
SafeQuitWaits == halted = "safe_quit" => waiting = {} /\ Heard \subseteq told

\* And it does end, once Telegram has answered all that clients go on to ask,
\* unless it is a daemon, where do_halt returns.
SafeQuitQuits == safe_quit /\ ~daemonize ~> halted # "no"

\* A connection ends once: its memory is not freed twice, nor used again.
FreedForGood ==
  [][\A c \in Conns : mem[c] = "freed" => mem'[c] = "freed" /\ refcnt'[c] = refcnt[c]]_vars
=============================================================================
