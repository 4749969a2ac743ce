# A TLA+ model of Cryptoarbiter

Cryptoarbiter is a Node.js server that collects the tickers of several
cryptocurrency exchanges in one table, cuts the table down to the markets that
at least two exchanges trade, keeps it fresh from timers, and serves it to a web
page that shows where a market is cheapest and dearest. A click on a price asks
the server for the order book behind it. The repository also carries, under
`tg/`, a copy of telegram-cli in C, which nothing in the JavaScript starts.

This directory holds TLA+ modules translated from the source, TLC
configurations that model-check them on small instances, and proofs checked by
TLAPS. `PROJECT.json` maps every definition to the lines it stands for.

## 1. Inventory

| Component | Source | State | Operations |
|---|---|---|---|
| Ticker table | `index.js:162-267`, `common/variables.js`, `getTickers` / `getCurrencies` of the seven exchanges that `index.js` loads | the array `tickers`; Qryptos's `lstId`; requests in flight; timers | `init`, `RemoveAloneMarkets`, `updateTickers`, `updateTickersSlow`, `updateStatus`, the request callbacks |
| Web socket push | `index.js:6-22` | the clients of `/lastupdate` and their `readyState` | `lastUpdateWS`, called at the end of each `getTickers` callback |
| Order-book queues | `index.js:49-82,142-148`, `startDequequeOrderbook` and `getOrderBook*` of each exchange | seven arrays of waiting requests; fetches in flight; open responses | `getOrderBook`, one timer per exchange, the fetch callbacks |
| Popup | `public/js/utils-dev.js` | open popovers, by exchange, market and side | `amountDetails`, its response callback, the amount/price walk |
| Ticker page | `public/js/table-dev.js`, `views/index.handlebars` | rows shown, rows of the poll before, lists in cookies | 3 s poll, colouring of changes, cheapest and dearest exchange, filters |
| Other pages | `views/*.handlebars`, `index.js:84-140` | none on the server | rendering; `/setAlert` forwards one request |
| Unused exchange modules | `cryptopia`, `huobipro`, `kraken`, `liqui`, `yobit` | - | not required by `index.js` |
| telegram-cli: connections | `tg/loop.c:688-760`, commands and callbacks of `tg/interface.c` | per connection a `struct in_ev` and its reference count; the main session; queries under way; quit flags | accept, close, commands, answers, `quit`, `safe_quit`, signals, the end of a turn of the loop |
| telegram-cli: lines of a socket | `tg/loop.c:688-760` | a 4096 byte buffer per connection, the part of it in use, an error flag | cutting what arrives into commands |
| telegram-cli: terminal | `tg/loop.c:104-327`, `tg/interface.c:3729-3762` | the line being typed, a line put aside, a prompt with its strings and callback | keys with and without readline, strings asked for by the library, the end of the input |
| telegram-cli: commands | `tg/interface.c:1616-1806,3408-3710` | none between lines | modifiers, the name, the arguments a command's pattern declares, its handler |
| telegram-cli: messages marked read | `tg/interface.c:2870-2977` | a list of up to 10000 messages and a timer | an update of the library, the alarm, the report |
| telegram-cli: files | `tg/loop.c:404-686` | state file, secret chat file, auth file | read at the start, written over in place by callbacks and once a turn |
| telegram-cli: Lua | `tg/lua-tg.c` | the array of calls, registry entries, records of calls under way | hooks, callbacks, `parse_lua_function`, `lua_do_all` |
| telegram-cli: Python | `tg/python-tg.c`, `tg/python-types.c` | an array of calls of 500 slots, two a call; the reference counts of the script's objects | functions of the module, methods of peers and messages, hooks, callbacks, `py_do_all`, `safe_quit` |
| telegram-cli: JSON, output, start, build | `tg/json-tg.c`, `tg/interface.c`, `tg/main.c` | none that lasts | conversions, printing, completion, options |

How they interact. Everything in the server runs in one thread, and what
interleaves are callbacks and timers. The table and the queues are separate:
they meet only in `lstId`, which the Qryptos load fills and the Qryptos order
book reads, and in the process itself, which an exception in any callback ends
for both. `request-promise` runs the callback first and then settles the
promise: it resolves on a 2xx status and rejects otherwise, and what a callback
throws is not caught by anything, except in `exmo.js`, which has a `try` around
the whole callback. The promises of the timers' refreshes are never awaited, so a
rejection there is unhandled: a warning up to Node 14, the end of the process
from 15 on. The constant `FatalRejections` covers both.

telegram-cli is one thread too: a libevent loop that reads connections and the
terminal, runs the callbacks of the TGL library, and at the end of each turn
makes the calls of a script, looks at the quit flags and saves the state file.
Its parts meet in that loop: a command takes a reference to its connection and
sends queries, their callbacks give it back; messages and updates go to the
files and to the script's hooks. A signal handler only counts, but a process can
be killed between two writes.

What is hard here, and which property is about it, is the list `hazards` of
`PROJECT.json`: refreshes of one exchange overlap and their answers race; the
start-up sequence decides for good which rows and labels exist; errors of an
exchange arrive as valid JSON; requests are taken off a queue before anything is
known about their outcome; a popup is filled by name by whatever response
comes.

## 2. The modules

### `Tickers`

The table, from `init()` on. State and code:

| Variable | Code |
|---|---|
| `phase` | where `index.js` is: in the awaited loads of `init()`, waiting for the 5 s timer, or with the three intervals running |
| `todo` | the loads `init()` has not come to |
| `inflight`, `sent` | HTTP requests whose callback has not run, numbered per exchange in the order of sending |
| `tickers`, `cell` | the array: the ids of its records, and for an id and an exchange what the record holds for it |
| `lstId` | the list of product ids in `qryptos.js` |
| `socket` | `readyState` of each client of `/lastupdate` |
| `alive` | FALSE once an exception has left a callback |

Prices are abstracted to what the code and the properties tell apart: the number
of the request whose answer wrote the quote (`by`), and whether the ask is
undefined, null (Bittrex and Qryptos store it as received) or a number, NaN
included. `labelled` stands for `base` and `quote`.

Actions: a request ends in one of five ways (`Answer`): it fails; its callback
returns early; its callback throws; it brings a listing (`TickersArrive`) or
statuses (`CurrenciesArrive`). Each includes what follows from it in the same
turn: the writes, the push to the web socket, and, for a load, the request
`init()` sends next. `RemoveAloneMarkets` is the cut with the start of the
timers. `UpdateTickers`, `UpdateTickersSlow` and `UpdateStatus` are the three
intervals. `Connect`, `StartClose` and `Closed` are the web socket of a browser,
modelled from how `index.js` uses `ws`.

How the exchanges differ is in the operators at the top: which have a guarded
parse, what each makes of an error object, which asks may be null, which
statuses each reports.

Left out: the order of the array; the contents of quotes; that two HitBTC
symbols may map to one id (`hitbtc.js:35-48`).

### `BookService`, `OrderBook`

`BookService` is what a browser may rely on: a request is answered at most once,
with the book it asked for, or never; which of the two is decided once.
`OrderBook` is the code: the popups, `getOrderBook`, the queues, a timer per
exchange, overlapping fetches, and responses that overtake one another.

| Variable | Code |
|---|---|
| `asked` | requests in the order they reached the server; a place in it names a request and its `res` |
| `queue` | the arrays of `common/variables.js` |
| `fetching` | ticks that wait in `await getOrderBook*` |
| `replies`, `done` | responses written, and those the browser has handled |
| `dropped` | requests without an answer for good: unknown exchange, failed fetch, market not in `lstId` |
| `popup` | the popovers of the page, and what each shows |

`Tick` is one firing of an exchange's interval with a request in the queue: the
shift, and the start of the fetch or, for Qryptos without the product id, the
rejection. `BookArrives`, `FetchFails` and `FetchThrows` are the ways the fetch
ends; `Click` and `Show` are the two halves of `amountDetails`. Requests of one
page and different pages reach the server in any order, as clicks are in any
order; that two requests of a page overtake each other on the way is not
modelled.

### `TableClient`

The ticker page and how it keeps up with the server. The server is an
environment whose rows change as those of `Tickers` do: inserted in the loads,
cut once, then only refreshed, and begun anew by a restart.

| Variable | Code |
|---|---|
| `table` | what `/tickers` would answer now: rows in order, and a version |
| `wire` | the page's open request, or its answer under way |
| `json` | `table.ajax.json()` |
| `prev` | `prevTable` |
| `data`, `dom` | the rows DataTables holds, and those drawn, each with the rows their quotes were compared with |

`Poll` is the interval of `table-dev.js:831`, which keeps the old answer and
asks again, aborting a request that is still open; `Serve`, `Arrive`, `Fails`
and `Redraw` are the rest of its life. `compare` looks at a row by its index, and
the server's rows move: after a load, the cut or a restart a quote is compared
with another market's, and a cell of a row that is new throws, unless it has no
bid or is one of Qryptos, whose column `compare` does not look up (`Throwing`);
what is drawn then stays as it was. `PlacedRowsAreCompared` says that this lasts
for one answer. Left out: a row half-built by that exception, and which of its
cells DataTables had already cached.

### `Spread`

One row: `getMin`, `getMax`, `low`, `high` and the guards of the cells as
operators, the checkboxes and the lock button as actions. `drawn` is what was
rendered, which a click does not change until the next answer. Whole per cents.

### `OrderBookWalk`

What one popup computes: `Sent` is the truncation on the server, `TypeAmount`
and `TypePrice` are the two `keyup` handlers, `TypeText` both of them given
something that is not a number. Amounts are whole numbers of the last digit
shown, rates in 1/`Scale`, so rounding is modelled; binary fractions are not.
Books come as the exchanges send them, best rate first (`BestFirst`).

`MCPage` puts the three parts of the page, which share no state, into one
specification: a behaviour chooses a part and is one of that part. The same
properties would otherwise take a run each.

### `TgConnections`

| Variable | Code |
|---|---|
| `mem`, `refcnt` | the malloced `struct in_ev` of a connection and its count |
| `bev` | connections whose `bufferevent` is there |
| `asker`, `waiting`, `told` | queries: who asked, whether the callback has run, whether its output was written |
| `notify_ev` | the main session |
| `lost` | references taken by a command that then sends no query (`msg_kbd`, `load_*`) |
| `safe_quit`, `sigterm_cnt`, `daemonize`, `halted` | the flags of `main.c`, and how the process ended |

One action each for accept, close, a command that asks (with `[xn]` a set of
queries), one that has its answer at once and takes no reference that lasts
(`AskAtOnce`), a lost reference, `main_session`, `quit`, `safe_quit`, a
callback, a signal and the end of a turn. Queries of `Views` are of the `view_*`
commands, whose callback opens a viewer on the terminal and returns without a
word if the query came from a connection (`interface.c:2599`): a client that
views waits for an answer that does not come, and the properties except it
(`Heard`). In a daemon `do_halt` returns at once (`main.c:859`), so `quit` and
`safe_quit` only close the connection they came from, although the command table
says of `quit` that it "Quits immediately" (`interface.c:1722`). Where that
frees the memory under the reader the process may end or not: both are modelled.
Not modelled: lines after such a `quit` in the same buffer. `sigterm_cnt` 1
stands for one or two.

### `TgFiles`

| Variable | Code |
|---|---|
| `chats`, `qts` | what the library has in memory |
| `file`, `state` | the two files on disk, the first as a sequence of items |
| `wqts` | the static of `write_state_file` |
| `pos`, `left` | where `read_secret_chat_file` is, and how many chats it expects |
| `kept`, `acked`, `torn`, `made` | history variables for the properties and the bound on new chats |

`Saved` writes over what the file held, without truncation, with a placeholder
for the number of chats that is patched last; `CutSaves` are the files that a
process leaves which ends in between. `LoadChat` reads one chat, and as the
library reports each loaded chat the file is saved while it is read, with the
chats read so far (`interface.c:3264`). An item is a group of calls of `write` that
nothing tells apart; a single call is not cut. The name of a chat is items too,
as many as it is long: `loop.c:664` reads it and does not pass it on, and the
library makes it anew, of any of `Lengths`. Names that come out longer than they
were in the file make the save during the load reach over entries that are still
to be read (`Outgrown`); the reader then fails an assertion or reads nonsense
(`LoadFails`). That is what `LoadsUnlessOutgrown` excepts, besides a save that was
cut, and nothing else. That the library drops what it has seen before is modelled
from its use. After a torn save at most the starts that follow are looked at
(`TornStarts`).

### `LuaQueue`

| Variable | Code |
|---|---|
| `queue`, `flagged` | `lua_ptr[0 .. pos - 1]`, and the slots with `flags & 1`, in use or not |
| `at`, `cur` | `p` and `q` of `lua_do_all`, while it runs |
| `made`, `queries` | calls accepted, and those Telegram has not answered |
| `script`, `cb` | whether the script runs, and in the callback of which call |
| `copies`, `refs` | strings that `tstrdup` copied; registry entries |
| `addr`, `mem` | where the `lua_query_extra` of a call was allocated, and what is there |
| `issued`, `strayed` | history: calls made, calls whose extra was freed as if it were a string |

`Accepted`, `Refused` and `Overflows` are the three ways `parse_lua_function`
ends with the right number of arguments; with another it returns at once and
changes nothing. `Begin`, `Issue`, `FreeArgs` and `End` are `lua_do_all`, cut
where a hook or callback can run. `Answer` and `Return` are the thirteen
callbacks, which differ only in what they push. A record that was freed too
early makes the callback use whatever is there: nonsense if the memory is free
(`run = "garbled"`, not followed further), another call's record if it has been
allocated again. Not modelled: `postpone`, a script's own console commands and
`safe_quit`.

### `ScriptCalls`

What both bindings promise a script: its calls are made, or dropped, in the
order in which they were accepted, each once, and each one made is answered at
most once, in any order. `LuaQueue` and `PyQueue` are shown to implement it, by
the fate of each call as a function of the array, the queries and what was
dropped.

### `PyQueue`

| Variable | Code |
|---|---|
| `queue`, `at`, `cur` | `py_ptr`, one entry for the two slots of a call, and where `py_do_all` is in it |
| `made`, `queries`, `dropped` | calls accepted, those Telegram has not answered, those that were not made |
| `script`, `back` | whether the script runs, and in which callback |
| `quit` | `safe_quit` |
| `rc`, `born`, `held`, `hook` | the interpreter's reference counts; who there is, what the script and the hooks refer to |
| `early` | the callback of the call under way has been run, and given back, already |
| `leak`, `over` | history: references nobody gives back, references given back twice |

Every place where the binding counts up or down is in an action, in the order of
the code. What is counted together is a function from objects to numbers
(`Incref`, `Decref`), and a list of which the last reference goes gives back its
own to what it holds: the push of a tuple (`Pushed`; some methods build none and
push the peer itself, `CallBare`), the parse that stops at a bad argument, the
call, which may be answered within itself, and `Tidied`, after the switch. The
module's functions and the methods of its types differ only in which objects
they take. A tuple of the wrong length is refused before anything is taken from
it, which is what `send_contact` without a callback builds (`CallSendContact`):
its peer leaks. Objects are peers, messages, functions and lists of peers;
strings and numbers are not counted. `UsedIsAlive` is about what the script, the
hook, a query or a list that is there refers to (`InUse`), not about calls in
the array or under way, of which `CallbackIsThere` fails. Not modelled:
attributes of the types but for those that make an object, comparison and
printing.

### `TgLines`, `TgConsole`, `TgMarks`, `TgCommands`

`TgLines` is `read_incoming`: the bytes of one connection, a byte its number
among those sent. `Rounds` is its loop, which fills the buffer, runs every line
in it and goes on while there was one. A line that does not fit with its newline
leaves the buffer full; the next read asks for no bytes, and no later line of
the connection is run.

`TgConsole` is the terminal, with readline (a key at a time) or without (what a
read returns): the line, the line put aside by `deactivate_readline`, and the
prompt of `do_get_values`, which asks for one to three strings, may be replaced
by another while it is there, and whose callback may ask again before it
returns. Output hides and shows the line and changes nothing.

`TgMarks` is the list of messages marked read: an update appends to it and sets
the timer, or reports both if there is no room; the timer reports. An update that
comes before the state has been loaded, or while `log_level` is below 1, is passed
over (`PassOver`), and the level may change at any time (`do_set`). `Of` and
`Total` are what the two loops of `print_read_list` count, `Firsts` what they
name in JSON. In text the report has no words for a channel: the `assert (0)` of
interface.c:2937-2938 ends the process at its first message, with what comes
before it printed (`AllPrinted`, `aborted`).

`TgCommands` is `interpreter_ex`. A word is what it can be read as, and the
table of commands is represented by one command for each shape of its patterns.
One action for each way a turn of the loop over the pattern can go, in the code's
order; `flags` steps back at a period as the code's pointer does; `(` is looked
for at the beginning of the line only, and an empty line is no command
(`EmptyLine`). `Allowed` is what the loop is compared with: the lists of arguments
a pattern allows for the words if what is repeated may be there any number of
times, none included, found by looking at every split. It is computed from the end
of the pattern, an item (`Makes`) from the two behind it. `Declared` is what the
help text declares: `<user>+` is one or more, and the text of `broadcast` is there.
`ArgumentsAreDeclared` names the lines on which a handler runs on less: those that
leave nothing to repeat (`NoneRepeated`, as `fwd <peer>`) and a `broadcast` of which
every word is a user. `tg_commands` shows the first of these failing an assertion.

`MCTgLoop` puts `TgFiles` and these four into one specification, as `MCPage`
does: they share no state, and a behaviour is one of one part. Modules
that are extended together name what each of them has after the part:
`MarksSpec`, `ConsoleSpec`, `CommandsSpec`, and `CellsSpec` and `WalkSpec` on the
page.

### The proofs

`TickersProofs`, `OrderBookProofs`, `PageProofs` (of `TableClient`, `Spread` and
`OrderBookWalk`), `TgConnectionsProofs`, `TgFilesProofs`, `TgLoopProofs` (of
`TgMarks`, `TgConsole` and `TgCommands`), `LuaQueueProofs` and `PyQueueProofs`
hold the theorems (section 4). The modules `MC...` give the constants their
values for TLC.

## 3. What TLC checks

| Run | Instance | Shows |
|---|---|---|
| `tickers_overlap` | Bittrex and Poloniex, two markets of one currency and one junk id, one client, 4 requests per exchange, answers in any order | `KeptMarketsAreComparable`, `SameCurrencySameStatus` |
| `tickers_prompt` | Bitfinex (slow timer), Exmo (guarded callback), Qryptos (`lstId`), answers within a period, unhandled rejections fatal, 3 requests each | `LabelledQryptosRowsHaveAnId`, `PromptQuotesNeverGoBack`, `StartsUp` |
| `orderbook` | two markets of Bitfinex in two browsers, two of Qryptos of which one has no id, a page that names an unknown exchange, 3 requests | `EachRequestInOnePlace`, `QueuesInOrder`, `ShownBookIsItsOwn`, `SpinnerHasAReason`, `ImplementsService`, `QueuedIsTaken` |
| `page` | the table: three markets, four changes, one restart; a row: three exchanges over six quotes, every choice of checkboxes and lock; a popup: books of 0 to 5 levels, best first, one with a level far from the one before, 3 sent | `PlacedRowsAreCompared`, `NeverGoesBack`, `CatchesUp`; `DotsShowTheSpread`, `GainNeedsTwoExchanges`; `ColouredPriceIsBest`, `FieldsAgree` |
| `tg_connections` | two connections, the terminal, three queries, one of them a `view`, `[x2]`, one lost reference, daemon or not | `CountIsHolders`, `MemoryIffHeld`, `OpenOnesAreTold`, `SafeQuitWaits`, `SafeQuitQuits` |
| `tg_loop` | files: two chats established, names of one or two items made anew at each load, three updates, one message sent per chat, any number of ends and starts; terminal: five keys, two asks for one or two strings of one key; marks: four messages of two users and a channel, a list of two, `log_level` 0 or 1 and changing; lines: seven bytes, a buffer of three; commands: seventeen, one for each shape of pattern, up to four words | `LoadsUnlessOutgrown`, `StateNotAhead`, `AckedNotSentAgain`, `RestartRestores`; `KeysGoWhereTyped`; `MarksAddUp`; `FittingLinesRun`; `ArgumentsAreDeclared` |
| `tg_files_torn` | three chats | violation of `AnnouncedChatsAreThere` |
| `tg_commands` | four commands, `fwd` among them | violation of `HandlersAssertionsHold` |
| `lua_queue` | five functions, three calls, an array of 14 slots | `QueueIsFramed`, `StringsHaveOneOwner`, `CallsKeepTheirExtra`, `ImplementsCalls` |
| `lua_queue_lost` | the same | violation of `CallbacksAreKept` |
| `py_queue` | two calls of four functions and five methods, two objects, a list long enough for a group and one that is not | `CountsAreHolders`, `UsedIsAlive`, `QuitLosesNoCall`, `ImplementsCalls`, `QueuedIsMade` |
| `py_queue_early` | the same | violation of `CallbackIsThere` |

The four violations are disagreements between the code and what the repository
says of it.

* `tg_files_torn`: the process is killed in a save of the secret chat file,
  which then announces two chats and holds fewer; the reader asserts that they
  are there (`loop.c:626`), at every later start.
* `tg_commands`: `fwd` with a peer and no message. The end of the line runs the
  handler where an argument may be repeated, before one was read
  (`interface.c:3566`), and the handler asserts that there are two
  (`interface.c:975`).
* `lua_queue_lost`: a call is refused, or answered, and leaves a flag in a slot;
  the record of a later call falls on that slot and is freed as a string while
  the call is under way (`lua-tg.c:1388`), though `README-LUA:20` says that a
  function that returned true will call back.
* `py_queue_early`: a call that is answered while it is made gives its callback
  back before the call has taken it (`python-tg.c:1090`); a function only the
  call refers to is freed, and then counted.

Bounds. Two exchanges are the fewest for a comparable market, and two markets of
one currency the fewest for `SameCurrencySameStatus`. Four requests per exchange
are the load and three more, so that two refreshes and a status request are
under way at once after the cut and any two are answered in the reverse order;
three, where answers are prompt, are two refreshes, one to overwrite the other.
Three clicks are a popup asked, closed and asked again, with another request
between. Four changes of the table are two inserts, a cut and a refresh on one
side of a restart or on both. Three queries on two connections let one
connection have two under way while the other is the main session. Three updates
for two chats come back to the first chat. Five keys are a line, a string behind
a prompt in the middle of it, and its end; two asks let one prompt replace
another, or follow from its callback. Seven bytes fill a buffer of three twice,
with a line that fits, one that is exactly as long, and one that is longer. Two
chats are the fewest of which one is read while the other is still to come, and
names of one or two items the fewest that can grow and shrink: TLC comes to
`Outgrown` in eight steps and without a cut save, by two chats, an end, and a
start that gives the first a longer name. Starts after a torn save are looked at
in `tg_files_torn` alone, where names have one length. Four messages overflow a
list of two in one update and leave room in another. Four words are one more
than any pattern needs before it repeats. Fourteen slots are too few for the
three longest calls, so that the assertion on the array's size is met, and
enough for a call to fall on slots that earlier ones, accepted and refused, have
left. Two calls of a Python script let the second be made in the callback of the
first, while the array is read; two objects are a peer and a function, or a list
and its peer. The `mutants` of `PROJECT.json` show that each property notices a
plausible mistake: a missing `await`, a wrong limit in the cut, a shared
variable between ticks, `pop` in place of `shift`, one reference for several
queries, a `pos` that is not set back, and so on.

Fairness. `Tickers!FairSpec` assumes that every load settles (the code sets no
timeout, so this is an assumption about exchanges and TCP) and that the 5 s timer
fires; `StartsUp` is false without the first. `OrderBook!FairSpec` assumes only
that the intervals fire, and nothing about exchanges: `QueuedIsTaken` holds even
if no fetch is ever answered. `TableClient!FairSpec` assumes that the page polls
and that of infinitely many requests one is served and arrives, though some
fail; `CatchesUp` speaks of pages that had a first answer, since a page whose
first request fails never asks again. `TgConnections!FairSpec` assumes that the
loop turns and that the library runs every callback, as it does on an answer, an
error or a timeout. `PyQueue` assumes that a script returns each time it runs, and that
hooks and answers keep neither the loop from its turn nor a call from its end
for good: `QueuedIsMade` holds although queries are never answered. Nothing is
fair about clicks, commands, web sockets,
refreshes or signals.

`CHECK_DEADLOCK FALSE` is set in every configuration because each system may
stop: the process can end, a page whose first request fails sends no other, a
line is run or turned down, or the bounds are reached. Each `.cfg` names its
reason.

What the models say about the code beyond the properties:

* without `Prompt`, an older answer does overwrite a newer one
  (`index.js:222-237` waits for nothing);
* a request whose fetch fails, or which names an exchange the server does not
  know, is never answered, and the popup keeps its spinner
  (`SpinnerHasAReason` says those are the only reasons);
* a body that is not JSON ends the process in most callbacks, as does a push
  while a browser is closing its socket;
* the dot of the lowest ask is missing if the exchange that asks it has no bid,
  and the cell of Exmo ignores the lock button (`table-dev.js:541`);
* the last level of a book of ten or fewer is dropped, so a book of one level
  shows as empty;
* `set_profile_name` of a script reads into the next call, and `restore_msg`
  ends the process (`lua-tg.c:1303, 1386`);
* a command that lacks a mandatory argument is dropped without a message
  (`interface.c:3574`), while a word that does not fit gets one;
* `broadcast` with users and no text runs its handler, which reads the last peer
  as the text (`interface.c:1026-1034`);
* `create_channel` with a quoted third word puts in missing arguments until the
  room for them runs out, where an assertion ends the process
  (`interface.c:3522`);
* a `view` command of a connection ends without any answer
  (`interface.c:2599`);
* `reply_audio` has `do_send_audio` for its handler (`interface.c:1727`), and
  `view_user_photo` the callback that prints a file name (`interface.c:1552`);
* a start may fail on a file that was saved whole: if the library makes the name
  of a chat longer than it was, the save at `interface.c:3264`, during the load,
  is over the entries that `loop.c:626-690` has still to read;
* a `create_group_chat` of two peers is dropped with a message
  (`python-tg.c:1018`), though `README-PY:59` says that more than one is enough;
* `send_contact` of a Python peer without a callback is never made: the tuple has
  two of the four arguments (`python-types.c:872`, `python-tg.c:1046`);
* a line of 4096 bytes or more from a socket ends all progress of that
  connection (`loop.c:692`);
* a prompt that comes while another is there replaces it, and the callback of
  the first is never called (`loop.c:229`);
* most calls of a Python script leak a reference or more: the tuple is never
  given back, and methods without a callback push the peer itself; the counts
  that the binding gives back too often are those of the last peer of
  `create_group_chat` (`python-tg.c:1094`).

## 4. What is proved

All theorems are about every value of the constants that the named assumptions
of the module allow, and about `Spec` (or `CellsSpec`, `WalkSpec`, `MarksSpec`,
`ConsoleSpec`, `CommandsSpec`), without fairness.

| Module | Theorem | Property |
|---|---|---|
| `TickersProofs` | `TypeCorrect` | `TypeOK` |
| | `LoadsAreAlone` | `LoadsAlone` |
| | `Comparable` | `KeptMarketsAreComparable` |
| | `JunkIsCut` | `NoJunkRows` |
| | `OneStatusPerCurrency` | `SameCurrencySameStatus` |
| | `QryptosRowsHaveIds` | `LabelledQryptosRowsHaveAnId` |
| | `FinalLabels` | `LabelsAreFinal` |
| `OrderBookProofs` | `TypeCorrect` | `TypeOK` |
| | `NoneLostNoneTwice` | `EachRequestInOnePlace` |
| | `FirstComeFirstServed` | `QueuesInOrder` |
| | `OwnBookShown` | `ShownBookIsItsOwn` |
| | `SpinnersHaveReasons` | `SpinnerHasAReason` |
| | `Implementation` | `ImplementsService` |
| `TgConnectionsProofs` | `TypeCorrect` | `TypeOK` |
| | `CountCorrect` | `CountIsHolders` |
| | `NoDangling`, `NoLeak`, `MemoryHeld` | the two halves of `MemoryIffHeld`, and both |
| | `OpenTold` | `OpenOnesAreTold` |
| | `SafeQuitHasWaited` | `SafeQuitWaits` |
| | `FreedOnce` | `FreedForGood`: freed memory is neither freed again nor counted in |
| `PageProofs` | `PlacedCompared` | `PlacedRowsAreCompared` |
| | `NoWayBack` | `NeverGoesBack` |
| | `DotsShow` | `DotsShowTheSpread` |
| | `GainIsReal` | `GainNeedsTwoExchanges` |
| | `PriceIsBest` | `ColouredPriceIsBest` |
| | `OnePurchase` | `FieldsAgree` |
| `TgFilesProofs` | `Restored` | `RestartRestores` |
| | `SoundUnlessOutgrown` | `LoadsUnlessOutgrown` |
| | `NoneSkipped` | `StateNotAhead` |
| | `NoneReused` | `AckedNotSentAgain` |
| `TgLoopProofs` | `AddUp` | `MarksAddUp` |
| | `KeysGoRight` | `KeysGoWhereTyped` |
| | `ReadAsDeclared` | `ArgumentsAreDeclared` |
| `LuaQueueProofs` | `QueueFramed` | `QueueIsFramed` |
| | `StringsOwned` | `StringsHaveOneOwner` |
| | `ExtrasKept` | `CallsKeepTheirExtra` |
| | `CallsInOrder` | `ImplementsCalls` |
| `PyQueueProofs` | `CallsInOrder` | `ImplementsCalls` |
| | `QuitLosesNone` | `QuitLosesNoCall` |
| | `CountsAccounted` | `CountsAreHolders` |
| | `UsedStaysAlive` | `UsedIsAlive` |

With these every invariant, action property and refinement that a run finds to
hold is a theorem as well, but for two. `PromptQuotesNeverGoBack` stays with TLC:
it supposes that the refreshes of an exchange do not overlap, and where they do,
quotes go back (section 3), so that there is little to prove for every instance.
So does `FittingLinesRun`, which compares a loop that one step stands for with the
lines that came.
The liveness properties are TLC's alone, too.

`Tickers!TypeOK`, `LoadsAlone`, `NoJunkRows`, `LabelsAreFinal`,
`OrderBook!TypeOK`, `TgConnections!TypeOK` and `FreedForGood` are proved and in
no run: the proofs say all that a run could.

`TickersProofs`. None of the properties is inductive alone. `IInv` adds:

* `StartUp`: what is in flight, to be loaded and sent in each phase (in `init`
  exactly one load; afterwards none). It is what makes the cut see whole data.
* `Cells`: a cell no request has written has neither ask nor status, one is
  labelled exactly if it has a status, and until the timers run that status is
  "ok". The cut counts asks and statuses; this turns what it counts into "was
  quoted".
* `JunkCells`: no exchange quotes a junk id but the one that invents it, so a
  junk id counts once and is cut.
* `QryptosIds`: what the Qryptos load labels is in `lstId`.

Lemmas say what a step does to one cell (`CellStep`), to the requests
(`RequestStep`) and to the set of rows (`TableStep`), and each conjunct is then
shown from those.

`OrderBookProofs`. `OnePlace` and `Single` restate the first property over sets
of numbers, which are what a step moves: one lemma says what each action does to
the five places, and the order of queues, the book a response carries (`OwnBooks`)
and the reasons of spinners are shown on top of it. Lemmas about `Append` and
`Tail` of sequences without repetition stand for `push` and `shift`. For the
refinement, `Outcome` is shown to be a function of the place of a request, and
each action to be a step of `BookService` or a stutter.

`TgConnectionsProofs`. `CountIsHolders` needs that a live connection has a
positive count (`Positive`), that a connection which was never accepted has
neither queries nor lost references (`Askers`), and that a process ended by
`safe_quit` has no query (`Quits`). Lemmas about `Classified` show that every
step leaves a connection alone, moves its count by as much as its holders, or
makes it new; the properties follow from that. Sets of queries are finite, which
is an assumption on `Queries`.

`PageProofs`. The table: every answer on its way, and every table the page keeps,
was the server's table once (`Past`). `Ordered` says that what is drawn is not
newer than what is kept, nor that than the one answer under way: the page aborts
a request before it sends the next, so there is one, and what it will be compared
with is the answer received last. `FilledHas` is the rest: of an answer's rows,
those the answer before had are put into the page.

A row: what is drawn was rendered from some quotes, checkboxes and lock button
(`CellsInv`), though the row has gone on since; the rest is about one rendering,
and that a least ask and a greatest bid are there in a finite set of exchanges.

A popup: `WalkInv` says how the coloured rows and the two fields come from the
levels sent. That no other way to fill an amount is cheaper is an exchange
argument: the walk takes the first levels up to where it stops (`Greedy`), and
what it pays is not more (of bids: not less) than any way to take the same
amount, shown level by level over the sums, which are recursive functions. It
needs the levels to be best first, which is the assumption `WalkAssumption`
makes of the books. That the two fields describe one purchase is arithmetic of
two roundings: half a digit of the price is at most half of `Scale`, and half a
digit of the amount is at most half the rate of the last row that is coloured.
With the rate of any other row that has enough the bound is false, for a book
with a level far from the one before; the run has one.

`TgFilesProofs`. The first part is the layout. `Joins` is the function that adds
up the entries one by one, and with it what `FlattenSeq` gives is the entries
one behind another; those of the first chats (`First`) come before the rest,
each chat has one entry (`EntryOnce`), and a save that ends before a place
leaves what is behind it unread as it was (`SavedLeaves`, `Unread`). The second
part is the invariant. `Holds(file, kept)`: the entries of what was last saved
are in the file, whatever a longer list has left behind them; `Laid`: the file
is so, with the number of chats, until a start that reads it has saved. `Loads`:
the reader is at the place of the next chat, with as many to come as it has not
read, has the numbers of the chats before it in memory, and those behind it are
in the file (`Ahead`); or the names made anew have grown over them (`Outgrown`),
and then it never comes through, for where it reads there is an item of a chat
that was read (`NoneOutgrown`). From this `Restores` is a fact about each step,
and an assertion of the reader fails, or nonsense is read, only when they have.
On top of it, the chats on disk have been told of every update up to the one in
the state file (`Told`) and go on behind what was acknowledged (`Behind`), and
what runs has the same but for messages it has sent (`OnDisk`). All of it is
said of runs in which no save was cut; `tg_files_torn` shows the others.

`TgLoopProofs`. Marks: the messages marked are those counted and those that wait,
and these have none in common. Per peer (`Part`) the proof is arithmetic of finite
sets: the cardinality of a disjoint union, and how a report, which walks the
list and counts each message for its peer, adds up to that of a set. In JSON,
where nothing is counted, it is shown that no peer with a marked message is
forgotten.

Terminal: `Scan` is what keys from some place on make of a line, of which both
`Scanned` (what a read does) and `Typed` (what the property asks) are instances;
lemmas say that it is unique, goes on where it stopped, and passes over keys that
are not for it. `ConsoleInv` says where the keys read so far are: the lines run
and the line kept are those of the keys typed behind no prompt (`RanInv`; `Kept`
is the line that is on the screen, or put aside), the prompt that is there has
the strings of the last ask (`AskInv`), and each answer has those of its own
(`AnswerInv`).

Arguments: `Allowed` is computed from the end of the pattern and the loop goes
from its beginning, so the proof is about the table of all its intermediate sets
(`Table`): a lemma for each way the loop goes on (`TakeRow`, `SkipRow`, `LeaveMany`,
`TakeMany` and so on) says that the lists of the entry it leaves are those of the
entry it comes to, with the argument in front. `Leads` carries that over to what
has been read: the allowed lists that begin with `args` are `args` followed by
one from the entry where the loop is (`ReadsAt`). A handler is run where the rest
may be empty, and a line is turned down where the entry is empty. `Repeats` says
where the loop can be without having read what is repeated, from which follows
which lists are declared (`AllRepeated`) and which lines are the exceptions. That
this holds without ever going back needs the patterns to be as they are
(`WellFormed`: what takes the rest of a line comes last, what is repeated is one
word with nothing behind it but the rest of the line), which is shown of every row
of `args_of` (`CommandsAreKnown`) with two exceptions, the text of `broadcast` and
the user of `create_channel`. `Stuck` is the
loop of `create_channel` that does not come on. `CommandsAssumption` says that the
names are in the table, the lines are sequences of words, and a name ends what
comes before the words.

`LuaQueueProofs`. `QueueIsFramed` says what the array is by putting the entries
of the calls together; the invariant is `Frames`, which says it from the array's
side: there is a function that gives the slot where the entry of each call not
yet made begins, and between two such slots lies one entry. `push` moves it by
the length of what is added, a refused call leaves it as it was, and
`lua_do_all` takes the first entry off. That the entries put together are the
array is then shown call by call (`Builds`, `QueueFramed`). On `Frames` rest
`Current` (the arguments of the call being made), `Flags` and `Strs` (of the
arguments still to be read the strings are flagged, and they are the strings not
yet freed) and `Memory` and `Extras` (a record belongs to the call that asked
for it, until a flag strays onto it). `CallsInOrder` maps the array to the set
of calls that wait and shows each action to be a step of `ScriptCalls` or a
stutter. `TableAssumption` says that the rows of the table of functions are what
`lua-tg.c:1417` declares, and `BoundsAssumption` that the bounds are numbers.

`PyQueueProofs`. Entries have a fixed size in `python-tg.c`, and the array is
emptied at once, so the entries in it are the last calls that were accepted, by
number (`Numbered`); what is under way or dropped has had its turn (`Past`).
Every action is first shown to be one of five that matter to calls (`Accepts`,
`Answers`, `GoesOut`, `Turns`, `Nothing`); the invariant and the refinement to
`ScriptCalls` are then shown once for each.

Of the reference counts, `Balanced` says for every object that what its count
holds beyond the lists that are alive, and what was given back twice, are the
references of the script, the hooks, the tuples in the array and the queries,
and those that leaked: the sum `CountsAreHolders` states, with the lists taken
out (`Own`), so that a list which goes and gives back its own changes nothing
(`Living`). `UnderWay` accounts for the call being made, before and after it was
answered, and `Heap` and `Known` for what the script can refer to at all. Each
action is then a change of one count and one holder, and the lemmas are about
cardinalities of disjoint unions: what is pushed, what is parsed, what is given
back. What is in use has a holder, the elements of a list by their place in it
(`InListOfThem`), and so a count above zero. The assumptions say that the kinds
of objects are disjoint, and that the lists are finitely many and not empty.

Sums, joins and scans are recursive functions here, and what one of them computes
for every length is shown without an induction theorem: if it failed for some
number there would be a least one (`Least`, from the well-foundedness of `<`), and
it is not 0 and its predecessor does not fail.

Only model-checked:

* liveness (`StartsUp`, `QueuedIsTaken`, `CatchesUp`, `SafeQuitQuits`,
  `QueuedIsMade`), which the prover has no rules for;
* `PromptQuotesNeverGoBack` and `FittingLinesRun`;
* the four violations, each a behaviour TLC shows.

## 5. What is left

* `postpone` and `safe_quit` of a Lua script, and the commands that a script adds
  to the console (`lua-tg.c:1621-1690, 1831-1910`).
* The auth file, whose pattern is that of `TgFiles`.
* Symbols apart from ids in `Tickers`, for the two HitBTC symbols that map to one
  id.

Where a run can carry another question at no cost it should, rather than a new
run be added: a run per module and one per disagreement is the aim.

## 6. Not modelled

Of the web application: the layout of the pages, cookies, filters and colours;
`/setAlert` and the static routes, which keep no state; the page for a chosen
pair of exchanges, which polls as the ticker page does; the five exchange modules
the server does not load; that two HitBTC symbols may map to one id. That is a
hazard of `PROJECT.json` that no property covers, as are two more, whose steps are
in the models: the push that throws ends the process when the rows are written, and
cells that a click leaves as they were hold the choice they were rendered for.

Of telegram-cli: the auth file; what is printed, completion, and chat mode but
for its flag; `postpone`, `safe_quit` and the commands of Lua scripts;
attributes, comparison and printing of the Python types; JSON, which keeps no
state; the start-up options and the configuration file, read once and in
sequence; build files and packaging. The library `tgl` is a submodule that is
not in the repository: what it does is modelled from how `src/tg` uses it.
