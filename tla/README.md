# A TLA+ verification of sshnack

sshnack is a vending machine operated over SSH: an HTTP/JSON server in C with a
hand-written thread pool and one SQLite database, a terminal client, and an SSH
gate that turns a key into a user. This directory holds TLA+ models of the parts
that carry its logic, the TLC configurations that check them on small instances,
and TLAPS proofs that hold for every instance.

All paths below are relative to `src/`.

## Inventory

| part | state | operations | what makes it correct |
|---|---|---|---|
| thread pool (`server/src/threadpool`) | linked list of jobs, `working_cnt`, `thread_cnt`, `stop`, a mutex and two conditions | `tpool_create`, `tpool_add_work`, `tpool_wait`, `tpool_destroy`, the loop of `tpool_worker` | no wake-up is lost, the pool is freed after the last (detached) worker has left, jobs run once and in order, the waits end |
| services (`server/src/services`) | locals between SQL calls | purchase, deposit, refund, balance, restock, price, key lookup, catalogue | each operation is atomic in any interleaving, with failing calls and crashes |
| database (`server/src/db`, `init.sql`) | users, items, stock, transactions, stock_logs; one connection with at most one open transaction | the SQL statements | balances are the sum of the recorded transactions, quantities the sum of the stock log |
| handlers (`server/src/api/router/handlers`) | none | authorisation, validation, status codes | nothing reaches a service with an argument it does not expect |
| router (`server/src/api/router`) | radix tree of routes, built once; `strtok`'s static pointer | `add_node`, `search_node`, `dispatch` | every request reaches the handler of its route, 404 or 405 otherwise |
| HTTP parsing, authentication (`server/src/api`) | stack buffers | one `recv`, header scan, `auth_parse` | a token gives the role and the user it names |
| main loop (`server/src/server.c`) | two sockets, `keep_running`, settings | poll, accept, hand-over, SIGINT, shutdown | every accepted client is served or closed; shutdown ends |
| TUI (`tui/src`) | mode, selection, cached catalogue and balance, prompt buffer | key handling, refresh, API calls with a 5 s timeout | the selection is inside the catalogue, a mode is never left behind |
| SSH gate (`ssh/authencesn.py`) | none | key lookup with retries, start of the TUI | a key acts as its own user |

How they interact: the main loop hands each accepted client to the pool; a worker
parses the request, the router calls a handler, the handler a service, and the
service runs SQL on the connection that all workers share. The SSH gate asks
`/users/lookup` for the user of a key and starts the TUI, which calls the same API.

What is hard: the pool's condition variables and its shutdown; a transaction that
belongs to the connection and not to the worker that opened it; statements that
fail half way, SQLite's own rollbacks, a crash between two statements; ints read
from 64-bit columns; static state (`strtok`) under several workers; timeouts of
clients whose request is carried out later; a request cut by one `recv`; a cursor and
a prompt over a catalogue that changes. `PROJECT.json` lists the hazards line by line.

## Modules

| module | models |
|---|---|
| `ThreadPool` | `threadpool.c`: the owner (main thread) and the workers, one action per critical section |
| `ThreadPoolProofs` | the inductive invariant of `ThreadPool` and its theorems |
| `Order` | `ORDER BY slot_id` over a finite set |
| `Tables` | the tables of `init.sql` and the SQL statements of services and `db.c`, as functions on images of the database |
| `Machine` | abstract specification: the committed image changes only by whole operations |
| `Services` | handlers and services on several workers over one connection, one action per SQL call |
| `ServicesProofs` | the inductive invariant of `Services` and its theorems |
| `Router` | the route table, the radix tree and `search_node` on several workers over `strtok`'s static pointer, `dispatch` |
| `RouterProofs` | the two inductive invariants of `Router` and its theorems |
| `Catalogue` | `GET /stock` beside `Services`: `products_list` row by row on the shared connection |
| `CatalogueProofs` | the inductive invariant of `Catalogue` and its theorems |
| `HttpRequest` | `parse_request`, `auth_parse` and the `sscanf` of bodies, on any first part of a request |
| `Settings` | `load_config` of the server |
| `Server` | `main` of `server.c` and `handle_client`, composed with `ThreadPool` |
| `ServerProofs` | the inductive invariant of `Server` beside the pool's, and what is proved of texts and command lines |
| `Prompt`, `Grid` | the number parsers and the cursor movement of `app.c`, with references |
| `Tui` | `tui.c`, `app.c`, `api_client.c` against a server that others use too |
| `Session` | `authencesn.py`, composed with `Tui` |
| `DataProofs`, `InputProofs` | lemmas: induction, folds as loops, sorted sets; the parsers and the cursor for every text and shelf |
| `SessionProofs` | the inductive invariant of `Session` and its theorems |
| `MCThreadPool`, `MCServices`, `MCCatalogue`, `MCRouter`, `MCServer`, `MCSession` | small instances for TLC |

How they compose: `Services` extends `Tables` and instantiates `Machine` with the
committed image `disk` as the refinement mapping; `Catalogue` extends `Services`.
`Server` extends `ThreadPool`, `HttpRequest` and `Settings`: its main thread is the
pool's owner and its clients are the pool's jobs. `Session` extends `Tui`, which takes
the server as `Machine` promises it (an image that changes by whole operations of
`Tables`); the runs `price_lost` and `auto_rollback` say where the code falls short of
that.

### ThreadPool

The mutex makes each critical section one action; `pthread_cond_wait` splits
`tpool_worker` into `Sleep` and what follows the wake-up, and `tpool_wait` into
`CheckWait` (one evaluation of its loop) and being blocked. `mpc` is where the
owner is, `wpc[w]` where a worker is, `queue` the list between `work_first` and
`work_last`. `CreateFails` decrements the count and calls `tpool_destroy`, as
`tpool_create` does, while the threads that were already created run.
`history` variables (`added`, `started`, `done`) are read by properties only.

### Tables, Services, Machine

An image of the database is a record of what the statements read and write; the
two log tables are kept as sums per user and per item, which is what the
properties compare them with. `db` is what the connection sees, `disk` what is
committed, `txn` whether the connection is inside a transaction. A call by any
worker acts on `db`; when no transaction is open its effect is also committed.
`BEGIN` fails inside a transaction, `COMMIT` outside one, and `ROLLBACK` ends the
transaction no matter who opened it, as in SQLite.

`pc[w]` is the next SQL call of a worker. Every service is a chain of actions
`BEGIN`, its SELECTs and UPDATEs, `COMMIT`, and each failure path leads to
`undo`, the `ROLLBACK` the code makes there. What SQLite may do to a call is the constant
`Faults`: with `"error"` any call but the `ROLLBACK` may fail without effect (`Fault`), with
`"rollback"` together with SQLite's own rollback (`RollsBack`), and with `"undo"` the `ROLLBACK`
itself may fail (`UndoFails`). The services ignore its result, so the transaction then stays
open with nobody inside it and every `BEGIN` is refused until a restart or an automatic
rollback. `TxnOwned` and `TxnCloses` are therefore claims about a `ROLLBACK` that does not
fail; what is on disk is right in either case (run `store` has `"undo"`).
`Crash` restarts the process from `disk`. Ints keep their width through `ToInt`
(`sqlite3_column_int`) and `Neg`; `INT_MAX` is a constant, so that small runs
reach it. The constraints of `init.sql` (CHECK, FOREIGN KEY, UNIQUE) and
AUTOINCREMENT are part of the statements.

`Machine` says what a client may rely on. Its operations leave the prices open
(`Becomes`): the price update is not part of anybody's transaction, so it may land
in the middle of one.

### Router

`Routes` is `init_router`'s table. The tree that `add_node` builds from it is written
in closed form: a node is the sequence of names that leads to it, and `Nodes`,
`Payload` and `WildRoutes` say which nodes exist, what they carry and which wildcard
child comes first. A call of `dispatch` strdups the path, then alternates between
`strtok` and one step down the tree; `strtok` is three actions (`Load` the static
pointer, `Scan` the characters, `Store` the `'\0'` and the pointer), since two
workers may be inside it at once. A pointer into a copy that its owner has freed may
find anything (`Dangling`), and the `'\0'` written through it may land in a copy that
has been given the memory since. That the process may also abort on a damaged heap is
left to `Services!Crash`. `Answer` is the order of `dispatch`'s tests.

`Matching` and `Declared` are the reference: they compare a path with the route table
part by part and know nothing of the tree.

### Catalogue

A reader is a worker while it handles `GET /stock`. Each `sqlite3_step` is an action
that appends one row as the connection sees it; everything `Services` does may happen
between two of them. `Grow` is the doubling of the array, `StepFails` every failure
(prepare, allocation, step), which may also roll back the transaction that another worker
has open (`CallFails`). `mixed` is history: whether a transaction was open, or
something was committed, since the listing began. `product_get` has no caller.

### HttpRequest, Settings, Server

`HttpRequest` is about texts: sequences of characters, in which a digit is itself and a fixed
word (a method, a header line, the body up to its number) is one character, because the code
only compares such a word whole. `Text(r)` is what a client sends, and `recv` brings any first
part of it. `parse_request` does what the code does with that part: `sscanf` of two words with
the cut of the path (`%63s`), the scan of the header lines up to the blank line or the last
line that has its end, the cut of the token and of the body, `auth_parse`; `body_number` is the
handlers' `sscanf` of the body. The room for path, token and body is a constant each.
`PartIsSafe` says what must come of any part: with a role it is acted on only as the whole
request would be, path and token up to their room, and with a first part of the number.
That a path or a number is cut and not refused it permits, because the code does it.
`strtol` and `%d` take blanks and a sign; `strtol` saturates at `LONG_MAX` and the cast to
`int` wraps, with both as constants. `TokenIsUser` is the reference for the token.
`Settings` folds `load_config`'s loop over the command line; `Precedence` is the
reference.

In `Server`, `spc` is where `main` is, `conn[c]` the state of a client's connection,
`hpc[w]` where a worker is inside `handle_client`. The actions of `ThreadPool` are
reused: `Accept` is `AddWork`, `ShutDown` begins with `Destroy`, `AwaitWorkers` is
`CheckWait`, `Close` ends the job. `recv` waits until the client has said something or
has gone, for ever if need be. `SIGINT` reaches `main` (and ends `poll`) or a worker
(and ends its `recv`). `NoNode` is the null pointer that `tpool_work_create` writes
through; a failed start leaves `main` with -1.

### Prompt, Grid, Tui, Session

`Prompt` and `Grid` are functions: what a text in the prompt is worth, and where an
arrow key moves the cursor in a grid with holes; `ReadAsTyped` and `IsVerticalStep`
define the same by place value and by distance.

`Tui` has `app_t` as the record `app`, reduced to what its code branches on. A key
handler runs up to its first request (`app_handle_key`); `pc` then says which request
is out, and `BuyReturns`, `CashoutReturns`, `PromptReturns`, `StockReturns`,
`BalanceReturns` are what follows its return: `"ok"`, `"http"` or `"network"`. A request
that the client gave up stays in `issued` and may be carried out at any later time.
Meanwhile other clients buy, reprice or use the same account (`Elsewhere`), and the
server may be replaced and its database seeded anew (`Reseed`, `server/entrypoint.sh`),
with fewer slots on sale. The text of `message` is reduced to what it says of the last
write.

`Session` is the script that `sshd` runs at each login: up to `MAX_ATTEMPTS` lookups,
each of which may fail, time out, or be carried out after the script gave it up (`late`);
then `Login` starts the TUI with the user it found, or without one.

## Runs

| run | instance | shows |
|---|---|---|
| `pool` | 3 workers, 4 jobs | join before free, no lost wake-up, the owner is not stranded, jobs in order and once, `tpool_wait`'s contract; `tpool_destroy` returns |
| `money` | 2 workers, 5 requests, 1 crash | one owner of the transaction (no `ROLLBACK` fails here), money conserved, `Machine` implemented, refunds exact |
| `store` | 2 workers, 4 requests, 1 crash, failing `ROLLBACK`s, `INT_MAX` 3 | stock agrees with its log, also beyond `INT_MAX`; atomic below it; a key's account is its own, for life, the lookup answers it, and two keys are never answered the same one |
| `answers` | 2 workers and a reader, 3 requests, 1 crash, SQLite's own rollbacks | every request is answered, no transaction stays open (no `ROLLBACK` fails here); a catalogue answered 200 is whole, and the committed one if nobody was inside a transaction meanwhile |
| `route_race` | 2 searches, 11 requests | a request is run by its own handler or refused; an undisturbed search computes the declared match |
| `server` | 2 workers, 2 clients, 1 failing call | types; routes and database outlive the workers; an accepted socket is in the queue or on a worker; after `SIGINT` to any thread the process ends and a client of either port is served, both unless silent clients hold the workers; a part of a request never acts for somebody else or on anything but its path; a token is the user it names; settings have their precedence |
| `session` | 1 session, 2 lookup attempts, 4 keys, 1 change by others | types; the cursor stays inside the catalogue; a prompt acts on the slot it was opened for; the message never denies a write that was made nor claims one that was not; the screen after a write is the server's; parsers and cursor agree with their references; a session started with a user is its key's account; the login completes and every key is answered |

Five runs are expected to find a violation; each refutes a sentence of `readme.md`:

| run | `readme.md` says | the code |
|---|---|---|
| `pool_drain` | shutdown drains the pool | queued jobs are dropped |
| `price_lost` | every write path has its transaction | a price update answered 200 is undone by another worker's `ROLLBACK` |
| `auto_rollback` | rolls back whole on any failure | after SQLite's own rollback the rest of the operation is committed by itself |
| `route_mix` | 404 for an unknown path, 405 for a missing verb | two searches at once read each other's path: `GET /stock` is answered 405 |
| `shared_account` | identity is resolved from the key | when the lookups fail, the session acts as user 67, who is another key's user |

### Bounds

Three workers are the fewest with one asleep, one running and one leaving; four
jobs let the queue hold more jobs than it has free workers. Two workers are enough for every
interference over the connection: one inside the transaction and one outside it.
Five requests are a deposit, two competing sales, a refund and one more. Ids of
users are bounded by `UserIds`; `store` has enough of them that AUTOINCREMENT
does not run out before the requests do. `MaxRequests` and `MaxCrashes` bound the
behaviours, so a run ends in states with nothing left to do and deadlock is not
checked; in `ThreadPool` the freed pool is the end. Two searches are enough for
one to read, cut and outlive the other's path; a third only repeats what freed memory
may already hold. Its requests are what TUI and gate send, an admin's price, and some
that no verb, route or socket fits; several are about `/stock` because no other routes
begin alike.

`answers` lists two slots with room for one, so that the array grows. `server` has one
client per port and as many workers: each may be silent, served or dropped; one failing
call is enough since every failure path but `AcceptFails` ends the process or the loop.
Widths are small (`INT_MAX` 31, `LONG_MAX` 90, room for two characters of a path or a token and
two digits of a body), paths, tokens and numbers have up to three characters and command
lines up to four words, so that each limit is passed by some input. `session` presses four
keys: one to open a prompt, one to fill it, one to confirm it and one more; one change by
others is enough to make the screen stale or the catalogue shorter. `PROMPT_BUF_LEN` is
2, the admin sequence one key, and the default user is 2 where the code says 67, so that
two keys reach that id; `PromptExact` and `CursorExact` are checked on all `Texts` and
`Cells`, independently of the four keys.

### Fairness

`ThreadPool!Fairness`: a worker keeps running, a job returns, and the owner
finishes a call it has begun. Nobody is obliged to add work, to wait or to destroy,
and nothing is assumed of spurious wake-ups; strong fairness is not needed. That a
job returns is an assumption about clients (`recv` has no timeout), recorded as a
hazard. `Catalogue!CFairSpec`: a worker inside a handler keeps running; SQLite's
mutex is released after each call.

`Server!SFairSpec`: `main` and every worker keep running, and `poll` returns after
500 ms. Nothing is assumed of clients or signals; instead `ShutdownEnds` and `Served`
have `NoStall` as their hypothesis (no client stays silent for ever): a single silent
client refutes the first, one on every worker the second. `Session!FairSpec`: the script
and the TUI keep running, and a request ends, because both have a timeout of five
seconds. Nothing is assumed of the server, which may never answer.

## Proofs

Eight modules hold theorems and lemmas; TLAPS checks every step of them. They assume what
the named assumptions of the models say and nothing else, except where stated. Every
invariant that a passing run checks is a theorem; each inductive invariant was checked by TLC on
an instance of the runs first. What the assumptions say is true of the program for any
size: sets of workers, slots and cells are finite, slot numbers positive, texts are made of
what the prompt lets in, digits are digits.

**ThreadPool** (`PoolAssumption`: finitely many workers, at least one). `TypeCorrect`,
`Joined` (freed after the last worker has left), `NoSleepForever` (no lost wake-up),
`OwnerIsWoken` (the owner is not stranded), `TakenInOrder`, `WaitIsComplete`. The invariant adds to these what
makes them inductive: `CountInv` (`thread_cnt` and `working_cnt` are the cardinalities of
the sets of live and of busy workers, also while the pool is being created), `OwnerInv`
(where the owner may be when `stop` is set) and `JobInv` (a job taken is on a worker or
done). The waits test the counters only, so no property of the workers follows without
`CountInv`.

**Services** (`TablesAssumption`, `ServicesAssumption`: any sets of workers, users, items
and requests, any `INT_MAX`; and `"rollback" \notin Faults`, as the theorems state:
with SQLite's own rollbacks they are false, see `auto_rollback`; `OneOwner` has the further
hypothesis `"undo" \notin Faults`, the others hold when a `ROLLBACK` fails). `ServicesTypes`,
`OneOwner`, `MoneyIsConserved`, `StockIsConserved`, `AccountsAreSeparate`,
`LookupIsCommitted`, `AccountsAreForLife`, `RefundsAreExact`, and the refinement
`ServicesImplementMachine`. Conservation speaks of the committed image, which COMMIT
replaces in one step by the connection's: the invariant has to know what the connection
sees at every call. `ProgressInv` says it: `db` is `disk` plus the statements that the
owner of the transaction has already run, up to prices (`Repriced`), because a price
update may land in between. `LocalInv` keeps what the owner has read true of `disk`,
`ControlInv` ties calls to operations, `QuietInv` says `db = disk` outside transactions.
The argument: at most one worker is inside a transaction (`TxnHeld`, which unlike `TxnOwned`
allows one that a failed `ROLLBACK` left open with nobody inside), so for all others
these are vacuous or unaffected; only COMMIT and the bare price update change `disk`; and
at COMMIT the image is that of one whole operation of `Machine`, as long as no int read
from a column has lost its high bits (`AtomicBelowIntMax`; `balance_reset` refunds
only the low 32 bits of a larger balance). `KeysApart` keeps every id in use behind the
AUTOINCREMENT sequence; that two sessions are not told the same id follows from it and
`LookupAnswer`. `OneOwner` adds `NoneLeft` (an open transaction has somebody inside).

**Router** (`RouterAssumption`: any calls and any requests). `RouterTypes` and
`NeverAnothersHandler`: although searches read each other's paths and freed memory, a
request is run by its own handler or refused. The invariant is that a search is always
under the first name of its own path: `strtok` is given the pointer there, and nobody has
one into the copy yet. No two routes that begin alike have a handler for the same method,
and that is what the result rests on; a `GET` on `/stock/:slot_id` would break it (the
mutant of `route_race`).

`UndisturbedIsExact` is the converse: a search whose path and pointer nobody else touched
(`disturbed`) answers what the table declares, for a path of any length. Its invariant,
`RouteInv`, adds for such a search that strtok's pointer is its own and its path uncut
behind it (`OwnPointer`), and that the search stands where the names read so far lead while
every matching route continues from there (`Follows`, which counts the non-empty parts read).
`Unshared` is what makes the start right: nobody has a pointer into the copy of a path
that is not yet searched.

**Catalogue** (`CatalogueAssumption`: any finite set of slots, any initial capacity).
`ListingsAreWhole`, `ListingsAreCommitted` and `SelectInOrder` have no hypothesis on `Faults`:
they hold with SQLite's own rollbacks. `CatalogueImplementsServices` carries what is proved of
the services over to a server with readers, under the same hypothesis
`"rollback" \notin Faults`, since a failing listing may roll back another worker's transaction.
`ListInv`: the rows so far
are those of the first slots, fit the array (`WholeAt`) and, unless `mixed`, equal what is
committed (`CommittedAt`); the latter needs `QuietInv`, `db = disk` outside a transaction,
which is kept by each call of `Services`.

**Server** (`PoolAssumption`, `ServerAssumption`: any workers, clients, faults, tokens,
requests and command lines). `ServerImplementsPool` shows that the server's steps are steps
of `ThreadPool`, so that the pool's theorems hold in it (`ServerJoins`). `ServerTypeCorrect`,
`RoutesAndDbInUse` and `NoSocketLost` follow from `SIndInv` together with the pool's
invariant: `MainInv` (where `main` is says what is open and how far the pool has come) and
`ClientInv` (a client is handed over at most once, and workers hold different clients).
That the database outlives the workers rests on `CountInv` of the pool, through
`FreedIsJoined`. `TokensExact`, `PartialRecvSafe` and `ConfigInOrder` are about texts of any
length (`WidthAssumption`, `RoomAssumption`: any widths with `INT_MAX` below `LONG_MAX`, any
room above 0): `strtol`'s saturating loop against the number that was written, and
`load_config`'s loop against the last valid occurrence of each flag. `PartialRecvSafe` lays the
text out by positions (`TextLaid`: which character stands where, given the lengths of path,
token and number) and follows the scan: the words end where they should once the line has an
end; a part that stops before the token's line has ended has no token (`NoBearer`), any longer
one has the whole of it up to its room (`Bearer`); and the scan stops at the blank line, or at
the last whole header line, behind which no key of a body begins.

**Session and Tui** (`TablesAssumption`, `PromptAssumption`, `TuiAssumption`,
`SessionAssumption`: any keys pressed, other clients, shelves, lookups). `SessionTypeCorrect`,
`SelectionStays`, `PromptTargetKept`, `TruthTold`, `ScreenIsCurrent`, `IdentityKept`, and for
every text and shelf `TextsReadAsTyped` and `CursorsExact`. `SessionTypeCorrect` has the
hypothesis that `Amounts`, the model's set of prices, holds every int above 0: the prompt can
set any of them. The others have none; the invariant is parameterised by the set of prices
that may occur (`IInv(P)`) and instantiated with the positive numbers. Its parts:
`ServerOk`, `WritesOk`, `ClientOk` (types, the cursor on a product, the length of the
prompt's buffer); `PromptInv` (a prompt is open only while keys are read or its own write is
out, and the selected slot is the one it was opened for: no refresh moves the cursor under
a prompt); `GateInv` (until the database is wiped, the key's account is what the script was
told, so that a lookup carried out late finds it and makes no other); `Told` itself, and
`ScreenInv` (after a write that succeeded, the products on the screen are the server's from
the first read on, the balance from the second). A step is the client's, the server's or the
script's, and each touches only its own variables; what a client's step does to the prompt,
the message and the requests is classified once (`ClientSteps`), and the invariants are
proved from the classification.

**Data.** The library's induction theorems take an operator as a parameter and cannot be
used, so `DataProofs` has them for sets: a set that holds 0 and with each number the next
holds all (`Induct`, from the well-foundedness of `<`). `FoldTableExists` and `FoldTrace`
turn a fold of the community modules into the run of a loop, and a loop is then proved by
`InductUpto` with an invariant, as in a program proof: `ReadExact` (what the parser has read
is the place-value sum, or both are beyond the limit), `FindNearest` (the nearest column so
far), `WalkEnds` (rows skipped), `ConfigRuns`. `OrderByInOrder` is the correctness of the sort.

Model-checked only: liveness (`DestroyReturns`, `TxnCloses`, `EveryoneAnswered`,
`ShutdownEnds`, `Served`, `LoginCompletes`, `KeyAnswered`), which needs fairness and `ENABLED`;
`Atomic`, the refinement without the proviso on ints: it is false for constants with which an
int is truncated and true on the instance of `money`, whose sums stay below `INT_MAX`, while
`AtomicBelowIntMax` is what holds for all of them; and every violation.

## Not modelled

- Drawing (`ui.c`), logging, JSON and HTTP formatting, the vendored cJSON: no state.
- `product_get` (no caller) and `handle_get_slow` (a sleep of ten seconds, which `Server`
  has as a `Serve` that takes its time).
- A failing `malloc` or `strdup` in the router; a heap damaged by `strtok`'s freed buffers
  beyond what `Dangling` reads from it.
- `API_ERR_PARSE` of the TUI's client: answers are what the server's handlers format, so it
  needs a TUI that runs out of memory in cJSON (a cash-out would then be reported as failed).
- In a request: a method longer than `%15s` and header lines other than a token's, whose text
  nothing looks at; the room for a body is counted in the model's characters.
- Containers, `sshd` itself and the build.

That a balance is read while another worker's transaction is open (`GetBalance`) is
modelled and no property forbids it.

## Plan

Every part in scope is modelled and every invariant the passing runs check is proved. What is left:

1. State and prove more of what `Services` promises beyond the runs: that an operation
   answered with an error left nothing on disk (also when its `ROLLBACK` failed), and that `Machine`'s own invariants carry
   over to `Tui`, which takes the server as `Machine`.
2. `ServerImplementsPool` with the fairness of both, by TLC (the pool's liveness assumes
   that jobs return; the server's `NoStall` says when they do).
3. Shorter proofs where two modules repeat an argument (the fold lemmas of `ServerProofs`
   and `InputProofs`).
