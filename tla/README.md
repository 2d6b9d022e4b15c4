# Revlm in TLA+

Revlm is a self-hosted gateway for language-model APIs. It takes OpenAI- and
Anthropic-style requests under `/v1`, forwards them to one of several upstream
channels, and charges a prepaid balance for what the upstream reports. This
directory models the parts of it whose correctness depends on order: the order of
database statements, of two threads, of events in a stream, of attempts at
upstreams, and of the answers that a page of the web console waits for. TLC checks
each model on small instances, and for the main safety properties TLAPS proofs
cover instances of every size.

`backend/` is the server (C++, cpp-httplib, ODB on MySQL), `frontend/` the web
console (TypeScript, React, axios, Bootstrap). Paths below are short for the ones in
`backend/src/` and `frontend/src/`.

## 1. Inventory

| Component | Code | State it keeps | Operations | Module |
| --- | --- | --- | --- | --- |
| prepaid billing | `users/users.cpp`, `request/request.cpp`, parts of `tokens.cpp`, `user_admin_api.cpp`, `gateway.cpp`, `http_dispatch.cpp` | `users.balance_usd`, `requests`, `request_totals`, the per-process request counter | admit, debit, record, add up; edit, top up, delete | `Ledger` |
| stream bridge | `proxy/upstream.cpp` 453-622 | one `StreamBridgeState` per stream: queue, flags, worker thread | open, deliver, read, close, destroy | `StreamBridge` |
| stream pump | `proxy/gateway.cpp` 434-622, 735-983, 1233-1432 | one `GatewayStreamPump` per stream: flags, pending bytes | read, pass on, pick events, close, bill | `StreamPump` |
| failover | `proxy/gateway.cpp` 199-271, 656-819, 985-1212; `upstream.cpp` 258-321 | the copy of the group, the last failure, `request.upstream` | walk the group, retry once, answer, record | `Failover` |
| database access | `store/database.cpp`, `include/store/database.hpp` | the connection pool, the transaction of a thread | begin, statement, commit | `ConnPool` |
| prices and cost | `models/models.cpp`, `include/request/proxy_request.hpp` | none (tables in code) | `compute_usd`: tiers, multipliers | not modelled |
| channels and groups | `channels/*.cpp` | `channels`, `channel_groups`, `channel_group_members` | create, edit, delete, members | what the handlers do for one administrator: `ChannelGroupsPage`, `ChannelSettings` |
| accounts and sessions | `users/user_api.cpp`, `users/user_admin_api.cpp`, `users/users.cpp`, `auth/session.cpp` | `users`, `sessions` | register, log in and out, change, administer, delete | `Accounts` |
| tokens of users | `users/token_api.cpp`, `users/tokens.cpp` | `user_tokens` | create, rotate, revoke, bind | what the handlers do for one user: `TokensPage`, `TokenDialogs`; deletion and look-up in `Ledger` |
| schema | `store/schema.cpp`, `migrations/` | `schema_migrations` | migrate at start | not modelled |
| process life cycle | `main.cpp`, `server/http_server.cpp` | `running`, `draining_` | start, drain, stop | not modelled |
| usage analytics | `http_dispatch.cpp` | none | windows, pages, grouping, formatting | pages: `UsagePaging` |
| input checks, crypto, configuration | `util/`, `auth/crypto.cpp`, `auth/security.cpp`, `config/` | none | parse, hash, validate | not modelled |
| console: pages of every user | `pages/TokensPage.tsx`, `UsagePage.tsx`, `DashboardPage.tsx`, `LoginPage.tsx`, `RegisterPage.tsx`, `AccountPage.tsx`, `auth/` | what a page was told, what is typed, flags, cursors | show, reveal, create, bind, turn pages, sign in | `UserConsole` and the modules it extends |
| console: pages of root | `pages/admin/*.tsx` | the same | keep groups, channels, users; read usage | `AdminConsole` and the modules it extends |
| console: popovers, dialogs | `hooks/`, `components/DateRangePicker.tsx`, `components/admin/ConfigForm.tsx`, `pages/usage/*.tsx` | open, fading, frames and timers, what is typed | open, close, give back | `Popovers`, `Browser`, `UsersPage` |
| console: display | `ModelsPage.tsx`, `TokenCreatedPage.tsx`, formatting, layout | none | show | not modelled |

**How they interact.** httplib serves each HTTP connection on a thread of a pool.
A `/v1` request authenticates its token (`tokens.cpp`), gets an id
(`make_request`), passes the balance gate, and is given to `Gateway`, which takes a
copy of the channel group of the token and tries its members (`Failover`). A request that is
not streamed is sent by `UpstreamExecutor::execute` on the same thread. A
streamed one starts a worker thread (`StreamBridge`) and installs a *content
provider*, a callback that httplib runs on the request's thread after the route has
returned; the provider pumps bytes from the bridge to the client
(`StreamPump`). Either way the usage found in the answer is charged and recorded
by `commit_proxy_usage` (`Ledger`): first a debit of the balance, then a row of
`requests` and its addition to `request_totals`. Every store operation works on
the one pool of connections (`ConnPool`), which all processes of a deployment have towards the
same database. The web console is one page application: a router mounts one page at a
time, a page asks the management API through axios and keeps what it is told in React
state. Its handlers are asynchronous, so between a click and the rest of the handler
the user may click on, other answers may come, and effects of React may run.

**What is hard about it.**

* `sql_exec`, `sql_query_one` and `sql_query_rows` take a connection of their own
  although a `ScopedTransaction` is open on the thread. So statements issued
  through them commit one by one, `FOR UPDATE` locks vanish at once, and one
  operation needs two connections at a time. Only statements of ODB itself are part of the transaction.
* Balances, totals and user rows are read, changed in memory and written back as
  a whole, with other requests, administrators and processes in between.
* The request id, which is also the key that prevents double recording, is a
  counter that starts at zero in every process.
* Worker and reader of a stream share a queue, three flags and a mutex; either
  may be the last to let go of the shared state, and its destructor runs on that thread.
* A client may leave a stream at any moment; the upstream must then be read to the
  end of the answer, for billing, but not forever. If it leaves before the answer begins,
  httplib does not call the provider at all, and a `finalize` that throws ends differently
  on the two routes.
* The id of a request is given on arrival and its row stored at the end, so rows appear
  below ids that a page has listed already.
* Callbacks run after the frames that made them have returned.
* What is kept from one failed member of a group (status, body, headers, the
  member itself) is still there when the next one answers.
* The pages of the console seldom look whom they had asked: an answer may come
  late, after another one, or not at all, and is applied to the page as it is then.
* One form, one dialog, one range and one cursor serve all rows of a table.
* Flags that disable buttons are raised and lowered by handlers that overlap, fail and
  return early; panels are shown and removed by frames and timers that cancel each other.

**What makes each part correct.**

* Billing: nothing is recorded that was not paid; a commit that reports success has
  its row; no user pays more than the costs of the requests; no balance is below zero or
  above what was credited; totals agree with rows.
* Bridge: no byte is lost or reported as end or error; no hang; whichever thread lets go
  last, the shared state is freed and its thread joined or detached.
* Pump: only reported usage is billed; a complete answer is billed even if the
  client leaves while it is passed on; a client that stays gets every byte; every answer
  ends with its worker gone.
* Failover: the first healthy member answers, a failure is given only after all
  have failed, and an answer and its row speak of one member.
* Pool: threads do not block each other for good.
* Accounts: a root user remains; nobody becomes root unasked; a password stays
  with its account; a closed session stays closed. More would be wished for and
  does not hold (section 5): an edit can undo another.
* Console: what is shown of an object is what was asked for last about that object; what is
  typed for one object is not stored for another; a walk through pages skips
  nothing that is there; nobody without a session is shown a page behind the login; no control stays
  disabled. Where a page keeps this only under a condition, the property names the condition (section 5).
* Not stated yet: tokens (the answer to a creation names the token that was created),
  schema (a crash between a migration and its record does not stop the next start).

## 2. Modules

| Module | Extends | Content |
| --- | --- | --- |
| `Ledger` | | billing, edits, deletions, faults |
| `MCLedger` | `Ledger` | the instances, what a user is charged in all, and one promise of the documents |
| `LedgerProofs` | `Ledger`, `TLAPS` | 7 theorems |
| `StreamBridge` | | worker and caller of one upstream stream; its `Spec` is also the contract the pump is held to |
| `StreamPump` | `StreamBridge` | a content provider on top of a bridge |
| `StreamProofs` | `StreamPump`, `TLAPS` | 3 theorems about the bridge, 4 about the pump |
| `Failover` | | one request on its way through a group |
| `FailoverProofs` | `Failover`, `TLAPS` | 4 theorems |
| `ConnPool` | | transactions and statements on the pool |
| `ConnPoolProofs` | `ConnPool`, `TLAPS` | 2 theorems |
| `Accounts` | | users and sessions under the management API |
| `MCAccounts` | `Accounts` | the symmetry of its instance |
| `AccountsProofs` | `Accounts`, `TLAPS` | 5 theorems |
| `Browser` | | what the pages share: handlers that wait, clicks, dialogs of Bootstrap |
| `TokensPage`, `TokenDialogs` | `Browser` | the table of tokens; its dialogs for the group and the usage of a token |
| `UsagePaging` | | the pages that the server cuts out of the events |
| `UsagePage` | `Browser`, `UsagePaging` | usage and events of a user |
| `SessionPages` | `Browser` | signing in and out, the guard of the routes |
| `TimeSeriesChart` | `Browser` | the chart of both dashboards |
| `Dashboard` | `TimeSeriesChart` | the dashboard of a user |
| `Popovers` | `Browser` | the strip of filters, range and page size above a table |
| `UserConsole` | all of these | the pages of every user, one mounted at a time |
| `ChannelGroupsPage` | `Browser` | groups of channels and their members |
| `ChannelsTable`, `ChannelSettings` | `Browser` | the table of channels with the series of one; the dialogs of a channel |
| `LastRequest` | | abstract: a part of a page that shows what was asked for last |
| `UsersPage` | `Browser` | users and the forms about them |
| `UsageAdminPage` | `Browser`, `UsagePaging` | usage and events of all users |
| `AdminDashboard` | `TimeSeriesChart` | the dashboard of root |
| `AdminConsole` | the modules of root's pages | the pages of root, one mounted at a time |
| `MCUserConsole`, `MCAdminConsole` | `UserConsole`, `AdminConsole` | the bounds on clicks |
| `ConsoleLemmas` | `TimeSeriesChart`, `UsagePaging`, `TLAPS` | lemmas about the slots of calls and about pages of events |
| `UserConsoleProofs` | `UserConsole`, `ConsoleLemmas` | 7 theorems, for all the properties of its run |
| `AdminConsoleProofs` | `AdminConsole`, `ConsoleLemmas` | 8 theorems, among them that the series implements `LastRequest` |

Definitions that start with "Mutant:" in their comment are wrong on purpose: each
is a plausible slip in the code, and putting it in the place of the definition
that follows it must break a named property. They show that the property depends on
the code.

### Ledger

One action per database statement, or per transaction where ODB's statements
share one. A request `r` goes `new` - `gate` - `upstream` - `debit` - `debitWrite`
- `commit` - `commitWrite` - `committed`, with the early exits of the code.

| Action | Code |
| --- | --- |
| `Arrive` | `make_request` and the token check: the id is the process's counter |
| `Gate` | `paygo_balance_gate` |
| `Upstream` | the gateway answers; `compute_usd` gives any cost in `Costs` |
| `DebitRead`, `DebitWrite` | the `SELECT ... FOR UPDATE` and the `UPDATE` of `debit_user_balance_usd`, two connections, two commits; `Printed` is the rounding of `"%.6f"` |
| `CommitBegin` | the first `find` of `Request::commit`, which fixes the snapshot of the transaction (REPEATABLE READ) |
| `CommitWrite` | `persist` and `apply_total`, committed together or rolled back together |
| `DbError` | an exception of any of those statements |
| `EditRead`, `EditWrite` | the read and the write of the whole user row by every account edit and by a top-up |
| `DeleteToken` ... `DeleteUserRow` | the statements of `delete_user_token` and `delete_user`, each with its own commit |
| `Restart` | a process dies and starts again with `request_counter` 0 |

Money is counted in half micro-dollars, so that `"%.6f"` can write the even
numbers only and a cost of 1 is rounded. `credited` and `paid` are history
variables.

### StreamBridge

`wpc` is where the worker is, `cpc` where the caller is. A critical section that does
not block is one step; the mutex is a variable all the same, since the caller joins the
worker while it holds it. Bytes are numbered, and a queued chunk is the number of its last byte; `ReadTurn` is one
turn of the loop in `stream_bridge_read`. `Drop` and `WorkerRelease` are the two ends of the `shared_ptr`: whoever is second runs
`~StreamBridgeState`, which joins the worker (`CallerDestroys`) or, on the worker itself, detaches it (`WorkerDestroys`);
only then does the thread end (`WorkerExit`).

### StreamPump

A byte of the bridge stands for one event. `script` says, from the beginning,
what the upstream will send: `text`, `usage`, `badusage` (a usage object without a count,
at which `finalize` throws), `done`, `final` (`response.completed`, with usage) or
`overlong` (a line that `SseReader` refuses). `PumpRead` is a whole turn of the loop of `pump_gateway_stream`: the read, the bytes passed on (`PassOn`), the events
(`Consume`) and the test whether to go on. `PumpClose` is what follows the
loop, `PumpComplete` the completion callback with the decision to bill.
`route` distinguishes the two callbacks of the program: that of `run_stream`
(chat and messages) and that of `handle` (responses). The latter reads variables of frames
that have returned; a read of a variable that is gone may give anything, which is the
nondeterminism in `Bill`.

httplib calls the provider only if it finds the client still there (`PumpStart`); otherwise the provider is `skipped` and the
stream is let go without a completion callback (`PumpAbandon`). A `finalize` that throws ends the loop on the route
`run_stream`, which has a `try` around the pump (`thrown`); on `handle` there is none, the exception leaves a function of a
pool thread and `std::terminate` ends the process (`terminated`): nothing happens after that, `Beside` says so for the steps of the bridge.

### Failover

`pointer` walks the members of the copy of the group. Each usable member is sent
the request (`Refused`, `TransportFails`, `Accepted`), once more if it names an
unsupported parameter (`RefusedParameter`, then `RewriteRefused` or
`RewriteAccepted`). `last` is what the code keeps for the final failure, `upstream` what
it keeps for the row. Headers and bodies are represented by the member they came
from. The five routes are the three functions of the gateway, with `handle` split into its
streamed and plain paths and the early return for `input_tokens`.

### ConnPool

Where a thread is determines which connections it holds. `Begin`
and `Statement` wait while `MaxOpen` connections are out, without a limit in time, as ODB's pool does.

### Accounts

A handler is one request, on any process, with an action per store operation; what
it read before stays in `actor` and `copy` while others write. A session is
named by the handler that opened it, a password by the handler whose request
chose it, which makes both fresh.

| Action | Code |
| --- | --- |
| `RegisterCount`, `CreateUser`, `OpenSession` | `register_response`: `count_users`, `create_user`, `SessionStore::create` |
| `Login` | `login_response` with the right password of an enabled user |
| `SessionRead`, `UserRead` | the two reads of `authenticate_web_session_impl` |
| `Logout` | `delete_by_token_hash` |
| `AccountRead`, `AccountWrite`, `AccountClose` | the read, the whole-row write and `delete_all_for_user` of a change of email or password |
| `AdminRead`, `AdminEdit`, `AdminReset` | an edit (`Edits`: what the checks on the own account let pass), a top-up, a password reset |
| `AdminCreate`, `AdminDelete`, `DeleteSessions`, `DeleteRow` | creation; deletion, whose sessions go in a statement of their own |
| `Refuse` | any check that fails, any error, a crash |

### The console: Browser and the pages

A handler of a page is cut at its awaits. What it does up to an await is one step, which
puts a request into a slot of `calls` (there are `MaxCalls`); the server's handler is a step
(`...Serve`), at any time, and reads or writes the tables as they are then; the rest of
the handler is a step that finds the page as it is then. `CallFails` answers a call with a
failure, before or after it had its effect: that stands for an error of the server
(`success: false`), a lost request and a lost answer. Calls wait in any order, which gives every
order of answers. What the user does is an action with the guard that the page gives it
(a button that is disabled or covered by the backdrop of a dialog cannot be
clicked), and there are at most `MaxClicks[page]` of them. An effect of React is a part of
the step after which it runs. `open` and `hiding` are the dialog that is shown and those that fade:
Bootstrap's `show()` on a dialog that fades does nothing, and its `hidden.bs.modal` comes later.

| Module | State and actions |
| --- | --- |
| `TokensPage` | `tokens`, `revealed`, `revealLoading`, the dialogs for creating a token and for a new value; a value is the number of times it was generated, so a stale one is a smaller one |
| `TokenDialogs` | one `selectedGroupID` and one window of usage for all rows, each tagged with the token that it came for |
| `UsagePage`, `UsageAdminPage` | cursors, and the set of events that pass the range and the filters; a query is answered from the rows there are then (`UsageServe`); `RequestEnds` stores a row of any id, below those already listed too, `RowsDeleted` takes one away; `walk` is the history of a walk forward, against which `NoGap` is stated |
| `UsagePaging` | the cut of a page with its cursors; `Walked`: what a walk has met, and what it had to meet because the row was stored when the walk passed its place |
| `SessionPages` | `AuthProvider` (`user`, `booting`, `loading`), the routes, login, registration, logout, the account form; `parted` says that the session ended where this browser cannot see it |
| `TimeSeriesChart`, `Dashboard`, `AdminDashboard` | the effects that load a series and that draw it; the second runs only when its dependencies change |
| `Popovers` | `usePresence`, `useAnchoredPopover`, the pickers: frames and timers as variables, run in any order |
| `ChannelGroupsPage` | the group in the URL, `selectedGroup`, the draft; `Then` names what a chain of calls goes on with |
| `ChannelsTable` | the range of the table, the 400 ms before a change of it is sent, the open row with its series; the effect's `active` flag is `seriesCall`; `creator` is the handler whose `creatingType` disables the buttons that create |
| `ChannelSettings` | the form that an effect fills again whenever the rows change; saving, deleting, the pointer; `tabSaves` are the saves of the tab that is mounted, since a save of a tab before lowers a flag that is gone |
| `UsersPage` | the dialogs about one user; `ConfigForm`, which is emptied at each render of the page |

What is typed carries the name of the object that it was typed for, so that "stored for another
one" can be said of the tables of the server.

`LastRequest` has no requests: something is asked for, comes or fails, or is dropped.
`Series == INSTANCE LastRequest WITH ...` maps `wanted` to the series of the open row, range and
granularity, `shown` to `detailSeries` and `busy` to `detailSeriesLoading`.

## 3. Runs

Passing runs.

| Run | Instance | Shows |
| --- | --- | --- |
| `ledger_billing` | 1 process, 3 requests of 2 tokens of 1 user, a profile edit, costs 0-2, no faults (1.13 M states) | `CommittedIsRecorded`, `TotalsWithinRows`, `OnlyCostsAreCharged`: on one process that stays up a success is a row, totals never exceed rows, and a user pays no more than the costs, each once |
| `ledger_faults` | 2 processes, 2 requests, 1 edit, 1 deletion, 1 fault (992 k) | `PaidBeforeRecorded`, `NoMoneyFromNowhere`, `NeverOverdrawn`, `DeletedUserStaysDeleted` |
| `bridge` | 8 bytes, chunks of 1 and 3, buffer of 2, header timeout on (7.0 k) | `EofMeansAllRead`, `ErrorMeansFailed`; `ReadEnds`, `CloseEnds`, `BridgeIsFreed` |
| `pump` | 3 events of 6 kinds, reads of up to 2, flush at 2, both routes (558 k) | `BilledIsReported`, `LeavingIsNotFree`, `StayingClientGetsAll`; `PumpEnds`; `UsesBridge`: the pump uses the bridge as its specification allows, with its fairness unless the process ends |
| `failover` | groups of 0-3 members, every set of usable ones, 5 routes (3.8 k) | `FirstHealthyAnswers`, `FailureMeansAllTried`, `AnswerIsOneMembers`, `RowNamesTheAnswer`; `Answered` |
| `conn_pool` | 3 threads, 4 connections, 2 calls each (3.3 k) | `NeverExhausted`; `OperationsEnd` |
| `accounts` | 4 requests, at most 3 users, requests interchangeable (68 k) | `SoleRootStands`, `PrivilegeWasGranted`, `PasswordsStayHome`, `LoggedOutStaysOut` |
| `console_user` | 6 pages; 2 tokens, one of them to be created; events 1, 3 and 4 of which 2 may come late and 5 new, 2 filters, pages of 1 and 2; 2 calls at a time; 4 or 5 clicks (2.13 M) | `RevealedIsCurrent`, `DialogsKeepToTheirToken`, `UsageWalkHasNoGap`, `SignedInHasSession`, `DashboardChartIsCurrent`, `UserFlagsFall` |
| `console_admin` | 6 pages; 2 groups, 2 channels, 2 users; the same events; 2 calls at a time; 3 to 5 clicks (1.10 M) | `NothingIsStoredForAnother`, `TableMatchesRange`, `UsageAdminIsWhole`, `AdminChartIsCurrent`, `AdminFlagsFall`; `SeriesKeepsUp`: the series implements `LastRequest` |

Runs that must find a violation: the code does something else than its comments
or documents say.

| Run | Property | What happens |
| --- | --- | --- |
| `ledger_replicas` | `CommittedIsRecorded` | two processes number requests from 1; the second request with an id is charged and reported committed, but has no row |
| `ledger_debits` | `EveryDebitCounts` | two debits read the same balance; one is lost |
| `bridge_timeout` | `OpenEnds` | after the header timeout the caller joins the worker while holding the mutex that the worker needs |

**Bounds, and why they are enough.** Every hazard of the ledger is between two
actors on one user or one token; three requests let a third meet what two left behind, and two tokens let one user be debited through different
tokens. A restart is only interesting once, since a second one repeats the first;
`MaxFaults` = 1 also lets a database error be followed by everything else. In the bridge a
chunk larger than the buffer (3 over 2) is read in two pieces, a smaller one is
read whole, and 8 bytes hold several of each, so the queue is empty, has one and
has several chunks. In the pump three events are enough for usage, end and one more in any
order, in one read or several, with a flush and a rest. Three members have a
first, a middle and a last. In the pool three threads show that the
threshold is the number of threads and not a pair. Every request on accounts
needs a registration or login before it, so four are two that overlap with a
change by a third. On a page of the console two calls at a time are one that is overtaken and
one that overtakes it; where a handler makes several calls or an effect sends its own beside it,
both slots are in use, and a click that finds none free has to wait, which is a user who
clicks more slowly. Two objects are the one a call was for and the other one that is selected meanwhile.
The clicks of a page are enough to open a dialog, type, submit, close it and open it for the other
object (5), to walk over three pages while a row is stored late and a filter is changed (5), and to pick a range twice and open a row (3); each page starts
anew when it is mounted, so longer visits repeat these. A page is chosen at the
start, so the instance is the sum of its pages and not their product. Proofs remove the
bounds where they are given below.

**Deadlock** is not checked: every model is of work that is finished (requests that are
answered, streams that are closed, users who have clicked as often as they may), and that ends.
Waiting forever is covered by the liveness properties, by `NeverExhausted` and,
on the console, by the properties `UserFlagsFall` and `AdminFlagsFall` instead.

**Fairness.** `Ledger` and `Accounts` have none: their properties are safety. For the bridge and the pump, `WF` on `WorkerReturn` says
that `client->send` returns, which httplib's connect, read and write timeouts
guarantee, and `WF` on the other steps of either thread says that a thread that is
not blocked runs. The worker is not required to deliver anything, and the client is not required to
stay or to leave. `Failover` has `WF` on `Next` for the same timeouts. In the pool a
thread that can take a connection does (`WF`); `Release` has `SF`, because an
operation runs a finite number of statements and so cannot go back to its
transaction forever without ending it. The console has none: nothing is promised about a server or
network that does not answer. That no control stays disabled is the safety property that a raised
flag always belongs to a handler (or a frame, or a timer) that still waits and will lower it.

## 4. Proofs

All are about every value of the constants that the assumptions of the modules admit.

**Ledger** (`ConstantsAssumption`: functions have the right domains, 0 can be
stored). `LedgerTyped`; `BalanceNeverOverdrawn` and
`BalanceWithinCredits`: neither balance property is inductive, since writes are
computed from copies. What makes them so is `CopiesBounded`: a copy that an edit is
about to write lies between 0 and what was credited, and a debit about to be written
was checked against its own copy. `PrintedBetween` is the fact about rounding that the step needs: what `"%.6f"` prints for
a difference of a storable balance and a cost it covers lies between 0 and that
balance. `RowsArePaid` needs `RecordersPaid`: a
thread that is recording has paid. `CommitsAreRecorded` is for one process that is not restarted
and while nothing is deleted (`Undisturbed`); `FreshInv` says that an id is below the counter and belongs
to one request, so that a row found at a commit is the request's own. `TotalsNeverExceedRows`
is for any number of processes with restarts, while nothing is deleted: by `TotalsInv` a total that a
commit has seen is at most the number of rows of its token, and rows only grow.
`DeletionIsFinal` is a step property: edits write only a row that is there, and only a deletion writes `exists`.

**StreamBridge.** `BridgeTyped`, `NoByteLostAtEof`, `ErrorsAreReal` from
`BridgeInv`: the queue is increasing, its last chunk ends at `sent` and its first has
not been read whole (`QueueInv`), and the flags follow the worker, so that nothing is
queued after `done` (`FlagInv`).

**StreamPump.** `PumpIsABridge`: every step of the pump is a step of the bridge or leaves it alone, so
everything proved of the bridge holds for it. `StayingGetsAll`, `BillsAreReported`,
`LeavingIsBilled` from `PumpInv`, which has the bridge's invariant and five parts: `PhaseInv`
says where both threads are, in particular that a stream that was never opened has a failed worker;
`ClientInv` that what was written and what waits is what was read; `EventInv` that the flags and the
usage tell exactly what was read up to an event that the reader refuses, and why the loop has
stopped (this is where a loop that stops at EOF needs the bridge's `EofMeansAllRead`);
`BillInv` that a bill is written at the very end. The usage is a `Max` over a set of events of any
finite size; that it is an upper bound in the set (`MaxOfFinite`) comes from the well-foundedness of strict
inclusion on finite sets, since the library's induction cannot be instantiated.

**Failover.** `SuccessIsFirstHealthy` and `FailureIsLastResort` from `WalkInv`:
while the ring is walked, the members that failed are exactly the usable ones before
the pointer; past its end, all usable ones. `AnswersAreNotMixed` from `AnswerInv`: what is kept of a failure
has the headers and the body of one member, except on the streamed responses route.
`RowIsOfTheAnswer` from `RowInv`: during the walk the member of `request.upstream` is the one that the
kept failure is due to.

**ConnPool.** `PoolTyped`, and from it `LargePoolNeverExhausted` under
`MaxOpen > Cardinality(Threads)`: if all holders wait, no statement runs and each
holds one connection, so there are at most as many as threads. The bound is tight: with as many connections
as threads TLC finds every thread holding one and waiting for another (section 5).

**Accounts.** `AccountsTyped`; `SoleRootStays` and `RootsWereGranted` from
`RootInv`. What a row says is not enough, since copies are written back: `CopyInv`
says of every copy what the properties say of rows, `AdminInv` that whoever
administers was once made root and deletes another account than the own, `CreateInv` that a
registration makes a plain user only when there were users. So a write that could
demote somebody comes from a second user in `granted`. `ClosedSessionsStayClosed`
from `SessionInv`: a session is there only after the request that opens it has
ended, so nobody is about to bring it back. `PasswordsStay` from `PasswordInv`: a password in a row or a copy
was chosen for the account whose row or copy it is.

**The console.** The theorems are about `UserConsoleSpec` and `AdminConsoleSpec`, the same that TLC runs, for any
numbers of tokens, events, channels, groups, users, calls and clicks. They need `MaxCalls` to be at least 2, since some pages are
mounted with two requests, and a finite set of page sizes that are positive, since a page is cut at `Max` and `Min` of finite sets.
`UserConsoleInv` and `AdminConsoleInv` have one part for each page. It says something of the page when that page
is mounted, and little otherwise (no value is shown, no dialog is open), because the steps of a page
leave the variables of the others alone (lemmas `TokensStay`, `GroupsStay`, ...). On the instances of the runs TLC finds
both invariants true, but for the types of what a call carries, whose values TLC cannot compare with each other.

`ConsoleLemmas` has what these proofs share. About `calls`: what a slot is after a send, an answer, a failure or an
end, and that the other slots are as before. About paging: `Max` and `Min` of finite sets of ids; that a page that the server cuts
has every event between its newest and its oldest (`CutWhole`) and starts right below its cursor (`CutBelow`); that such a page
meets every row that a walk passes with it (`FirstPageHasAll`, `NextPageHasAll`), and so that a walk whose met events reach down to
the cursor it is asked from (`Reaches`) goes on without a gap, whatever was stored or deleted in between (`WalkGoesOn`).

| Page | What the property is proved from |
| --- | --- |
| `TokensPage` | `RevealInv`: as long as reveal and rotation of a token have not overlapped, nothing of it is shown while it is generated anew, no reveal of it waits then, and an answered reveal carries the value the server accepts |
| `TokenDialogs` | every call of a dialog is for the token whose dialog is open (`DialogCallsMatch`), until a dialog is opened during a call of another one |
| `UsagePage` | `WalkState`: what the walk met reaches down to each cursor that the page holds, those on the stack of earlier pages included; `QueriesHold`: at most one query is under way, it asks for the first page or for such a cursor, and its answer is a cut of the rows that there were |
| `SessionPages` | a user is shown only with a session, unless the session ended where this browser cannot see it or a handler that waits is about to tell (`TellsOfEnd`); an answer on its way about the user is true (`WelcomeHolds`) |
| `Dashboard`, `AdminDashboard` | what is drawn is determined by the choice of series and the one call whose answer counts |
| `Popovers` | the frame or timer that runs moves the panel towards what its button says |
| `ChannelGroupsPage` | `GroupCallFits`: what a call will store or fill in is of its own group; `GroupCallsAgree`: no two calls are for two groups, nor one for another group than the selected one; until the dialog moves on while a call waits |
| `ChannelsTable` | the one call whose answer counts is for the series that is wanted now (`SeriesIsOfCall`); unless a range was picked while they waited, all handlers that wait are for the range that is shown (`RangeIsOfCalls`) |
| `ChannelSettings`, `UsersPage` | rows, forms and calls each carry what was typed for their own channel or user; here no condition is needed; `TabHolds`: the flag of the tab is up only while a save of this tab waits |
| `UsageAdminPage` | as `UsagePage`, for walks forward; the window of the list is of the filter above it, until dates are typed while a query waits |

`SeriesImplementsLastRequest` is the refinement: under `TableInv` each step of the console is a step of `LastRequest` or a
stutter: a change of channel, range or granularity is `Ask` or `Drop`, the answer that counts is `Come`, an answer that was
overtaken is nothing. `SeriesIsUpToDate` follows from the abstract specification alone.
`UserFlagsDoFall` and `AdminFlagsDoFall`: every flag that is up has the handler that will lower it in `calls`. That the
handler then does lower it is in the model's actions, and that its call is ever answered is nobody's promise.

**Only model-checked:** all liveness properties (`ReadEnds`, `CloseEnds`, `BridgeIsFreed`, `PumpEnds`, `Answered`, `OperationsEnd`), and with them the
fairness in `UsesBridge`: fairness and `ENABLED` are beyond the prover; and `OnlyCostsAreCharged`, whose sum over
all requests of a user would need induction over a set. Every other safety property that a passing run checks
is proved.

## 5. Where code and documents disagree

Besides the three violations above, modelling met these. They are part of the models, and no run
is spent on them.

### Server

* The callback of a streamed responses request (`gateway.cpp` 1161) reads its options through references
  into frames that have returned, so it may or may not find the function that bills.
  `docs/reference/proxy-response-gateway.md` 7 wants a charge after each stream: `Bill`, route `handle`.
* A statement of `sql_exec` inside a `ScopedTransaction` takes a second connection, while the comment at
  `include/store/database.hpp` 33 says that nested calls share the transaction. With as many connections as
  threads, every thread may hold one and wait for another for ever: `ConnPool` with
  `MaxOpen` equal to the number of threads, and the assumption of `LargePoolNeverExhausted`.
* `update_channel_response` (`channel_api.cpp` 450-487) stores an empty name, base URL and key when they
  are missing, and the status button of the console (`ChannelsPage.tsx` 785) sends
  only id and status: it wipes the channel. `ChannelSettings` has the handler as it is; text 0 is what is left.
* Of the operations that the console has on groups, the handlers know list, create, detail, an update of name,
  description and price, deletion, and adding and removing a member. Default group, pointer, order and status are
  answered with `success: false`. A member carries no `member_channel_id`
  (`api/admin/channelGroups.ts` 20), so removing one throws before the request is sent.
* Groups that are ticked in the dialog of a channel are sent, ignored by the server, and shown until
  the rows are loaded again; only in between can the pointer button be used (`ChannelSettings`).
* A page of events reached by "previous" lacks the row next to the cursor: of the `limit + 1` rows that follow it the
  newest `limit` are kept (`http_dispatch.cpp` 1238-1243), so turning back passes over events. A first page reached in this way has no way on and a way back
  though nothing is newer. `UsageAdminIsWhole` is therefore about walks forward.
* A change of email from the console is always refused, since `current_password` is not sent (`user_api.cpp` 160).
* A debit that read the balance before a top-up writes over it
  (`users.cpp` 177-188 against `docs/reference/api.md` 98): `EditWrite` and
  `DebitWrite` in `Ledger`.
* `apply_total` (`request.cpp` 198-213) loses increments when two commits of one
  token meet, while `docs/reference/data-model.md` 207 calls the table an aggregate of
  the events. `TotalsWithinRows` says what is left: it never counts too many.
* Two first commits of a token collide on the insert of its total; the exception
  passes `finish_proxy_usage`, whose comment (`http_dispatch.cpp` 1436) is "never replace
  success with synthetic billing errors": `CommitConflict`, `pc = "threw"`.
* A transfer that fails after usage and `[DONE]` were read is not billed
  (`gateway.cpp` 776), although `docs/reference/proxy-response-gateway.md` 109 says that
  EOF *or* `[DONE]` is the moment to finalize, and that this happens only once: `ReadFails`, `Bill`. The code
  finalizes at each usage event.
* A client that leaves while the headers of a stream are awaited is not billed at all: httplib skips the provider, and with
  it the pump and the completion callback, while the upstream has been asked (`PumpStart`, `PumpAbandon`). `LeavingIsNotFree` is
  about providers that were called.
* On the route `handle` nothing catches what `finalize` throws at a usage without a count (`gateway.cpp` 965-982, unlike 1381-1430):
  the exception leaves the provider on a pool thread and the process ends, with every other request in it: `Consume`, `PumpEnds`.
* An `input_tokens` request returns before `request.upstream` is set
  (`gateway.cpp` 1196): after a failover its row names the member that failed, where
  `docs/reference/data-model.md` 189 wants the one that was hit. `RowNamesTheAnswer`
  states the exception.
* `tests/users/user_api_mysql_test.cpp` 180 says "old password should fail after
  password change". It works again when a request that read the row before the
  change writes it after: a change of email from another session, or an administrator's edit or
  top-up (`users.cpp` 118-124; `AccountRead`, `AdminRead`). In the same way an edit can
  undo a demotion or a disabling, and a login that checked the old password
  opens its session after `delete_all_for_user`.
* Two registrations that both find no user both become root (`user_api.cpp` 47), and
  two roots may demote or delete each other, so that none is left: `SoleRootStands` says no more than
  what the checks guarantee.
* A password reset by an administrator keeps the sessions of the user, while a
  change by the user ends them: `AdminReset`, `AccountClose`.
* The final failure of a streamed responses request carries headers of several
  members (`gateway.cpp` 1091): `KeepError`; `AnswerIsOneMembers` states the exception.

### Console

Most pages keep what they promise only as long as no answer comes late; the properties name the
condition, and the history variable in it is raised exactly then.

* A token that is revealed while it is generated anew may show the revoked value (`crossed`). The dialogs for the
  group and the usage of a token apply an answer to whatever token they are open for (`overlapped`): a save then
  binds one token to the group that was read for another.
* A reload of a group without `syncForm` (`ChannelGroupsPage.tsx` 140) changes the group under the
  draft of another, and a save stores it there (`groupsMixed`). When the detail of a new member fails to load and another
  call succeeds, an empty draft lies over an existing group.
* The table of channels keeps its old rows under the new range when a refresh fails (`tableStale`), and an
  answer to a click on an earlier range puts that range back (`rangeMixed`). The chart of a channel
  is blank after a failed refresh with its row open. What is typed into the settings of a channel
  is lost when the rows change under it.
* `UsersPage` makes the templates for a top-up and a password at each render, so `ConfigForm` is emptied whenever the page renders:
  a failed submit wipes what was typed. Its notices of success are cleared in the tick in which they are set.
  A late answer closes the dialog that is open for another user, and the edit form can be
  submitted twice.
* A row that is stored after a walk through the events came by its place is on no page of the walk, and there is no sign of
  it: ids are given on arrival (`http_dispatch.cpp` 1387) and listed newest first. `UsageWalkHasNoGap` is about rows that were there.
* With one day of the range left open, the answer fills it in, so the next page goes by another range than the one before
  and is a walk of its own in the model. Days do not pass midnight in the model.
* A late answer on `UsageAdminPage` fills in its days over an "all time" picked meanwhile.
* The chart of a dashboard is blank when the hours are chosen again before the days have come (`turnedBack`).
* `useAnchoredPopover` renders without end while its panel is open, each rendering asking for frames that render again.
  "过去 7 天" (`utils/dateInput.ts` 39) is eight days, counting today.

## 6. What is abstracted and what is left out

* A cost is a number; how tokens and prices make it is left out.
* Statements of one transaction take effect at its commit. This is what other
  transactions can see, since they hold row locks from the write to the commit.
* JSON, SSE framing, URLs, headers, TLS, DSNs and the check of private addresses
  are data; what of them decides control (a line too long, a usage without a
  count, an unsupported parameter, a channel that is not usable) is a choice of the environment.
* Names and emails of users are left out, as is the expiry of sessions: an expired session is refused
  as one that is gone.
* `stream_gateway_session_to_client` has no caller in the server.
* httplib and ODB are outside the repository: `ClientLeaves`, `PumpStart`, `Open` and
  `ConnectFails` model them as the code uses them.
* Configuration is constant after start. Parsing, hashing and input checks are functions
  without state. Build files and charts do not run.
* Of the console: geometry, sorting, searching and dragging of rows, copying to the clipboard,
  `ModelsPage`, `TokenCreatedPage`, `TopupPage` and `NotFoundPage`, which show what they are given, and `GenericSuggestInput`,
  which nothing uses. Names, previews, prices and dates of rows are data. A page that is left is gone with its calls.
* Several administrators at work on the same channels or groups, and a user on two browsers, are not modelled on
  the console; on the server's side they are for accounts and balances (`Accounts`, `Ledger`).
* Migrations at start, draining and stop, the first use of the stores, and `LAST_INSERT_ID` are not modelled: each is
  a hazard of its own (section 7).

## 7. Plan

Done, in order of importance: `Ledger`, `StreamBridge` and `StreamPump`,
`Failover`, `ConnPool`, `Accounts`, the console of users, the console of root; proofs of every safety
property that a passing run checks.

Left:

1. `ChannelAdmin`: several administrators, members, bindings and deletions (`channel_groups.cpp`
   130-200, `tokens.cpp` 240-264), composed with the copy that `Failover` takes. To
   prove: which references can dangle and which cannot.
2. `Tokens`: `LAST_INSERT_ID` on another connection (`tokens.cpp` 102), on top of `ConnPool`. To
   prove: whose token an answer names.
3. `Lifecycle` and `Schema`: draining, readiness and stop (`http_server.cpp`
   70-116); migrations against crashes and a second process (`schema.cpp` 52-124).
4. `LazyStores`: the unlocked creation of the stores at first use (`users.cpp` 28 and three others).
5. `Pricing`: `compute_usd` with its tiers and multipliers, as an operator against a reference definition.
6. Proofs: the safety properties of these as they come; type correctness of whole pages, where only what a property needs is proved.
