# atlas-emailagg in TLA+

atlas-emailagg receives notifications that mail has arrived in the mailboxes of
many tenants, fetches the messages whose subject matches a rule of the tenant,
extracts a piece of data, stores it in the tenant's table and announces it on
Redis pub/sub. It is one Go process (`cmd/server/main.go`) around PostgreSQL,
Redis and the task queue asynq; a second program, the "monolith", edits rules
and accounts and listens to the announcements.

This directory specifies its behaviour, model-checks it with TLC and proves the
central safety properties with TLAPS.

    tlc -workers 2 -config OutlookSafety.cfg MCMessagePipeline
    tlapm MessagePipelineProofs.tla

## 1. Inventory

| Part | Source | State it keeps | Operations |
|---|---|---|---|
| Webhooks | `internal/webhook/*.go` | none | resolve the mailbox, enqueue `email:fetch` (Cloudflare: `email:process`) |
| Fetch handlers | `internal/queue/handler.go` | Redis key `dedup:email:<id>` (24 h); row of the account: status, credentials (Gmail: with `last_history_id`) | Outlook, Resend, Gmail, IMAP |
| Process handler | `handler.go` 1003-1094 | rows of `email_message_ts`, `last_sync_at` | match, extract, INSERT, UPDATE, publish |
| Rule cache | `internal/parser/cache.go` | `sync.Map` from tenant to rules | `GetRules`, `Invalidate`, listener |
| IMAP IDLE pool | `internal/provider/imap/pool.go` | map from account to cancel function; per supervisor: failure count, window, backoff | reconcile, supervise, remove, stop |
| Disconnect task | `handler.go` 1237-1414 | row of the account, `gcp_projects.active_count` | clean-up at the provider, clear the row |
| OAuth callbacks | `internal/oauth/*.go` | row of the account, `active_count`, two sorted sets in Redis | connect, callback, revoke |
| Renewer | `internal/queue/renewer.go` | the two sorted sets, row of the account | a renewal cycle every 15 minutes |
| Cloudflare route | `internal/webhook/cloudflare.go`, `external/cf-email-worker/main.js` | dedup key | pre-check, webhook |
| Body extraction | `internal/parser/engine.go`, `handler.go` 1176-1231 | none | choose a part, normalise, extract |
| Queue, database, start-up | `internal/queue/{queue,server,tasks}.go`, `internal/db`, `cmd/server` | asynq's queues | retries, recovery, shutdown |

How they interact: a webhook or the IDLE pool enqueues a fetch task; a fetch
handler enqueues a process task; both read the rule cache; both change the row
of the account, which OAuth, the disconnect task, the renewer and the pool's
circuit breaker change too. All of them run concurrently (asynq runs 100
handlers), none of them holds a lock or a transaction over its calls, and each
call to PostgreSQL, Redis or a provider can fail with or without effect.

What is hard about it, part by part, and what makes the part correct:

- *Fetch and process.* Notifications are duplicated, tasks are retried, processes
  die, dedup keys expire. A message must be handed to processing once, be stored
  before it is announced, and not be lost except for reasons one can name.
  `last_sync_at` filters later fetches, so it may only move forward and only
  because of a stored message.
- *Gmail.* Several notifications lead to overlapping scans of the history from a
  cursor that each handler reads at its start and overwrites at its end. The cursor
  must not pass a message nobody takes care of.
- *IMAP fetch.* Each fetch reads the last ten messages again, and the dates are
  the senders'. The range must be the last ten, and reading again must not hand off
  again.
- *Rule cache.* Filling and invalidating race; pub/sub loses messages. What is stale
  must be explained and must heal.
- *IDLE pool.* Reconciliation, disconnect signals, suspension and shutdown act on
  one map and on goroutines. One supervisor per account, none for a gone account,
  a breaker that trips when it should and only then.
- *Subscriptions.* Callback, renewal cycle, disconnect task and late saves write the
  same row without looking at what it says by then. An ACTIVE mailbox must stay
  notified, and an owner who revoked the grant must be told.
- *Google projects.* A project is chosen when the owner leaves for Google and counted
  when the owner comes back; a disconnect task works on the row it read first. The
  count must follow the accounts.
- *Cloudflare.* The dedup key is set before the work, the answer decides whether the
  sender delivers again, and a late handler may outlive its worker. What is accepted
  must be taken care of.

`PROJECT.json` lists the hazards one by one, at their lines, with the properties
that cover them.

## 2. Plan

| # | Module | Subject | State |
|---|---|---|---|
| 1 | `MessagePipeline` | notification to broadcast, Outlook and Resend | checked, proved |
| 2 | `RuleCache` | read-through cache and invalidation | checked, proved |
| 3 | `ImapPool` | reconciliation, supervisors, breaker, IDLE and NOOP | checked, proved |
| 4 | `GmailFetch` | history cursor, overlapping scans, renewal of the watch | checked, proved |
| 5 | `ImapFetch` | range, senders' dates, repeated reads | checked, proved |
| 6 | `Handoff` (abstract) | "a message that arrived is handed off at most once"; 1, 4, 5 and 9 implement it | checked, proved |
| 7 | `GcpPool` | Google projects, `active_count`, OAuth against disconnect tasks | checked, proved |
| 8 | `Subscriptions` | OAuth callbacks, renewal cycle, disconnect task, late saves | checked, proved |
| 9 | `CloudflareRoute` | worker, pre-check, webhook, two mailboxes with one key space | checked, proved |

Every invariant, action property and refinement of a passing run is proved; what is
left to TLC alone is liveness (section 6). Left to model: the choice of a body
(`findTextPart`, `extractGmailBody`) against reference definitions.

## 3. The modules

Conventions. One action per step of a handler that makes an external call, with
what the handler computes before the next call; `task[i].pc` names the step that
is next. A failing call is a disjunct of the action, guarded by `Fault`, which a
bound caps; where a call may have taken effect although it failed, that is a
further disjunct. Asynq is external: `AfterError` queues a task again or archives
it, `Crash` does this to every running task, and a finished task may run again
until it is acknowledged. Variables declared under *history* are read by
properties only. Definitions with an underscore (`FilterStart_SyncOnly`) are
faulty variants of the definition that follows them: each property is violated
once one of them takes its place.

**MessagePipeline** (`MCMessagePipeline`). One mailbox, Outlook or Resend.
`Webhook`; `Lookup`, `Dedup`, `Token`, `GetHeader`, `GetBody`, `Handoff`
(HandleOutlookFetch; HandleResendFetch goes from `Dedup` to `GetHeader` to
`Handoff`); `Extract`, `Insert`, `UpdateLastSync`, `Publish`
(HandleEmailProcessTask); `Reconnect`, `Disconnect` (the row updates of the OAuth
callback and of the disconnect task); `Tick`, `Arrive`, `EditRules`, `Ack`,
`Crash`. A message is a model value; matching and extraction are sets. Dates in
payloads lose their fraction of a second (`EmailDate`). Notice what the deduplication
rests on: the key is set before anything else, so a retry drops the message
(`harmed` records it), and after the key has expired only the ten-minute window
keeps a late duplicate out.

**RuleCache**, checked as it is. `Load`, `Query`, `Store` are the three
steps of GetRules; `Invalidate` is the listener; `Edit`, `PublishInvalidation` the
monolith; `Lose` pub/sub. A list is the version it was read from and whether it is
whole: `GetTenantSubjectRules` does not ask `rows.Err()`, so a result that breaks off
is taken for the whole list.

**ImapPool**, checked as it is. `SyncRead` and `SyncApply` are syncActiveAccounts
before and under the lock; `LoopHead`, `Connect`, `ReturnNil`, `Fail`, `Retry` the
supervisor; `RemoveAccount` the listener; `Stop`; `Activate`, `Leave`,
`DisconnectTask`, `LoseSignal` the surroundings. The clock is kept as ages
(`since`, `recent`) and remaining waits, so that time needs no bound. A context is the
flag `cancelled`. The ticker of 30 seconds is "some time". The model starts with
any accounts ACTIVE. A connection is IDLE (`idle`), during which `Hear` takes updates
from `updatesChan` and enqueues fetches, or sends NOOP (`noop`), during which nobody
does: `Heartbeat` and `NoopDone` go to and fro, `Update` is the server. The IMAP
library is external; that its reader waits while the channel is full, and NOOP's
answer and LOGOUT for the reader (`Block`), is an assumption about it.

**GmailFetch** (`MCGmailFetch`). One mailbox. `Webhook`; `Lookup`, `Token`,
`HistoryList`, `MessagesList`, `Rules`; the loop `Dedup`, `Metadata`, `FullBody`,
`Enqueue`; `SaveCursor`. Handlers overlap. A history id is a number, compared as its
decimal string is (`Greater`); `Latest` is the set of the ids no other exceeds, which has one
element as the order is total. Only arriving
messages advance the history, one id each. `Process` stands for the process
handler: it moves `last_sync_at`. `Reconnect` and `Disconnect` are the owner's.
`RenewWatch` and `RenewSave` are the renewer's `users.watch` and the save of the
history id it answers; `leapt` keeps the messages that save steps over. It implements
`Handoff`.

**ImapFetch** (`MCImapFetch`). One mailbox; `Envelopes` is dial, login, select and
the first FETCH; `Dedup` decides window and rules as well, since nothing is called
in between; then `Body`, `Enqueue`. `RangeStart` is computed modulo `Word`; a range
whose ends are the wrong way round is turned, as the IMAP library does, and a
server may refuse a range that goes beyond the mailbox. Each message has a clock of
its own (`Skews`: slow, fast, or hours ahead). It implements `Handoff`; exempt from the start
is a message whose date lies ahead of the clock, which the window does not keep out.

**Handoff** is abstract: `Arrive`, `Exempt`, `HandOff`. `ImplementsHandoff` of the four
modules that bring messages in is its `Spec` under an INSTANCE that maps the arrived
messages, the counts of `email:process` tasks and the messages with a named
exemption: Redis failed their dedup check, their key ran out (Cloudflare), they have
no Message-ID. Elsewhere an expired key is no exemption, as the window must take over.

**Subscriptions**, checked as it is. One account of either provider. `Connect`,
`CbRegister`, `CbSave`, `CbZAdd` are HandleCallback after the exchange of tokens; `Scan`, `RenewRead`,
`RenewToken`, `RenewPatch`, `RenewCreate`, `RenewWatch`, `RenewSave`, `RenewZAdd` one
renewal cycle (runRenewalCycle and the two functions that renew); `DiscRead`,
`DiscCleanup`, `DiscClear` the disconnect task; `FetchRead`, `FetchEnd` what a fetch
handler may do to the row; `Leave` and `Revoke` the owner. A tick is the 15 minutes
of the ticker, and times are kept as what is left of them. `misses` and `gap` are
history. The ids are a bound: a registration waits while every id lives or is named by
somebody (`Fresh`), since a provider never gives an id twice.

**GcpPool** (`MCGcpPool`). The accounts and projects of all tenants. `HandleConnect`
chooses a project with room, `HandleCallback` is the transaction that counts it,
`OutlookCallback` the one that does not; `DiscRead`, `DiscFree`, `DiscClear`,
`DiscAgain` the disconnect task with its retries. `leaked` and `overfreed` name the
projects a known cause has made the count wrong for.

**CloudflareRoute** (`MCCloudflareRoute`). `Deliver` is the sending server, `PreCheck`
and `GiveUp` the Email Worker with HandlePreCheck, `HookLookup`, `HookDedup`,
`HookRules`, `HookEnqueue` HandleWebhook; `Expire`, `Edit`, `Crash` the surroundings.
A handler whose worker has given up runs on. A message to two mailboxes is two mails
with one Message-ID, so this module has several mailboxes.

## 4. Runs

| Run | Question | Bounds | States |
|---|---|---|---|
| OutlookSafety | `TypeOK`, `RowBeforeEvent`, `DuplicateRowsExplained`, `ImplementsHandoff`, `LastSyncMonotone`, `LastSyncBacked` | 1 message, 3 tasks, 2 notifications, 3 ticks (a key lives 2), 1 fault, 1 crash | 4.1 M |
| OutlookDelivery | `Delivered`: every message stored or excused | 1 message, 2 tasks, 1 fault, 1 crash, FairSpec | 70 k |
| ResendDelivery | `Delivered`, with redelivery after a 500 | 2 messages, 3 tasks, 1 fault, FairSpec | 0.5 M |
| OutlookRateLimit | *violated*: `RescheduledIsFetched` | 1 message, 1 fault, FairSpec | |
| RuleCache | `TypeOK`, `StaleOnlyIfRacedOrLost`, `EditReachesCache` | 1 tenant, 2 readers, 3 edits, 2 faults, FairSpec | 13 k |
| ImapPool | `TypeOK`, `OneSupervisor`, `NobodyWatchesTheGone`, `SuspensionJustified`, `DisconnectSticks`, `CancelledStops`, `UpdatesHeard`, `MissingIsStarted` | 1 account, 2 goroutines, 2 owner actions or stops, 1 fault, breaker at 2 failures in 2 ticks, channel of 1, FairSpec | 0.2 M |
| GmailHandoff | `TypeOK`, `CursorSkipsNothing`, `ImplementsHandoff` | 1 message, 2 tasks, 2 duplicates, 3 ticks (a key lives 3), 1 owner action or renewal, 1 fault, 1 crash | 6.4 M |
| GmailDelivery | `CursorSkipsNothing`, `Delivered` | 2 messages, 2 tasks, page of 2, history ids 9, 10 and 11, 12, 1 fault, FairSpec | 0.9 M |
| ImapFetch | `TypeOK`, `LastTenFetched`, `ImplementsHandoff`, `Delivered` | 1 message, clocks slow, fast and far ahead, 2 tasks, 4 ticks (a key lives 4), 2 older messages, 2 further updates, 1 fault, FairSpec | 2.3 M |
| Subscriptions | `TypeOK`, `NoLapse`, `Recovered`, `RevocationNoticed` | 6 ids, a subscription lives 3 ticks and is renewed in its last 2, 2 owner actions, 2 faults, FairSpec | 0.65 M |
| GcpPool | `TypeOK`, `Quota`, `NotUndercounted`, `NotLeaked` | 2 accounts, 2 projects of 1 slot, 2 pages, 2 tasks, 1 page visited again, 1 fault | 4.0 M |
| CloudflareRoute | `TypeOK`, `AcceptedIsTaken`, `ImplementsHandoff`, `Settled` | 2 mails to 2 mailboxes, 1 Message-ID or none, 2 deliveries each, 1 edit, 3 faults, FairSpec | 1.1 M |

Bounds and why they suffice. Two fetch tasks are enough for every race between two
handlers of a message, and each of them can be retried once; a third handler would
meet the same key (OutlookSafety has a third task, so that a process task runs beside
two fetches). Two messages are needed where one affects the other
(`last_sync_at`, the cursor, the range) and suffice, as these relations are between
pairs. The clock reaches beyond the lifetime of a key plus the window, so that late
duplicates occur. One failing call at every point, together with a crash where a run
has both, covers each error path and its retry; MaxRetry = 1 lets a task be archived.
The scale of durations keeps their order: window (10 min) < task timeout plus window
< key (24 h). In `ImapPool` the ten minutes of the breaker are 2 ticks, its five
failures 2, the ten updates of the channel 1, and the backoff starts at 1 tick and is
capped at 2; that the limit fits into the window is kept. `LastMany` = 2 stands for 10
and `Word` = 256 for 2^32; no run has more new messages than the range has room for, and the
excuse `crowded` of `ImapFetch` names what a larger number would lose. Gmail's pages hold as many messages as the runs have, so what is
checked is a mailbox with less than a page of news between two fetches; the excuse
`crowded` states what a page of `messages.list` leaves out. In `Subscriptions` the
24 hours of the horizon are 2 cycles and the 4000 minutes 3: a subscription is outside the horizon
when it begins, and more than one cycle can fail before it ends. Six ids are
enough for one to be fresh whenever one is asked for. In `GcpPool` a limit of 1 makes
every account reach it; a limit of 2 passes as well. In `CloudflareRoute` two mails
suffice since a key relates two.

The runs of `RuleCache`, `GmailFetch`, `ImapFetch`, `Subscriptions` and
`CloudflareRoute` may stop: edits, time, faults, messages and owners are bounded and
nothing is left to do then, so they do not check deadlock.

Symmetry: tasks (`GcpPool`: accounts, pages and tasks) are interchangeable and used as
symmetry sets in the runs without liveness properties only.

Fairness. Weak fairness of each worker step: asynq keeps dequeuing and every call of
a handler returns or fails. Of `Webhook(m)`: providers deliver their
notifications. Of the monolith's publication, the listeners and the
steps of a goroutine that is not blocked for ever: the Go scheduler. No fairness is
assumed of arrivals, edits, faults, crashes, owners, or of an idle connection, which may
stay silent for ever. Strong fairness of `Hear`: each IDLE lasts 20 minutes, in which the
goroutine that empties the channel runs. In `Subscriptions` the ticker fires and the calls of the cycle, the
callback, the disconnect task and a fetch end; in `CloudflareRoute` workers and
handlers run, and a sending server delivers again after a temporary failure, as SMTP
asks of it. An attempt to connect ends (`Moves`), though it may take any time;
dial and login have no deadline in the code, so this is an assumption about the network,
and only `CancelledStops` and `MissingIsStarted` rest on it. That NOOP is answered
unless the reader is stuck is of the same kind (`UpdatesHeard` rests on it too).

Assumptions about asynq, which is not part of the repository: a task without options
has a timeout of 30 minutes, after which the context of its handler is cancelled
(`Timeout`, `Expire`); it is retried on an error up to its limit and recovered after a
crash. Gmail and IMAP handlers compute their window before the loop, so their hand-off
property needs `KeyTTL > Window + Timeout`, an assumption of both modules that
10 min + 30 min < 24 h satisfies.

## 5. What disagrees with the code's own words, and what was met on the way

*OutlookRateLimit* is a violated run (`PROJECT.json`, findings): a log line says
"rescheduling task" (`handler.go` 241), but the copy finds the dedup key of the first
run and drops the message.

These consequences of the code were met on the way. They are not runs; the
properties name them as exceptions, or show them when the bound named is changed:

- Below nine messages `mbox.Messages - 9` (`handler.go` 869) wraps in uint32, and "the
  last 10 messages" becomes the last one, or a range the server may refuse:
  `LastTenFetched` fails with `OldMail = 0`. The run is therefore
  about mailboxes of nine messages and more (`OldMail = 2`, scaled).
- Gmail's history ids are compared as strings (`handler.go` 581, 726): of 9 and 10 the
  handler saves 9. The cursor lags until the ids have the same length again, and
  messages are scanned again; `CursorSkipsNothing` holds, the cursor is never too new.
- The renewer saves the history id `users.watch` answers (`renewer.go` 157): messages
  whose notification is on its way are behind the cursor then (`leapt`).
- A fetch or a renewal in flight writes its old credentials back with status ACTIVE
  (`handler.go` 548, 815) after a disconnect task has "set status to
  DISCONNECTED" (1263).
- A callback that could not register a subscription leaves no entry in the sorted set,
  "so subscription loop can pick it up" (`outlook.go` 207), but the loop reads nothing
  else. `NoLapse` and `Recovered` are about accounts with an entry.
- Without `OUTLOOK_NOTIFICATION_URL` no cycle renews an Outlook subscription; the model
  assumes it set.
- `active_count` goes wrong in the ways `leaked` and `overfreed` name: a
  reconnection counts again and gives nothing back, an account that moves to Outlook keeps its
  slot, a disconnect task that runs twice gives it back twice.
- A Cloudflare mail that fails after its key is set is answered with an error, and its
  next delivery with "duplicate" (`spent`); a message to two mailboxes reaches the one
  whose webhook came first (`crossed`).
- Updates that arrive during NOOP beyond the room of `updatesChan` block the reader of
  the connection, and with it the supervisor, for good (`stuck`, `pool.go` 247). The
  liveness properties of `ImapPool` name it.
- A supervisor that ends by itself, because it suspends the account (`pool.go` 136-139)
  or its credentials do not parse (99-102), leaves its entry in the map. If the
  row was not written, or the account is activated again, the account is ACTIVE and
  reconciliation skips it. `MissingIsStarted` is about accounts without an entry.

## 6. Proofs

All theorems hold for every value of the constants that satisfies the named
assumptions; the runs show the same properties on small instances.

`MessagePipelineProofs` (assumption `PipelineAssumption`):

- `TypeCorrect`: `Spec => []TypeOK`, by one lemma per action.
- `RowFirst`: `RowBeforeEvent`. Not inductive alone: `RowInv` adds that a
  process task that is past its INSERT is about a stored message (`StoredFirst`).
- `LastSyncOfStored`, `LastSyncGrows`: the action properties `LastSyncBacked` and
  `LastSyncMonotone`, from `RowInv` and from `DatesPast` (no date lies in the
  future, so that a reconnection, which sets `last_sync_at` to now, does not take it
  back).
- `HandedOffOnce`: `HandoffAtMostOnce`, what the deduplication is there for.
  `HandoffInv` is the invariant: until the key of a message can have expired
  (`Spent`), at most one fetch holds the message and only if it has not been handed off; whatever
  is accepted by the window has not been handed off, and is alone. After
  expiry a second fetch may hold the message, but `KeyTTL > Window` makes the
  window reject it.
- `PipelineImplementsHandoff`: `ImplementsHandoff`. A step of `Dedup` that Redis fails maps
  to `Exempt`, one of `Handoff` to `HandOff`, whose guard is `HandoffAtMostOnce` of the
  next state, and every other step but `Arrive` to a stutter.
- `RowsExplained`: `DuplicateRowsExplained`. It counts: the process tasks of a message
  (`ProcessTasks`) are no more than its hand-offs, and its rows together with the tasks whose
  INSERT is still to come (`Inserters`) no more than hand-offs * (1 + crashes) + lost
  (`CountInv`). A crash may queue all of them again, which is what raises the right side by one
  per hand-off; a lost answer queues one again. That these sets are finite is part of the
  invariant, so any set of tasks will do.

`RuleCacheProofs` (`CacheAssumption`): `TypeCorrect`; `StaleExplained`, from
`StaleInv`, which says of a list about to be stored what the property says of the
cache.

`ImapPoolProofs` (`PoolAssumption`, for any number of accounts, the malformed ones
included, which the run leaves out to stay small): `TypeCorrect`; `EntryCorrect`
(`EntryNamesSupervisor`: the entry of an account names its uncancelled supervisor),
which is inductive together with the types, and from it `AtMostOneSupervisor`;
`GoneUnwatched` (`NobodyWatchesTheGone`), from `GoneInv`, which also covers an account
that is being disconnected and one that a reconciliation is about to start.
`SuspensionsAreJustified` (`SuspensionJustified`): `BreakerInv` says that of the
failures a supervisor remembers (`recent`, history), the last `fails` came since its
window began, so that a count that reaches the limit is one of that many recent
failures; that the code resets the count and the window together, and only there, is what
keeps it. `DisconnectionsStick` (`DisconnectSticks`) follows from
`NobodyWatchesTheGone`: only `Fail` suspends, and only for a supervisor nobody cancelled.

`GcpPoolProofs` (`GcpPoolAssumption`, for any finite number of accounts and pages):
`PoolTypeCorrect`, `PoolQuota`, `PoolNotUndercounted`, `PoolNotLeaked`. The invariant
of `PoolQuota` is `Quota` with the types. The
other two compare `active_count` with the accounts that use a project, and need the
running tasks: a task remembers a slot only between its read and its write (`Shape`), which
is the account's project still (`Known`) unless that project is in `leaked`; two tasks
that hold one slot have put it into `overfreed` (`Unique`); an account that moved to
Outlook has leaked its slot (`Moved`). `Enough` is `NotUndercounted` with the claims of these tasks
added, which every step of a task keeps.

`CloudflareRouteProofs` (`CloudflareAssumption`, for any number of mails, mailboxes and
deliveries):

- `TypeCorrect`. That a mail is handed off at most `MaxTries` times needs `Counted`:
  each handler hands off once, when it ends.
- `AcceptedTaken`: `AcceptedIsTaken`. `Taken(m)` says that m is handed off, past its
  dedup check, declined or lost to a key; `TakenStays` shows that no step takes
  it back, `KeyTaken` that the mail that set a key is taken, so that "duplicate"
  is said of a taken mail only.
- `RouteImplementsHandoff`: `ImplementsHandoff`, from `Alone`: while the key of a mail
  lives it is the mail's own, one handler at most is past the check, and none once
  the mail is handed off.

`SubscriptionsProofs` (`SubscriptionAssumption`, for any ids, lives, horizons and
numbers of failures, and for either provider): `TypeCorrect`; `NeverLapses` (`NoLapse`).
`NoLapse` is not inductive, as it says nothing until the last subscription has ended.
`LapseInv` says of each moment that some subscription covers what the sorted set
says: it lives as long, up to the cycles that missed it (`Covers`); and that whoever is
about to write the set has registered a subscription with its full life (`Renewing`). It
needs no relation between the row and the set, so overwriting each other's credentials
cannot disturb it.

`ImapFetchProofs` (`ImapFetchAssumption`):

- `TypeCorrect`. That a handler loops over a sequence of messages needs that the
  mailbox numbers them apart (`InboxInv`): `InOrder` picks for each position the message
  with so many below it, which lemmas about ranks in finite sets show to exist.
- `LastTenAsked`: `LastTenFetched`, under the hypothesis `OldMail >= LastMany - 1` that the run
  meets and without which it is false (section 5). The arithmetic is that of
  `RangeStart` modulo `Word`.
- `ImapImplementsHandoff`: `ImplementsHandoff`, from `KeyInv` (the key of a message whose
  date is not ahead outlives the date by more than window and task) and `OnceInv`
  (whose key was set is held by one task at most, and by none once handed off). A key that
  is claimed again has expired, and then the window of every task that runs rejects the
  message: this is where `KeyTTL > Window + Timeout` is used.

`GmailFetchProofs` (`GmailAssumption`):

- `TypeCorrect`, with `TaskInv` and `MailboxInv`: ids of messages differ and leave no gap
  above the cursor, so that both kinds of pages are sequences of messages, and what the
  cursor, a handler or a renewal holds is an id the history can be listed from.
- `CursorPassesNothing`: `CursorSkipsNothing`. `CareInv` speaks of the messages nobody has
  handed off, holds or is excused for (`Neglected`): they lie beyond the cursor and have
  no key, beyond the id each handler started from, and beyond whatever a handler has read
  or is going to read unless they are on its list. Of `Latest` the proof uses only that its elements are ids that were
  read: what the comparison of strings, a recursive function, computes is out of reach, and
  whichever of them it picks, the cursor is not too new.
- `GmailImplementsHandoff`: `ImplementsHandoff`, by the argument of IMAP, with the date of
  arrival in place of the sender's. A handler checks the window after the key (`Accepts`
  therefore leaves out a handler that is about to drop the message).

The inductive invariants were checked with TLC on the instances of the runs before they
were proved.

Only model-checked: the liveness properties (`Delivered`, `EditReachesCache`,
`CancelledStops`, `UpdatesHeard`, `MissingIsStarted`, `Recovered`, `RevocationNoticed`,
`Settled`), since liveness under fairness and ENABLED are outside of what the installed
provers do; and `RescheduledIsFetched`, which is violated. The bounds of the runs (faults, crashes, ticks, owner actions)
are constants of the theorems too, and hold no matter how large.

## 7. What is not modelled

- Body extraction (`engine.go`, `handler.go` 1176-1231): sequential functions of their
  input. The process handler has their outcome.
- Start-up and configuration: straight-line set-up. `Stop` of the pool is an action of
  `ImapPool`, the death of the process one of the pipelines.
- Several mailboxes at once, but for `CloudflareRoute`: the dedup key does not name
  the mailbox for IMAP either.
- What `LIKE '%id%'` finds in the credentials of another account: ids are unique.
- Wording: subjects, bodies, regular expressions, logs, HTML pages; signatures and tokens of
  webhooks (a notification in the models is genuine); mail the MIME parser refuses.
- Broadcasts of status changes: nobody in the repository reads them.
- IMAP expunges, and history entries of Gmail other than new messages.
- Priorities of queues: they order tasks, and the models allow every order. Connection
  pooling of the database.
