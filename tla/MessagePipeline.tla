--------------------------- MODULE MessagePipeline ---------------------------
(***************************************************************************)
(* The path of a message of ONE mailbox: the provider's notification       *)
(* (internal/webhook), the "email:fetch" task (HandleOutlookFetch or       *)
(* HandleResendFetch, internal/queue/handler.go), the "email:process" task *)
(* (HandleEmailProcessTask), the row in the tenant's table, the mailbox's  *)
(* last_sync_at and the broadcast event.                                   *)
(*                                                                         *)
(* Every step of a handler that talks to PostgreSQL, Redis or the          *)
(* provider is an action of its own, so up to Concurrency handlers         *)
(* interleave, and each such call may fail.  Asynq is external: it runs    *)
(* queued tasks in any order, deletes a task whose handler returned nil,   *)
(* queues it again when the handler returned an error (at most MaxRetry    *)
(* times), and queues it again when the process died while running it.     *)
(***************************************************************************)
EXTENDS Integers, FiniteSets

CONSTANTS
  Messages,        \* messages that may arrive in the mailbox
  Tasks,           \* identities of asynq tasks
  Provider,        \* "outlook" or "resend"
  Matching,        \* messages whose subject equals a rule of the tenant
  Extractable,     \* messages whose body ExtractData accepts
  Window,          \* 10 minutes, in ticks
  KeyTTL,          \* 24 hours, in ticks
  TicksPerSecond,  \* clock ticks in the second RFC 3339 dates keep
  MaxRetry,        \* asynq's retry limit
  Concurrency,     \* asynq.Config.Concurrency
  Null,            \* SQL NULL / an absent value
  MaxTime,         \* bound: the clock
  MaxFaults,       \* bound: failing calls in a behaviour
  MaxCrashes,      \* bound: process crashes in a behaviour
  MaxNotices       \* bound: copies of one notification

\* The dedup key outlives the acceptance window: 24 h against 10 min.
ASSUME PipelineAssumption ==
  /\ Provider \in {"outlook", "resend"}
  /\ Matching \subseteq Messages /\ Extractable \subseteq Messages
  /\ Window \in Nat /\ KeyTTL \in Nat /\ KeyTTL > Window
  /\ TicksPerSecond \in Nat \ {0}
  /\ MaxRetry \in Nat /\ Concurrency \in Nat \ {0}
  /\ MaxTime \in Nat /\ MaxFaults \in Nat /\ MaxCrashes \in Nat
  /\ MaxNotices \in Nat \ {0}
  /\ Null \notin Int /\ Null \notin Messages

VARIABLES
  now,        \* the clock the service, the provider and PostgreSQL share
  received,   \* received[m]: the provider's date of m, Null until it arrives
  notices,    \* notices[m]: notifications of m still to be delivered
  edited,     \* the tenant has changed its subject rules
  status,     \* master.email_accounts.status
  lastSync,   \* master.email_accounts.last_sync_at
  expires,    \* expires[m]: when the Redis key dedup:email:<m> expires
  task,       \* task[i]: the asynq task i and the state of its handler
  rows,       \* rows[m]: rows of m in <tenant>.email_message_ts
  events,     \* events[m]: broadcasts of m on email_events:broadcast
  faults, crashes,
  (* history, never read by an action *)
  handoffs,   \* handoffs[m]: "email:process" tasks enqueued for m
  bypassed,   \* messages let past a dedup check that Redis failed
  harmed,     \* messages hit by a failure the design does not recover from
  throttled,  \* messages whose fetch was rescheduled on a 429
  lost        \* INSERTs that were committed although the handler saw an error

provider == <<received, notices, edited>>
account  == <<status, lastSync>>
store    == <<rows, events>>
bounds   == <<faults, crashes>>
history  == <<handoffs, bypassed, harmed, throttled, lost>>
vars     == <<now, provider, account, expires, task, store, bounds, history>>

Statuses == {"ACTIVE", "REAUTH_REQUIRED", "DISCONNECTED"}
FetchPCs == {"queued", "dedup", "token", "get", "body", "handoff", "done"}
ProcPCs  == {"queued", "insert", "sync", "publish", "done"}
Time     == 0..MaxTime

Task == [kind : {"none", "fetch", "process"}, pc : FetchPCs \cup ProcPCs,
         msg : Messages \cup {Null}, retried : 0..MaxRetry,
         snap : Int \cup {Null}]

Idle == [kind |-> "none", pc |-> "done", msg |-> Null, retried |-> 0, snap |-> Null]

\* asynq.NewTask(...) as it sits in a queue.
Queued(k, m) == [kind |-> k, pc |-> "queued", msg |-> m, retried |-> 0, snap |-> Null]

Free(i)   == task[i].kind = "none"
Active    == {i \in Tasks : ~Free(i) /\ task[i].pc # "queued"}
At(i, k, p) == task[i].kind = k /\ task[i].pc = p
Msg(i)    == task[i].msg
Goto(i, p) == task' = [task EXCEPT ![i].pc = p]

\* A worker slot is free: asynq.Config.Concurrency bounds running handlers.
SlotFree == Cardinality(Active) < Concurrency

\* A call fails: the bound MaxFaults caps how often.
Fault == faults < MaxFaults /\ faults' = faults + 1

\* What asynq makes of a task whose handler returned an error or died: it is
\* queued with one more retry, or archived once MaxRetry is reached.
AfterError_Forever(i) == [Queued(task[i].kind, Msg(i)) EXCEPT !.retried = task[i].retried + 1]
AfterError(i) ==
  IF task[i].retried < MaxRetry
    THEN [Queued(task[i].kind, Msg(i)) EXCEPT !.retried = task[i].retried + 1]
    ELSE Idle
ReturnErr(i) == task' = [task EXCEPT ![i] = AfterError(i)]
\* The handler returned nil; asynq has still to delete the task.
ReturnNil(i) == Goto(i, "done")

\* A failure past the point of no return, or the last retry of an earlier one.
Harm(i) == harmed' = harmed \cup {Msg(i)}
HarmIfArchived(i) == harmed' = IF task[i].retried < MaxRetry THEN harmed
                                                            ELSE harmed \cup {Msg(i)}

Init ==
  /\ now = 0
  /\ received = [m \in Messages |-> Null]
  /\ notices = [m \in Messages |-> 0]
  /\ edited = FALSE
  /\ status = "ACTIVE"
  /\ lastSync = IF Provider = "outlook" THEN 0 ELSE Null
  /\ expires = [m \in Messages |-> Null]
  /\ task = [i \in Tasks |-> Idle]
  /\ rows = [m \in Messages |-> 0] /\ events = [m \in Messages |-> 0]
  /\ faults = 0 /\ crashes = 0
  /\ handoffs = [m \in Messages |-> 0]
  /\ bypassed = {} /\ harmed = {} /\ throttled = {} /\ lost = 0

-----------------------------------------------------------------------------
(* The clock, the provider, the tenant and the account's owner.            *)

Tick == /\ now < MaxTime /\ now' = now + 1
        /\ UNCHANGED <<provider, account, expires, task, store, bounds, history>>

\* A message arrives; the provider will deliver its notification n >= 1 times.
Arrive(m) ==
  /\ received[m] = Null
  /\ received' = [received EXCEPT ![m] = now]
  /\ \E n \in 1..MaxNotices : notices' = [notices EXCEPT ![m] = n]
  /\ UNCHANGED <<now, edited, account, expires, task, store, bounds, history>>

\* The tenant changes its rules; RuleCache may serve old or new ones from now on.
EditRules == /\ ~edited /\ edited' = TRUE
             /\ UNCHANGED <<now, received, notices, account, expires, task, store,
                            bounds, history>>
MatchOutcomes(m) == IF edited THEN BOOLEAN ELSE {m \in Matching}

\* The row update of the OAuth callback: last_sync_at = NOW(), status ACTIVE.
\* A Resend account is switched on by the monolith, which sets the status only.
Reconnect ==
  /\ status' = "ACTIVE"
  /\ lastSync' = IF Provider = "outlook" THEN now ELSE lastSync
  /\ UNCHANGED <<now, provider, expires, task, store, bounds, history>>

\* The row update of HandleEmailDisconnectTask.
Disconnect ==
  /\ status' = "DISCONNECTED"
  /\ UNCHANGED <<now, provider, lastSync, expires, task, store, bounds, history>>

-----------------------------------------------------------------------------
(* internal/webhook: a notification becomes an "email:fetch" task.          *)

\* Resend asks for an ACTIVE account.  Outlook looks for the subscription id in
\* the credentials, whatever the status, and falls back on the resource path: a
\* mailbox that is not ACTIVE may be found or not.
Resolves    == Provider = "outlook" \/ status = "ACTIVE"
Unresolved  == status # "ACTIVE"

\* When the enqueue fails Outlook is told 202 all the same, so the notification
\* is gone; Resend is told 500 and delivers again.  (An enqueue that took effect
\* before it failed amounts to one more copy of the notification.)
KeptAfterEnqueueFailure_Never == FALSE
KeptAfterEnqueueFailure == Provider = "resend"

Webhook(m) ==
  /\ notices[m] > 0
  /\ \/ /\ Resolves
        /\ \E i \in Tasks : Free(i) /\ task' = [task EXCEPT ![i] = Queued("fetch", m)]
        /\ notices' = [notices EXCEPT ![m] = @ - 1]
        /\ UNCHANGED <<faults, harmed>>
     \/ /\ Unresolved
        /\ notices' = [notices EXCEPT ![m] = @ - 1]
        /\ harmed' = harmed \cup {m}
        /\ UNCHANGED <<task, faults>>
     \/ \* the account lookup fails: logged, answered as if unknown
        /\ Fault
        /\ notices' = [notices EXCEPT ![m] = @ - 1]
        /\ harmed' = harmed \cup {m}
        /\ UNCHANGED task
     \/ \* Enqueue fails
        /\ Resolves /\ Fault
        /\ notices' = IF KeptAfterEnqueueFailure THEN notices
                                                 ELSE [notices EXCEPT ![m] = @ - 1]
        /\ harmed' = IF Provider = "outlook" THEN harmed \cup {m} ELSE harmed
        /\ UNCHANGED task
  /\ UNCHANGED <<now, received, edited, account, expires, store, crashes,
                 handoffs, bypassed, throttled, lost>>

-----------------------------------------------------------------------------
(* HandleOutlookFetch and HandleResendFetch.                               *)

\* GetEmailAccountByEmailAndProvider: only an ACTIVE account is found, and the
\* handler keeps the last_sync_at it read.
LookupFailed_Swallowed(i) == ReturnNil(i) /\ UNCHANGED harmed
LookupFailed(i) == ReturnErr(i) /\ HarmIfArchived(i)

Lookup(i) ==
  /\ At(i, "fetch", "queued") /\ SlotFree
  /\ \/ /\ status = "ACTIVE"
        /\ task' = [task EXCEPT ![i].pc = "dedup", ![i].snap = lastSync]
        /\ UNCHANGED <<harmed, faults>>
     \/ /\ status # "ACTIVE"
        /\ ReturnNil(i) /\ Harm(i) /\ UNCHANGED faults
     \/ Fault /\ LookupFailed(i)
  /\ UNCHANGED <<now, provider, account, expires, store, crashes,
                 handoffs, bypassed, throttled, lost>>

\* isDuplicateMessage: SETNX dedup:email:<m> with a TTL.  A Redis error is
\* logged and the handler carries on as if the message were new.
KeyLive(m) == expires[m] # Null /\ now < expires[m]
AfterDedup == IF Provider = "outlook" THEN "token" ELSE "get"

Dedup(i) ==
  /\ At(i, "fetch", "dedup")
  /\ \/ /\ ~KeyLive(Msg(i))
        /\ expires' = [expires EXCEPT ![Msg(i)] = now + KeyTTL]
        /\ Goto(i, AfterDedup)
        /\ UNCHANGED <<faults, bypassed>>
     \/ /\ KeyLive(Msg(i))
        /\ ReturnNil(i)
        /\ UNCHANGED <<expires, faults, bypassed>>
     \/ \* Redis fails, before or after it has set the key
        /\ Fault
        /\ bypassed' = bypassed \cup {Msg(i)}
        /\ Goto(i, AfterDedup)
        /\ \/ UNCHANGED expires
           \/ /\ ~KeyLive(Msg(i))
              /\ expires' = [expires EXCEPT ![Msg(i)] = now + KeyTTL]
  /\ UNCHANGED <<now, provider, account, store, crashes, handoffs, harmed, throttled, lost>>

\* UpdateEmailAccountStatus("REAUTH_REQUIRED"): its own error is ignored.
Reauth == status' \in {status, "REAUTH_REQUIRED"} /\ UNCHANGED lastSync

\* The access token is valid or could be refreshed but not saved; or it is
\* refreshed and saved, which also sets the status ACTIVE; or the refresh fails.
Token(i) ==
  /\ At(i, "fetch", "token")
  /\ \/ Goto(i, "get") /\ UNCHANGED <<account, faults, harmed>>
     \/ /\ status' = "ACTIVE" /\ UNCHANGED lastSync
        /\ Goto(i, "get") /\ UNCHANGED <<faults, harmed>>
     \/ Fault /\ Reauth /\ ReturnErr(i) /\ Harm(i)
  /\ UNCHANGED <<now, provider, expires, store, crashes, handoffs, bypassed, throttled, lost>>

\* max(LastSyncAt as the handler read it, now - 10 minutes)
FilterStart_SyncOnly(i) == IF task[i].snap # Null THEN task[i].snap ELSE 0
FilterStart(i) ==
  LET tenMinutesAgo == now - Window
  IN  IF task[i].snap # Null /\ task[i].snap > tenMinutesAgo THEN task[i].snap
                                                             ELSE tenMinutesAgo

\* rescheduleFetchTask: a fresh copy of the task; a failing Enqueue is only logged.
Reschedule(i) ==
  \/ /\ \E j \in Tasks : Free(j) /\ task' = [task EXCEPT ![i].pc = "done",
                                                         ![j] = Queued("fetch", Msg(i))]
     /\ UNCHANGED harmed
  \/ ReturnNil(i) /\ Harm(i)
Throttle(i) == Reschedule(i) /\ throttled' = throttled \cup {Msg(i)} /\ UNCHANGED account

\* The ways a provider call can go wrong that both calls share: an error or an
\* unexpected status (retried), 401/403 (reauthorise, give up), 429 (reschedule).
ProviderFault(i) ==
  /\ Fault
  /\ \/ ReturnErr(i) /\ Harm(i) /\ UNCHANGED <<account, throttled>>
     \/ ReturnNil(i) /\ Harm(i) /\ Reauth /\ UNCHANGED throttled
     \/ Throttle(i)

\* GET of the header (Outlook) or of the whole message (Resend), the time
\* window, then the subject rules.
AfterMatch == IF Provider = "outlook" THEN "body" ELSE "handoff"

GetHeader(i) ==
  /\ At(i, "fetch", "get")
  /\ \/ /\ received[Msg(i)] < FilterStart(i) /\ ReturnNil(i)
        /\ UNCHANGED <<account, faults, harmed, throttled>>
     \/ /\ received[Msg(i)] >= FilterStart(i)
        /\ \E matched \in MatchOutcomes(Msg(i)) :
             IF matched THEN Goto(i, AfterMatch) ELSE ReturnNil(i)
        /\ UNCHANGED <<account, faults, harmed, throttled>>
     \/ \* GetRules fails
        /\ received[Msg(i)] >= FilterStart(i)
        /\ Fault /\ ReturnErr(i) /\ Harm(i) /\ UNCHANGED <<account, throttled>>
     \/ \* 404
        /\ Fault /\ ReturnNil(i) /\ Harm(i) /\ UNCHANGED <<account, throttled>>
     \/ ProviderFault(i)
  /\ UNCHANGED <<now, provider, expires, store, crashes, handoffs, bypassed, lost>>

GetBody(i) ==
  /\ At(i, "fetch", "body")
  /\ \/ Goto(i, "handoff") /\ UNCHANGED <<account, faults, harmed, throttled>>
     \/ ProviderFault(i)
  /\ UNCHANGED <<now, provider, expires, store, crashes, handoffs, bypassed, lost>>

\* Enqueue of the "email:process" task.
Handoff(i) ==
  /\ At(i, "fetch", "handoff")
  /\ \/ /\ \E j \in Tasks : Free(j) /\ task' = [task EXCEPT ![i].pc = "done",
                                                            ![j] = Queued("process", Msg(i))]
        /\ handoffs' = [handoffs EXCEPT ![Msg(i)] = @ + 1]
        /\ UNCHANGED <<faults, harmed>>
     \/ Fault /\ ReturnErr(i) /\ Harm(i) /\ UNCHANGED handoffs
     \/ \* the task is queued, but the answer is lost: the handler returns an error
        /\ Fault /\ Harm(i)
        /\ \E j \in Tasks : Free(j) /\ task' = [task EXCEPT ![i] = AfterError(i),
                                                            ![j] = Queued("process", Msg(i))]
        /\ handoffs' = [handoffs EXCEPT ![Msg(i)] = @ + 1]
  /\ UNCHANGED <<now, provider, account, expires, store, crashes, bypassed, throttled, lost>>

-----------------------------------------------------------------------------
(* HandleEmailProcessTask.                                                 *)

\* The rules again, then ExtractData: no rule or nothing to extract is nil.
Extract(i) ==
  /\ At(i, "process", "queued") /\ SlotFree
  /\ \/ /\ \E matched \in MatchOutcomes(Msg(i)) :
             IF matched /\ Msg(i) \in Extractable THEN Goto(i, "insert") ELSE ReturnNil(i)
        /\ UNCHANGED <<faults, harmed>>
     \/ Fault /\ ReturnErr(i) /\ HarmIfArchived(i)
  /\ UNCHANGED <<now, provider, account, expires, store, crashes,
                 handoffs, bypassed, throttled, lost>>

InsertFailed_Logged(i) == Goto(i, "sync") /\ UNCHANGED harmed
InsertFailed(i) == ReturnErr(i) /\ HarmIfArchived(i)
NewRow(i) == rows' = [rows EXCEPT ![Msg(i)] = @ + 1]

Insert(i) ==
  /\ At(i, "process", "insert")
  /\ \/ NewRow(i) /\ Goto(i, "sync") /\ UNCHANGED <<faults, harmed, lost>>
     \/ Fault /\ InsertFailed(i) /\ UNCHANGED <<rows, lost>>
     \/ \* the row is committed, but the answer is lost
        Fault /\ InsertFailed(i) /\ NewRow(i) /\ lost' = lost + 1
  /\ UNCHANGED <<now, provider, account, expires, events, crashes,
                 handoffs, bypassed, throttled>>

\* The date travels in the payload as RFC 3339, which drops the fraction.
EmailDate(m) == received[m] - (received[m] % TicksPerSecond)

\* UPDATE ... SET last_sync_at = $1 WHERE last_sync_at IS NULL OR last_sync_at < $1;
\* its error is only logged.
IsNewer_Always(d) == TRUE
IsNewer(d) == lastSync = Null \/ lastSync < d

SyncFailed_Returned(i) == ReturnErr(i)
SyncFailed(i) == Goto(i, "publish")

UpdateLastSync(i) ==
  /\ At(i, "process", "sync")
  /\ \/ /\ lastSync' = IF IsNewer(EmailDate(Msg(i))) THEN EmailDate(Msg(i)) ELSE lastSync
        /\ Goto(i, "publish") /\ UNCHANGED faults
     \/ Fault /\ SyncFailed(i) /\ UNCHANGED lastSync
  /\ UNCHANGED <<now, provider, status, expires, store, crashes, history>>

\* Publish on email_events:broadcast; its result is not looked at.
Publish(i) ==
  /\ At(i, "process", "publish")
  /\ \/ events' = [events EXCEPT ![Msg(i)] = @ + 1] /\ UNCHANGED faults
     \/ Fault /\ UNCHANGED events
  /\ ReturnNil(i)
  /\ UNCHANGED <<now, provider, account, expires, rows, crashes, history>>

-----------------------------------------------------------------------------
(* asynq: delete a finished task; recover the tasks of a dead process.     *)

Ack(i) ==
  /\ ~Free(i) /\ task[i].pc = "done"
  /\ task' = [task EXCEPT ![i] = Idle]
  /\ UNCHANGED <<now, provider, account, expires, store, bounds, history>>

\* Messages a crash strands: their dedup key is set and nothing was handed off,
\* or their task is out of retries.
Stranded == {Msg(i) : i \in {j \in Active :
                 \/ task[j].kind = "fetch" /\ task[j].pc \in {"token", "get", "body", "handoff"}
                 \/ task[j].pc # "done" /\ task[j].retried = MaxRetry}}

Crash ==
  /\ crashes < MaxCrashes /\ crashes' = crashes + 1
  /\ Active # {}
  /\ task' = [i \in Tasks |-> IF i \in Active THEN AfterError(i) ELSE task[i]]
  /\ harmed' = harmed \cup Stranded
  /\ UNCHANGED <<now, provider, account, expires, store, faults,
                 handoffs, bypassed, throttled, lost>>

-----------------------------------------------------------------------------
FetchStep(i)   == Lookup(i) \/ Dedup(i) \/ Token(i) \/ GetHeader(i) \/ GetBody(i) \/ Handoff(i)
ProcessStep(i) == Extract(i) \/ Insert(i) \/ UpdateLastSync(i) \/ Publish(i)
Worker(i)      == FetchStep(i) \/ ProcessStep(i) \/ Ack(i)
Environment    == \/ Tick \/ EditRules \/ Reconnect \/ Disconnect \/ Crash
                  \/ \E m \in Messages : Arrive(m)

Next == \/ Environment
        \/ \E m \in Messages : Webhook(m)
        \/ \E i \in Tasks : Worker(i)

Spec == Init /\ [][Next]_vars

\* Asynq keeps running queued tasks, and the provider keeps delivering.
Fairness == /\ \A i \in Tasks : WF_vars(Worker(i))
            /\ \A m \in Messages : WF_vars(Webhook(m))
FairSpec == Spec /\ Fairness

-----------------------------------------------------------------------------
(* Properties.                                                             *)

\* Every variable has its type; in particular no task is retried more than
\* MaxRetry times.
TypeOK ==
  /\ now \in Time
  /\ received \in [Messages -> Time \cup {Null}]
  /\ notices \in [Messages -> Nat]
  /\ \A m \in Messages : notices[m] > 0 => received[m] # Null
  /\ edited \in BOOLEAN
  /\ status \in Statuses
  /\ lastSync \in Int \cup {Null}
  /\ expires \in [Messages -> Int \cup {Null}]
  /\ task \in [Tasks -> Task]
  /\ \A i \in Tasks : ~Free(i) => Msg(i) \in Messages /\ received[Msg(i)] # Null
  /\ rows \in [Messages -> Nat] /\ events \in [Messages -> Nat]
  /\ faults \in 0..MaxFaults /\ crashes \in 0..MaxCrashes
  /\ handoffs \in [Messages -> Nat]
  /\ bypassed \subseteq Messages /\ harmed \subseteq Messages /\ throttled \subseteq Messages
  /\ lost \in Nat

\* However often a notification is delivered, a task retried or a process
\* restarted, and even after its dedup key has expired, a message is handed to
\* processing at most once - unless Redis failed a dedup check of it.  After the
\* key is gone the ten-minute window rejects the message (handler.go 175-182,
\* 260-271).
HandoffAtMostOnce == \A m \in Messages : m \notin bypassed => handoffs[m] <= 1

\* The pipeline implements Handoff: whatever its handlers do is, seen from outside, the
\* arrival of a message, its one hand-off, or nothing (handler.go 175-182, 260-271).
H == INSTANCE Handoff WITH arrived <- {m \in Messages : received[m] # Null},
                           handed <- handoffs, exempt <- bypassed
ImplementsHandoff == H!Spec

\* A subscriber that hears of a message finds its row: the insert precedes the
\* broadcast, whatever fails in between.
RowBeforeEvent == \A m \in Messages : events[m] > 0 => rows[m] > 0

\* A second row for one hand-off takes a crash of the process between the INSERT
\* and the acknowledgement, or an INSERT whose answer is lost: a failing UPDATE of
\* last_sync_at or PUBLISH never duplicates a row.
DuplicateRowsExplained ==
  \A m \in Messages : rows[m] <= handoffs[m] * (1 + crashes) + lost

\* last_sync_at never goes back, although process tasks of different messages
\* finish in any order ("only if it is newer", handler.go).
LastSyncMonotone ==
  [][lastSync # Null => lastSync' # Null /\ lastSync' >= lastSync]_lastSync

\* Only a stored message moves last_sync_at, apart from the OAuth callback, so
\* the filter never discards messages because of one that was not stored.
LastSyncBacked ==
  [][\/ lastSync' = now /\ status' = "ACTIVE" /\ UNCHANGED task
     \/ \E m \in Messages : rows[m] > 0 /\ lastSync' = EmailDate(m)]_lastSync

Arrived(m)   == received[m] # Null
Late(m)      == Arrived(m) /\ received[m] < now - Window
Overtaken(m) == Arrived(m) /\ lastSync # Null /\ received[m] < lastSync
Excused(m)   == \/ m \in harmed \/ edited \/ Late(m) \/ Overtaken(m)
                \/ m \notin Matching \/ m \notin Extractable

\* A message that arrives is stored, unless the rules discard it, it is
\* fetched too late, a newer message was stored first, or a failure hit it
\* between its dedup key and its hand-off.  Failures before the key is set and
\* in the process task are absorbed by asynq's retries.
Delivered ==
  \A m \in Messages :
    Arrived(m) ~> \/ rows[m] > 0
                  \/ Excused(m) \/ m \in throttled

\* What the log line of the 429 branch says ("rescheduling task", handler.go 241):
\* the message is fetched again once the provider accepts requests, as long as the
\* mailbox stays connected.
RescheduledIsFetched ==
  \A m \in Messages :
    m \in throttled ~> handoffs[m] > 0 \/ Excused(m) \/ status # "ACTIVE"

-----------------------------------------------------------------------------
(* Strengthenings that make the safety properties inductive.               *)

\* A process task past its INSERT is about a stored message.
StoredFirst ==
  \A i \in Tasks : At(i, "process", "sync") \/ At(i, "process", "publish")
                   => rows[Msg(i)] > 0
RowInv == RowBeforeEvent /\ StoredFirst

Holding(i) == task[i].kind = "fetch" /\ task[i].pc \in {"token", "get", "body", "handoff"}
Accepted(i) == task[i].kind = "fetch" /\ task[i].pc \in {"body", "handoff"}
\* The dedup key set by the first fetch of m may be gone.
Spent(m) == now >= received[m] + KeyTTL
KeySet(m) == expires[m] # Null /\ expires[m] >= received[m] + KeyTTL

\* Dates are never in the future, of a message or of the last sync.
DatesPast == /\ \A m \in Messages : Arrived(m) => received[m] <= now
             /\ lastSync # Null => lastSync <= now

\* Until the key of m expires one fetch holds it and a handed-off message has no
\* holder; after that no fetch passes the window; and of the fetches that did
\* pass it there is at most one, which has not handed off yet.
HandoffInv ==
  /\ \A m \in Messages \ bypassed :
       /\ handoffs[m] <= 1
       /\ handoffs[m] > 0 => Arrived(m) /\ KeySet(m)
  /\ \A i \in Tasks : Msg(i) \notin bypassed /\ Holding(i) =>
       /\ KeySet(Msg(i))
       /\ ~Spent(Msg(i)) =>
            /\ handoffs[Msg(i)] = 0
            /\ \A j \in Tasks : Holding(j) /\ Msg(j) = Msg(i) => i = j
  /\ \A i \in Tasks : Msg(i) \notin bypassed /\ Accepted(i) =>
       /\ handoffs[Msg(i)] = 0
       /\ \A j \in Tasks : Accepted(j) /\ Msg(j) = Msg(i) => i = j
=============================================================================
