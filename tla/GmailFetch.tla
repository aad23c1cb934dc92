----------------------------- MODULE GmailFetch -----------------------------
(***************************************************************************)
(* HandleGmailFetch (internal/queue/handler.go) on ONE mailbox: what a     *)
(* notification makes of Gmail's history, the cursor last_history_id kept  *)
(* in the account's credentials, the loop over the messages found, and the *)
(* OAuth callback, the disconnect task and the renewal of the watch, which *)
(* rewrite the same row.                                                   *)
(*                                                                         *)
(* Every call to PostgreSQL, Redis or Gmail is an action; the handlers of  *)
(* several notifications interleave.  A history id is the number its       *)
(* decimal string writes; 0 stands for "" and "0".  Gmail is external: it  *)
(* gives each message the next history id, lists the history oldest first  *)
(* and the messages newest first, a page at a time.                        *)
(***************************************************************************)
EXTENDS Integers, FiniteSets, Sequences

CONSTANTS
  Messages, Tasks,
  Matching,      \* messages whose subject equals a rule of the tenant
  FirstIds,      \* what the mailbox's history id may be when it is connected
  Page,          \* entries in a response of history.list or messages.list
  Window,        \* 10 minutes, in ticks
  KeyTTL,        \* 24 hours
  Timeout,       \* asynq's default for a task that sets none: 30 minutes
  MaxRetry,      \* asynq's retry limit
  Null,
  MaxTime,       \* bound: the clock
  MaxNotices,    \* bound: copies of one notification
  MaxOwner,      \* bound: reconnections, disconnections and renewals of the watch
  MaxFaults,     \* bound: failing calls
  MaxCrashes     \* bound: process crashes

ASSUME GmailAssumption ==
  /\ IsFiniteSet(Messages) /\ Matching \subseteq Messages
  /\ FirstIds \subseteq Nat \ {0} /\ Page \in Nat \ {0}
  /\ Window \in Nat /\ Timeout \in Nat /\ KeyTTL \in Nat /\ KeyTTL > Window + Timeout
  /\ MaxRetry \in Nat /\ Null \notin Int
  /\ MaxTime \in Nat /\ MaxNotices \in Nat \ {0} /\ MaxOwner \in Nat
  /\ MaxFaults \in Nat /\ MaxCrashes \in Nat

VARIABLES
  now,
  received,   \* received[m]: internalDate, Null until m arrives
  hid,        \* hid[m]: m's history id, 0 until it arrives
  latestHid,  \* the mailbox's history id
  notices,    \* Pub/Sub messages not yet acknowledged
  status, lastSync,
  cursor,     \* last_history_id in the credentials
  project,    \* gcp_project_id is set
  expires,    \* expires[m]: when dedup:email:<m> expires, or Null
  task,       \* task[i]: the "email:fetch" task i and the state of its handler
  handoffs,   \* handoffs[m]: "email:process" tasks enqueued for m
  renewal,    \* the history id a renewal is about to save, or Null
  owner, faults, crashes,
  (* history *)
  base,       \* the mailbox's history id at the last connection
  bypassed,   \* messages let past a dedup check that Redis failed
  harmed,     \* messages hit by a failure the design does not recover from
  throttled,  \* messages whose metadata or body was answered 429
  crowded,    \* messages left out of a page of messages.list
  leapt       \* messages nobody had taken care of when a renewal moved the cursor past them

mailbox == <<received, hid, latestHid>>
account == <<status, lastSync, cursor, project>>
bounds  == <<owner, faults, crashes>>
excuses == <<harmed, throttled, crowded>>
renewer == <<renewal, leapt>>
vars    == <<now, mailbox, notices, account, expires, task, handoffs, bounds, base,
             bypassed, excuses, renewer>>

PCs  == {"none", "queued", "token", "history", "list", "rules", "dedup", "meta", "full",
         "enqueue", "done"}
Idle == [pc |-> "none", retried |-> 0, begun |-> 0, snap |-> Null, cur |-> 0, start |-> 0,
         todo |-> <<>>, latest |-> 0]
Queued == [Idle EXCEPT !.pc = "queued"]
Finished == [Idle EXCEPT !.pc = "done"]

At(i, p)   == task[i].pc = p
Free(i)    == At(i, "none")
Active     == {i \in Tasks : ~Free(i) /\ ~At(i, "queued")}
Msg(i)     == Head(task[i].todo)
Goto(i, p) == task' = [task EXCEPT ![i].pc = p]
Arrived    == {m \in Messages : received[m] # Null}
Fault      == faults < MaxFaults /\ faults' = faults + 1
Owner      == owner < MaxOwner /\ owner' = owner + 1

\* asynq on an error or a dead process: queued again, or archived.
AfterError_Forever(i) == [Queued EXCEPT !.retried = task[i].retried + 1]
AfterError(i) == IF task[i].retried < MaxRetry
                   THEN [Queued EXCEPT !.retried = task[i].retried + 1] ELSE Idle
Archived(i)   == task[i].retried = MaxRetry
ReturnErr(i)  == task' = [task EXCEPT ![i] = AfterError(i)]
ReturnNil(i)  == task' = [task EXCEPT ![i] = Finished]
Harm(S)       == harmed' = harmed \cup S /\ UNCHANGED <<throttled, crowded>>
HarmIfArchived(i) == Harm(IF Archived(i) THEN Arrived ELSE {})

\* Go compares history ids as strings: digit by digit from the left.
Digits[n \in Nat] == IF n < 10 THEN <<n>> ELSE Append(Digits[n \div 10], n % 10)
Greater(a, b) ==
  \/ a # 0 /\ b = 0
  \/ /\ a # 0 /\ b # 0
     /\ LET s == Digits[a]
            t == Digits[b]
        IN  \E k \in 0..Len(t) :
              /\ k < Len(s) /\ \A j \in 1..k : s[j] = t[j]
              /\ k = Len(t) \/ s[k + 1] > t[k + 1]
\* What `if id > latest { latest = id }` leaves of the ids in S: the greatest one.
Latest(S)  == {a \in S \cup {0} : \A b \in S : ~Greater(b, a)}

Init ==
  /\ now = 0
  /\ received = [m \in Messages |-> Null] /\ hid = [m \in Messages |-> 0]
  /\ base \in FirstIds /\ latestHid = base
  /\ notices = 0
  /\ status = "ACTIVE" /\ lastSync = 0 /\ cursor = base /\ project = TRUE
  /\ expires = [m \in Messages |-> Null]
  /\ task = [i \in Tasks |-> Idle]
  /\ handoffs = [m \in Messages |-> 0]
  /\ renewal = Null /\ leapt = {}
  /\ owner = 0 /\ faults = 0 /\ crashes = 0
  /\ bypassed = {} /\ harmed = {} /\ throttled = {} /\ crowded = {}

-----------------------------------------------------------------------------
(* The clock, Gmail, Pub/Sub, the owner and the processing of messages.    *)

\* asynq gives a task Timeout; then its handler's calls fail (Expire).
InTime(i) == now < task[i].begun + Timeout
Tick == /\ now < MaxTime /\ now' = now + 1
        /\ \A i \in Active : At(i, "done") \/ InTime(i)
        /\ UNCHANGED <<mailbox, notices, account, expires, task, handoffs, bounds, base,
                       bypassed, excuses, renewer>>

Arrive(m) ==
  /\ received[m] = Null
  /\ received' = [received EXCEPT ![m] = now]
  /\ latestHid' = latestHid + 1 /\ hid' = [hid EXCEPT ![m] = latestHid + 1]
  /\ \E n \in 1..MaxNotices : notices' = notices + n
  /\ UNCHANGED <<now, account, expires, task, handoffs, bounds, base, bypassed, excuses, renewer>>

\* The Google webhook asks nothing of the database; when the enqueue fails it answers
\* 500, and Pub/Sub delivers again.
AckedOnFailure_Yes == notices - 1
AckedOnFailure == notices

Webhook ==
  /\ notices > 0
  /\ \/ /\ \E i \in Tasks : Free(i) /\ task' = [task EXCEPT ![i] = Queued]
        /\ notices' = notices - 1 /\ UNCHANGED faults
     \/ Fault /\ notices' = AckedOnFailure /\ UNCHANGED task
  /\ UNCHANGED <<now, mailbox, account, expires, handoffs, owner, crashes, base, bypassed,
                 excuses, renewer>>

\* The transaction of the OAuth callback, with the history id users.watch returned.
Reconnect ==
  /\ Owner
  /\ status' = "ACTIVE" /\ lastSync' = now /\ cursor' = latestHid /\ project' = TRUE
  /\ base' = latestHid
  /\ UNCHANGED <<now, mailbox, notices, expires, task, handoffs, faults, crashes, bypassed,
                 excuses, renewer>>

\* The UPDATE of HandleEmailDisconnectTask: the credentials and the project go.
Disconnect ==
  /\ Owner
  /\ status' = "DISCONNECTED" /\ cursor' = 0 /\ project' = FALSE
  /\ UNCHANGED <<now, mailbox, notices, lastSync, expires, task, handoffs, faults, crashes,
                 base, bypassed, excuses, renewer>>

\* HandleEmailProcessTask stores a message and moves last_sync_at.
Process(m) ==
  /\ handoffs[m] > 0 /\ lastSync < received[m]
  /\ lastSync' = received[m]
  /\ UNCHANGED <<now, mailbox, notices, status, cursor, project, expires, task, handoffs,
                 bounds, base, bypassed, excuses, renewer>>

-----------------------------------------------------------------------------
(* The renewal of the watch (renewGmailWatches; Subscriptions models the    *)
(* rest of the cycle): users.watch returns the mailbox's history id, and   *)
(* the renewer saves it as the cursor.                                     *)

RenewWatch ==
  /\ Owner /\ renewal = Null /\ status = "ACTIVE" /\ project
  /\ renewal' = latestHid
  /\ UNCHANGED <<now, mailbox, notices, account, expires, task, handoffs, faults, crashes,
                 base, bypassed, excuses, leapt>>

\* The error of the UPDATE is ignored.
RenewSave ==
  /\ renewal # Null /\ renewal' = Null
  /\ \/ status' = "ACTIVE" /\ cursor' = renewal /\ UNCHANGED <<lastSync, project, faults>>
        /\ leapt' = leapt \cup {m \in Arrived : hid[m] > cursor /\ hid[m] <= renewal}
     \/ Fault /\ UNCHANGED <<account, leapt>>
  /\ UNCHANGED <<now, mailbox, notices, expires, task, handoffs, owner, crashes, base,
                 bypassed, excuses>>

-----------------------------------------------------------------------------
(* HandleGmailFetch up to the list of messages.                            *)

\* The account (only an ACTIVE one is found), its project, its credentials.
Lookup(i) ==
  /\ At(i, "queued")
  /\ \/ /\ status = "ACTIVE" /\ project
        /\ task' = [task EXCEPT ![i] = [@ EXCEPT !.pc = "token", !.begun = now,
                                                 !.snap = lastSync, !.cur = cursor]]
        /\ UNCHANGED <<faults, excuses>>
     \/ status # "ACTIVE" /\ ReturnNil(i) /\ Harm(Arrived) /\ UNCHANGED faults
     \/ status = "ACTIVE" /\ ~project /\ ReturnErr(i) /\ HarmIfArchived(i) /\ UNCHANGED faults
     \/ Fault /\ ReturnErr(i) /\ HarmIfArchived(i)
  /\ UNCHANGED <<now, mailbox, notices, account, expires, handoffs, owner, crashes, base,
                 bypassed, renewer>>

\* UpdateEmailAccountStatus("REAUTH_REQUIRED"): its own error is ignored.
Reauth == status' \in {status, "REAUTH_REQUIRED"} /\ UNCHANGED <<lastSync, cursor, project>>

\* UpdateEmailAccountCredentialsAndStatus(creds, "ACTIVE"): the credentials this
\* handler read, with its own changes, whatever the row says by now.
Save_Latest(h) == status' = "ACTIVE" /\ cursor' = latestHid /\ UNCHANGED <<lastSync, project>>
Save(h) == status' = "ACTIVE" /\ cursor' = h /\ UNCHANGED <<lastSync, project>>

Token(i) ==
  /\ At(i, "token")
  /\ \/ \* still valid, or the refreshed one could not be saved
        Goto(i, "history") /\ UNCHANGED <<account, faults, excuses>>
     \/ Goto(i, "history") /\ Save(task[i].cur) /\ UNCHANGED <<faults, excuses>>
     \/ Fault /\ Reauth /\ ReturnErr(i) /\ Harm(Arrived)
  /\ UNCHANGED <<now, mailbox, notices, expires, handoffs, owner, crashes, base, bypassed, renewer>>

\* rescheduleFetchTask: a fresh copy; a failing Enqueue is only logged.
Reschedule(i) ==
  \/ /\ \E j \in Tasks : Free(j) /\ task' = [task EXCEPT ![i] = Finished, ![j] = Queued]
     /\ UNCHANGED harmed
  \/ ReturnNil(i) /\ harmed' = harmed \cup Arrived

\* max(LastSyncAt as read, now - 10 minutes)
FilterStart_SyncOnly(i) == task[i].snap
FilterStart(i) == IF task[i].snap > now - Window THEN task[i].snap ELSE now - Window

\* The messages with a history id above h, oldest first, at most a page of them.
Since(h) == LET n == IF latestHid - h < Page THEN latestHid - h ELSE Page
            IN  [k \in 1..n |-> CHOOSE m \in Messages : hid[m] = h + k]
Ids(s)   == {hid[s[k]] : k \in DOMAIN s}

\* history.list from the cursor; an error and an answer that is not a history both
\* leave the list empty.
HistoryList(i) ==
  /\ At(i, "history")
  /\ \/ \E found \in {<<>>} \cup (IF task[i].cur # 0 THEN {Since(task[i].cur)} ELSE {}) :
          /\ IF task[i].cur # 0 /\ found # Since(task[i].cur) THEN Fault ELSE UNCHANGED faults
          /\ \E top \in Latest(Ids(found)) : task' = [task EXCEPT ![i] =
               [@ EXCEPT !.pc = IF found = <<>> THEN "list" ELSE "rules",
                         !.start = FilterStart(i), !.snap = Null, !.todo = found,
                         !.latest = top]]
          /\ UNCHANGED harmed
     \/ task[i].cur # 0 /\ Fault /\ Reschedule(i)
  /\ UNCHANGED <<now, mailbox, notices, account, expires, handoffs, owner, crashes, base,
                 bypassed, throttled, crowded, renewer>>

\* The messages dated start or later, newest first, at most a page of them.
InWindow(i) == {m \in Arrived : received[m] >= task[i].start}
Listed(i) ==
  LET n == Cardinality(InWindow(i))
      above(m) == Cardinality({o \in InWindow(i) : hid[o] >= hid[m]})
  IN  [k \in 1..(IF n < Page THEN n ELSE Page) |-> CHOOSE m \in InWindow(i) : above(m) = k]
Elements(s) == {s[k] : k \in DOMAIN s}

\* messages.list, when the history gave nothing.  A status other than 200, 401, 403
\* and 429 counts as an empty list.
MessagesList(i) ==
  /\ At(i, "list")
  /\ \/ /\ Listed(i) # <<>>
        /\ task' = [task EXCEPT ![i] = [@ EXCEPT !.pc = "rules", !.todo = Listed(i)]]
        /\ crowded' = crowded \cup (InWindow(i) \ Elements(Listed(i)))
        /\ UNCHANGED <<account, faults, harmed>>
     \/ Listed(i) = <<>> /\ ReturnNil(i) /\ UNCHANGED <<account, faults, harmed, crowded>>
     \/ /\ Fault /\ UNCHANGED crowded
        /\ \/ ReturnErr(i) /\ UNCHANGED account
              /\ harmed' = harmed \cup (IF Archived(i) THEN Arrived ELSE {})
           \/ ReturnNil(i) /\ Reauth /\ harmed' = harmed \cup Arrived
           \/ Reschedule(i) /\ UNCHANGED account
  /\ UNCHANGED <<now, mailbox, notices, expires, handoffs, owner, crashes, base, bypassed,
                 throttled, renewer>>

Rules(i) ==
  /\ At(i, "rules")
  /\ \/ Goto(i, "dedup") /\ UNCHANGED <<faults, excuses>>
     \/ Fault /\ ReturnErr(i) /\ HarmIfArchived(i)
  /\ UNCHANGED <<now, mailbox, notices, account, expires, handoffs, owner, crashes, base,
                 bypassed, renewer>>

-----------------------------------------------------------------------------
(* The loop over the messages.                                             *)

InLoop(i, p) == At(i, p) /\ task[i].todo # <<>>
\* `continue`
Skip(i) == task' = [task EXCEPT ![i].pc = "dedup", ![i].todo = Tail(@)]

\* isDuplicateMessage: SETNX with a TTL; a Redis error lets the message through.
KeyLive(m) == expires[m] # Null /\ now < expires[m]
Dedup(i) ==
  /\ InLoop(i, "dedup")
  /\ \/ /\ ~KeyLive(Msg(i))
        /\ expires' = [expires EXCEPT ![Msg(i)] = now + KeyTTL]
        /\ Goto(i, "meta") /\ UNCHANGED <<faults, bypassed>>
     \/ KeyLive(Msg(i)) /\ Skip(i) /\ UNCHANGED <<expires, faults, bypassed>>
     \/ /\ Fault /\ Goto(i, "meta") /\ bypassed' = bypassed \cup {Msg(i)}
        /\ \/ UNCHANGED expires
           \/ ~KeyLive(Msg(i)) /\ expires' = [expires EXCEPT ![Msg(i)] = now + KeyTTL]
  /\ UNCHANGED <<now, mailbox, notices, account, handoffs, owner, crashes, base, excuses, renewer>>

\* 429 in the loop: the task is rescheduled and the handler returns, cursor unsaved.
Throttled_Break(i) == /\ task' = [task EXCEPT ![i] = [@ EXCEPT !.pc = "dedup", !.todo = <<>>]]
                      /\ UNCHANGED harmed
Throttled(i) == Reschedule(i)

\* A failing call in the loop: 429; 401 and 403; any other answer skips the message.
LoopFault(i) ==
  /\ Fault /\ UNCHANGED crowded
  /\ \/ Throttled(i) /\ throttled' = throttled \cup {Msg(i)} /\ UNCHANGED account
     \/ ReturnNil(i) /\ Reauth /\ harmed' = harmed \cup Arrived /\ UNCHANGED throttled
     \/ Skip(i) /\ harmed' = harmed \cup {Msg(i)} /\ UNCHANGED <<account, throttled>>

Metadata(i) ==
  /\ InLoop(i, "meta")
  /\ \/ received[Msg(i)] < task[i].start /\ Skip(i) /\ UNCHANGED <<account, faults, excuses>>
     \/ /\ received[Msg(i)] >= task[i].start
        /\ \E top \in Latest({task[i].latest, hid[Msg(i)]}) :
             IF Msg(i) \in Matching
               THEN task' = [task EXCEPT ![i].latest = top, ![i].pc = "full"]
               ELSE task' = [task EXCEPT ![i].latest = top, ![i].pc = "dedup", ![i].todo = Tail(@)]
        /\ UNCHANGED <<account, faults, excuses>>
     \/ LoopFault(i)
  /\ UNCHANGED <<now, mailbox, notices, expires, handoffs, owner, crashes, base, bypassed, renewer>>

FullBody(i) ==
  /\ InLoop(i, "full")
  /\ \/ Goto(i, "enqueue") /\ UNCHANGED <<account, faults, excuses>>
     \/ LoopFault(i)
  /\ UNCHANGED <<now, mailbox, notices, expires, handoffs, owner, crashes, base, bypassed, renewer>>

\* Enqueue of the "email:process" task; an error is only logged.
Enqueue(i) ==
  /\ InLoop(i, "enqueue") /\ Skip(i)
  /\ \/ handoffs' = [handoffs EXCEPT ![Msg(i)] = @ + 1] /\ UNCHANGED <<faults, excuses>>
     \/ Fault /\ Harm({Msg(i)})
        /\ \/ UNCHANGED handoffs
           \/ handoffs' = [handoffs EXCEPT ![Msg(i)] = @ + 1]
  /\ UNCHANGED <<now, mailbox, notices, account, expires, owner, crashes, base, bypassed, renewer>>

\* After the loop: the cursor, unless it is "" or what the handler read.
SaveCursor(i) ==
  /\ At(i, "dedup") /\ task[i].todo = <<>>
  /\ ReturnNil(i)
  /\ \/ /\ task[i].latest \notin {0, task[i].cur}
        /\ Save(task[i].latest) /\ UNCHANGED faults
     \/ task[i].latest \in {0, task[i].cur} /\ UNCHANGED <<account, faults>>
     \/ Fault /\ UNCHANGED account
  /\ UNCHANGED <<now, mailbox, notices, expires, handoffs, owner, crashes, base, bypassed,
                 excuses, renewer>>

-----------------------------------------------------------------------------
(* asynq.                                                                  *)

Ack(i) ==
  /\ At(i, "done") /\ task' = [task EXCEPT ![i] = Idle]
  /\ UNCHANGED <<now, mailbox, notices, account, expires, handoffs, bounds, base, bypassed,
                 excuses, renewer>>

\* The message a handler holds: its key is set and it is not handed off yet.
Holding(i, m) == task[i].pc \in {"meta", "full", "enqueue"} /\ task[i].todo # <<>> /\ Msg(i) = m

Expire(i) ==
  /\ i \in Active /\ ~At(i, "done") /\ ~InTime(i)
  /\ ReturnErr(i)
  /\ Harm(IF Archived(i) THEN Arrived ELSE {m \in Messages : Holding(i, m)})
  /\ UNCHANGED <<now, mailbox, notices, account, expires, handoffs, bounds, base, bypassed, renewer>>

Crash ==
  /\ crashes < MaxCrashes /\ crashes' = crashes + 1
  /\ Active # {}
  /\ task' = [i \in Tasks |-> IF i \in Active THEN AfterError(i) ELSE task[i]]
  /\ Harm(IF \E i \in Active : Archived(i) THEN Arrived
          ELSE {m \in Messages : \E i \in Active : Holding(i, m)})
  /\ UNCHANGED <<now, mailbox, notices, account, expires, handoffs, owner, faults, base,
                 bypassed, renewer>>

-----------------------------------------------------------------------------
Fetch(i)  == Lookup(i) \/ Token(i) \/ HistoryList(i) \/ MessagesList(i) \/ Rules(i)
Loop(i)   == Dedup(i) \/ Metadata(i) \/ FullBody(i) \/ Enqueue(i) \/ SaveCursor(i)
Worker(i) == Fetch(i) \/ Loop(i) \/ Ack(i)
Environment == \/ Tick \/ Reconnect \/ Disconnect \/ RenewWatch \/ RenewSave \/ Crash
               \/ \E m \in Messages : Arrive(m) \/ Process(m)

Next == Environment \/ Webhook \/ \E i \in Tasks : Worker(i) \/ Expire(i)
Spec == Init /\ [][Next]_vars

\* Asynq keeps running queued tasks, and Pub/Sub keeps delivering.
Fairness == WF_vars(Webhook) /\ \A i \in Tasks : WF_vars(Worker(i))
FairSpec == Spec /\ Fairness

-----------------------------------------------------------------------------
(* Properties.                                                             *)

\* Every variable has its type.
TypeOK ==
  /\ now \in 0..MaxTime
  /\ received \in [Messages -> (0..MaxTime) \cup {Null}] /\ hid \in [Messages -> Nat]
  /\ latestHid \in Nat /\ notices \in Nat
  /\ status \in {"ACTIVE", "REAUTH_REQUIRED", "DISCONNECTED"} /\ lastSync \in 0..MaxTime
  /\ cursor \in 0..latestHid /\ project \in BOOLEAN
  /\ expires \in [Messages -> Nat \cup {Null}]
  /\ task \in [Tasks -> [pc : PCs, retried : 0..MaxRetry, begun : Nat, snap : Nat \cup {Null}, cur : Nat,
                         start : Int, todo : Seq(Messages), latest : 0..latestHid]]
  /\ handoffs \in [Messages -> Nat]
  /\ renewal \in Nat \cup {Null}
  /\ owner \in 0..MaxOwner /\ faults \in 0..MaxFaults /\ crashes \in 0..MaxCrashes
  /\ base \in Nat
  /\ \A S \in {bypassed, harmed, throttled, crowded, leapt} : S \subseteq Messages

\* GmailFetch implements Handoff: a message is handed off at most once, unless Redis
\* failed a dedup check of it; overlapping scans from stale cursors, and the fallback from
\* history.list to messages.list, are invisible outside (handler.go 557-596, 675).
H == INSTANCE Handoff WITH arrived <- Arrived, handed <- handoffs, exempt <- bypassed
ImplementsHandoff == H!Spec

Old(m)     == m \in Arrived /\ (received[m] < now - Window \/ received[m] < lastSync)
Excused(m) == \/ m \in harmed \/ m \in throttled \/ m \in crowded \/ m \in leapt
              \/ m \notin Matching \/ Old(m)

\* The cursor never passes a message that has been neither handed off nor is held by a
\* handler - although it is overwritten with what a handler read long before, is taken
\* from string comparisons, and is saved by handlers that skipped the message because
\* another one holds it (handler.go 557-596, 675-677, 811-816) - unless a renewal of the
\* watch moved it past the message (renewer.go 157), or a failure the handlers do not
\* recover from hit it.
CursorSkipsNothing ==
  \A m \in Arrived :
    base < hid[m] /\ hid[m] <= cursor
      => handoffs[m] > 0 \/ Excused(m) \/ \E i \in Tasks : Holding(i, m)

\* A message that arrives is handed off, unless the rules or the window discard it, a
\* page left it out, the mailbox was not connected or a failure hit it after its dedup
\* key was set.  A 429 costs the message it hits (see RescheduledIsFetched of
\* MessagePipeline), not the ones behind it in the loop.
Delivered == \A m \in Messages : m \in Arrived ~> handoffs[m] > 0 \/ Excused(m)
=============================================================================
