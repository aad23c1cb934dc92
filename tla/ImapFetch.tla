----------------------------- MODULE ImapFetch ------------------------------
(***************************************************************************)
(* HandleIMAPFetch (internal/queue/handler.go) on ONE mailbox: the range   *)
(* of sequence numbers it fetches, computed in uint32, and the loop over   *)
(* the envelopes, which come with the date the SENDER wrote.  Tasks come   *)
(* from the IDLE pool (enqueueFetchTask, imap/pool.go).                    *)
(*                                                                         *)
(* The calls to PostgreSQL, Redis and the IMAP server are actions; SELECT  *)
(* and FETCH are one, since sequence numbers do not change between them.   *)
(* The server is external: it returns the messages of the range that exist *)
(* (RFC 3501), or refuses the range.  Nothing is expunged.                 *)
(***************************************************************************)
EXTENDS Integers, FiniteSets, Sequences

CONSTANTS
  Messages, Tasks,
  Matching,    \* messages whose subject equals a rule of the tenant
  OldMail,     \* messages in INBOX before those of Messages, never fetched again
  Word,        \* 2^32: sequence numbers are uint32
  LastMany,    \* 10: the handler fetches the last ten messages
  Skews,       \* what a sender's clock adds to the date of a message
  Window, KeyTTL,
  Timeout,     \* asynq's default for a task that sets none: 30 minutes
  MaxRetry, Null,
  MaxTime,     \* bound: the clock
  MaxUpdates,  \* bound: mailbox updates that are not about a new message
  MaxFaults    \* bound: failing calls

ASSUME ImapFetchAssumption ==
  /\ Matching \subseteq Messages /\ IsFiniteSet(Messages)
  /\ OldMail \in Nat /\ LastMany \in Nat \ {0}
  /\ Word \in Nat /\ Word > OldMail + Cardinality(Messages) + LastMany
  /\ Skews \subseteq Int /\ Window \in Nat /\ Timeout \in Nat
  /\ KeyTTL \in Nat /\ KeyTTL > Window + Timeout
  /\ MaxRetry \in Nat /\ Null \notin Int /\ MaxTime \in Nat
  /\ MaxUpdates \in Nat /\ MaxFaults \in Nat

VARIABLES
  now,
  seqnum,     \* seqnum[m]: m's sequence number in INBOX, 0 until it arrives
  date,       \* date[m]: the Date header of m
  lastSync,   \* last_sync_at, NULL until a message has been processed
  expires,    \* expires[m]: when dedup:email:<m> expires, or Null
  task,       \* task[i]: the "email:fetch" task i and its handler
  handoffs,   \* handoffs[m]: "email:process" tasks enqueued for m
  updates, faults,
  (* history *)
  bypassed, harmed,
  ahead,      \* messages dated so far ahead that they outlive their dedup key
  crowded     \* messages newer fetches did not ask for: LastMany others came after

inbox  == <<seqnum, date>>
bounds == <<updates, faults>>
history == <<bypassed, harmed, ahead, crowded>>
vars   == <<now, inbox, lastSync, expires, task, handoffs, bounds, history>>

PCs      == {"none", "queued", "select", "rules", "dedup", "body", "enqueue", "done"}
Idle     == [pc |-> "none", retried |-> 0, begun |-> 0, snap |-> Null, start |-> 0, todo |-> <<>>]
Queued   == [Idle EXCEPT !.pc = "queued"]
Finished == [Idle EXCEPT !.pc = "done"]

At(i, p)   == task[i].pc = p
Free(i)    == At(i, "none")
Running(i) == task[i].pc \notin {"none", "queued", "done"}
Msg(i)     == Head(task[i].todo)
Goto(i, p) == task' = [task EXCEPT ![i].pc = p]
Arrived    == {m \in Messages : seqnum[m] # 0}
Count      == OldMail + Cardinality(Arrived)   \* mbox.Messages
Fault      == faults < MaxFaults /\ faults' = faults + 1

AfterError_Forever(i) == [Queued EXCEPT !.retried = task[i].retried + 1]
AfterError(i) == IF task[i].retried < MaxRetry
                   THEN [Queued EXCEPT !.retried = task[i].retried + 1] ELSE Idle
ReturnErr(i)  == task' = [task EXCEPT ![i] = AfterError(i)]
ReturnNil(i)  == task' = [task EXCEPT ![i] = Finished]
Harm(S)       == harmed' = harmed \cup S
HarmIfArchived(i) == Harm(IF task[i].retried = MaxRetry THEN Arrived ELSE {})

Init ==
  /\ now = 0
  /\ seqnum = [m \in Messages |-> 0] /\ date = [m \in Messages |-> Null]
  /\ lastSync = Null
  /\ expires = [m \in Messages |-> Null]
  /\ task = [i \in Tasks |-> Idle]
  /\ handoffs = [m \in Messages |-> 0]
  /\ updates = 0 /\ faults = 0 /\ bypassed = {} /\ harmed = {} /\ ahead = {} /\ crowded = {}

-----------------------------------------------------------------------------
(* The clock, arriving messages, and the processing of what is handed off. *)

\* asynq gives a task Timeout; then its handler's calls fail (Expire).
InTime(i) == now < task[i].begun + Timeout
Tick == /\ now < MaxTime /\ now' = now + 1
        /\ \A i \in Tasks : Running(i) => InTime(i)
        /\ UNCHANGED <<inbox, lastSync, expires, task, handoffs, bounds, history>>

\* A message arrives; the pool hears of it and enqueues a fetch task, unless it is not
\* connected or the enqueue fails, which is only logged.
Arrive(m) ==
  /\ m \notin Arrived
  /\ seqnum' = [seqnum EXCEPT ![m] = Count + 1]
  /\ \E skew \in Skews :
       /\ date' = [date EXCEPT ![m] = now + skew]
       /\ ahead' = IF skew >= KeyTTL - Window - Timeout THEN ahead \cup {m} ELSE ahead
  /\ \/ /\ \E i \in Tasks : Free(i) /\ task' = [task EXCEPT ![i] = Queued]
        /\ UNCHANGED <<faults, harmed>>
     \/ Fault /\ Harm({m}) /\ UNCHANGED task
  /\ UNCHANGED <<now, lastSync, expires, handoffs, updates, bypassed, crowded>>

\* The pool enqueues a fetch on every update of the mailbox, new message or not.
Update ==
  /\ updates < MaxUpdates /\ updates' = updates + 1
  /\ \E i \in Tasks : Free(i) /\ task' = [task EXCEPT ![i] = Queued]
  /\ UNCHANGED <<now, inbox, lastSync, expires, handoffs, faults, history>>

\* HandleEmailProcessTask stores a message and moves last_sync_at to its date.
Process(m) ==
  /\ handoffs[m] > 0 /\ (lastSync # Null => lastSync < date[m])
  /\ lastSync' = date[m]
  /\ UNCHANGED <<now, inbox, expires, task, handoffs, bounds, history>>

-----------------------------------------------------------------------------
(* HandleIMAPFetch up to the envelopes.                                    *)

\* The account is ACTIVE throughout (its status is MessagePipeline's subject).
Lookup(i) ==
  /\ At(i, "queued")
  /\ \/ /\ task' = [task EXCEPT ![i] = [@ EXCEPT !.pc = "select", !.begun = now, !.snap = lastSync]]
        /\ UNCHANGED <<faults, harmed>>
     \/ Fault /\ ReturnErr(i) /\ HarmIfArchived(i)
  /\ UNCHANGED <<now, inbox, lastSync, expires, handoffs, updates, bypassed, ahead, crowded>>

\* start := mbox.Messages - 9; if start < 1 { start = 1 }, in uint32
RangeStart_Late(n) == IF n < LastMany THEN 1 ELSE n
RangeStart(n) == LET start == (n - (LastMany - 1)) % Word
                 IN  IF start < 1 THEN 1 ELSE start

\* seqset.AddRange(start, mbox.Messages): a range whose ends are the wrong way round
\* is turned (go-imap), so it then asks for the last message and for many that the
\* mailbox does not have.
Asked(n) == IF RangeStart(n) <= n THEN RangeStart(n)..n ELSE n..RangeStart(n)

\* The messages of the range, in the order of the mailbox.
Fetched == {m \in Arrived : seqnum[m] \in Asked(Count)}
InOrder(S) == [k \in 1..Cardinality(S) |->
                CHOOSE m \in S : Cardinality({o \in S : seqnum[o] <= seqnum[m]}) = k]

\* Dial, Login, Select, Fetch.
EnvelopesFailed_Logged(i) == ReturnNil(i)
EnvelopesFailed(i) == ReturnErr(i)

Envelopes(i) ==
  /\ At(i, "select")
  /\ \/ /\ Count = 0 /\ ReturnNil(i) /\ UNCHANGED <<faults, harmed, crowded>>
     \/ /\ Count > 0
        /\ task' = [task EXCEPT ![i] = [@ EXCEPT !.pc = "rules", !.todo = InOrder(Fetched)]]
        /\ crowded' = crowded \cup {m \in Arrived : seqnum[m] + LastMany <= Count}
        /\ UNCHANGED <<faults, harmed>>
     \/ \* a failing connection, or a server that refuses the range
        /\ Fault \/ (Asked(Count) \ (1..Count) # {} /\ UNCHANGED faults)
        /\ EnvelopesFailed(i) /\ HarmIfArchived(i) /\ UNCHANGED crowded
  /\ UNCHANGED <<now, inbox, lastSync, expires, handoffs, updates, bypassed, ahead>>

\* GetRules, then filterStart = max(LastSyncAt as read, now - 10 minutes).
FilterStart_SyncOnly(i) == IF task[i].snap # Null THEN task[i].snap ELSE 0
FilterStart(i) == IF task[i].snap # Null /\ task[i].snap > now - Window THEN task[i].snap
                                                                     ELSE now - Window
Rules(i) ==
  /\ At(i, "rules")
  /\ \/ /\ task' = [task EXCEPT ![i] = [@ EXCEPT !.pc = "dedup", !.start = FilterStart(i),
                                                 !.snap = Null]]
        /\ UNCHANGED <<faults, harmed>>
     \/ Fault /\ ReturnErr(i) /\ HarmIfArchived(i)
  /\ UNCHANGED <<now, inbox, lastSync, expires, handoffs, updates, bypassed, ahead, crowded>>

-----------------------------------------------------------------------------
(* The loop over the envelopes.                                            *)

\* `continue`
Skip(i) == task' = [task EXCEPT ![i].pc = "dedup", ![i].todo = Tail(@)]

\* After the dedup check the window and the rules decide, without a call.
Passes(i) == date[Msg(i)] >= task[i].start /\ Msg(i) \in Matching
Filter(i) == IF Passes(i) THEN Goto(i, "body") ELSE Skip(i)

KeyLive(m) == expires[m] # Null /\ now < expires[m]
Dedup(i) ==
  /\ At(i, "dedup") /\ task[i].todo # <<>>
  /\ \/ /\ ~KeyLive(Msg(i))
        /\ expires' = [expires EXCEPT ![Msg(i)] = now + KeyTTL]
        /\ Filter(i) /\ UNCHANGED <<faults, bypassed>>
     \/ KeyLive(Msg(i)) /\ Skip(i) /\ UNCHANGED <<expires, faults, bypassed>>
     \/ /\ Fault /\ Filter(i) /\ bypassed' = bypassed \cup {Msg(i)}
        /\ \/ UNCHANGED expires
           \/ ~KeyLive(Msg(i)) /\ expires' = [expires EXCEPT ![Msg(i)] = now + KeyTTL]
  /\ UNCHANGED <<now, inbox, lastSync, handoffs, updates, harmed, ahead, crowded>>

\* The body part; any failure skips the message.
Body(i) ==
  /\ At(i, "body")
  /\ \/ Goto(i, "enqueue") /\ UNCHANGED <<faults, harmed>>
     \/ Fault /\ Skip(i) /\ Harm({Msg(i)})
  /\ UNCHANGED <<now, inbox, lastSync, expires, handoffs, updates, bypassed, ahead, crowded>>

\* Enqueue of the "email:process" task; an error is only logged.
Enqueue(i) ==
  /\ At(i, "enqueue") /\ Skip(i)
  /\ \/ handoffs' = [handoffs EXCEPT ![Msg(i)] = @ + 1] /\ UNCHANGED <<faults, harmed>>
     \/ Fault /\ Harm({Msg(i)}) /\ handoffs' \in {handoffs, [handoffs EXCEPT ![Msg(i)] = @ + 1]}
  /\ UNCHANGED <<now, inbox, lastSync, expires, updates, bypassed, ahead, crowded>>

Finish(i) ==
  /\ At(i, "dedup") /\ task[i].todo = <<>> /\ ReturnNil(i)
  /\ UNCHANGED <<now, inbox, lastSync, expires, handoffs, bounds, history>>

-----------------------------------------------------------------------------
(* asynq: acknowledge; the deadline of a task passes; the process dies.     *)

Ack(i) ==
  /\ At(i, "done") /\ task' = [task EXCEPT ![i] = Idle]
  /\ UNCHANGED <<now, inbox, lastSync, expires, handoffs, bounds, history>>

Holding(i, m) == task[i].pc \in {"body", "enqueue"} /\ Msg(i) = m
Abort(S) ==
  /\ task' = [i \in Tasks |-> IF i \in S THEN AfterError(i) ELSE task[i]]
  /\ Harm(IF \E i \in S : task[i].retried = MaxRetry THEN Arrived
          ELSE {m \in Messages : \E i \in S : Holding(i, m)})
  /\ UNCHANGED <<now, inbox, lastSync, expires, handoffs, updates, bypassed, ahead, crowded>>
Expire(i) == Running(i) /\ ~InTime(i) /\ Abort({i}) /\ UNCHANGED faults
Crash     == Fault /\ Abort({i \in Tasks : Running(i) \/ At(i, "done")})

Worker(i) == \/ Lookup(i) \/ Envelopes(i) \/ Rules(i) \/ Dedup(i) \/ Body(i) \/ Enqueue(i)
             \/ Finish(i) \/ Ack(i)
Next == \/ Tick \/ Crash \/ Update
        \/ \E m \in Messages : Arrive(m) \/ Process(m)
        \/ \E i \in Tasks : Worker(i) \/ Expire(i)
Spec == Init /\ [][Next]_vars

\* Asynq keeps running queued tasks.
FairSpec == Spec /\ \A i \in Tasks : WF_vars(Worker(i))

-----------------------------------------------------------------------------
(* Properties.                                                             *)

\* Every variable has its type.
TypeOK ==
  /\ now \in 0..MaxTime
  /\ seqnum \in [Messages -> Nat] /\ date \in [Messages -> Int \cup {Null}]
  /\ lastSync \in Int \cup {Null} /\ expires \in [Messages -> Nat \cup {Null}]
  /\ task \in [Tasks -> [pc : PCs, retried : 0..MaxRetry, begun : Nat, snap : Int \cup {Null},
                         start : Int, todo : Seq(Messages)]]
  /\ handoffs \in [Messages -> Nat]
  /\ updates \in 0..MaxUpdates /\ faults \in 0..MaxFaults
  /\ \A S \in {bypassed, harmed, ahead, crowded} : S \subseteq Messages

\* ImapFetch implements Handoff: every fetch reads the same last messages again, those it
\* handed off before included, and still hands a message off at most once - unless Redis
\* failed its dedup check, or its sender dated it so far ahead that the window is still
\* open when the key expires (handler.go 867-924).
H == INSTANCE Handoff WITH arrived <- Arrived, handed <- handoffs, exempt <- bypassed \cup ahead
ImplementsHandoff == H!Spec

\* A failing call costs at most the messages that are held or whose task is archived:
\* a message no failure hit, that is in the last LastMany and is dated within the
\* window when it comes, is handed off - provided the range is what it is meant to be,
\* which takes LastMany - 1 messages in the mailbox (see LastTenFetched).
Old(m)     == date[m] # Null /\ (date[m] < now - Window \/ (lastSync # Null /\ date[m] < lastSync))
Excused(m) == m \in harmed \/ m \in crowded \/ m \notin Matching \/ Old(m)
Delivered  == \A m \in Messages : m \in Arrived ~> handoffs[m] > 0 \/ Excused(m)

\* What the comment says ("Fetch sequence set for the last 10 messages", handler.go
\* 867): of the messages in the mailbox the range names the last LastMany.
LastTenFetched ==
  \A i \in Tasks : At(i, "select") =>
    Asked(Count) \cap (1..Count) = {k \in 1..Count : k + LastMany > Count}
=============================================================================
