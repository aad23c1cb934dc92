------------------------------ MODULE ImapPool ------------------------------
(***************************************************************************)
(* The IMAP IDLE pool (internal/provider/imap/pool.go): a goroutine that   *)
(* reconciles the ACTIVE accounts of the database with the supervisors it  *)
(* runs, one supervisor goroutine per account with a backoff and a circuit *)
(* breaker, and a listener that stops the supervisor of an account the     *)
(* monolith announces as disconnected.                                     *)
(*                                                                         *)
(* A connected supervisor alternates between IDLE, during which a          *)
(* goroutine takes the server's updates from updatesChan and enqueues      *)
(* fetch tasks, and NOOP, during which nobody does.  The IMAP client is    *)
(* external: its reader sends every update to the channel and waits while  *)
(* the channel is full.                                                    *)
(*                                                                         *)
(* The clock is kept as ages and remaining waits, so it needs no bound.    *)
(* The broadcast of a suspension, whose result nobody reads, is left out.  *)
(***************************************************************************)
EXTENDS Integers, Sequences, Functions

CONSTANTS
  Accounts,
  Supervisors,   \* identities of supervisor goroutines
  Malformed,     \* accounts whose stored credentials do not parse
  Backoff0,      \* 10 seconds, in ticks
  BackoffMax,    \* 2 minutes
  FailWindow,    \* 10 minutes
  FailLimit,     \* 5
  Capacity,      \* 10: updates that updatesChan holds
  None,
  MaxChanges,    \* bound: activations and disconnections
  MaxFaults      \* bound: failing database calls and lost signals

ASSUME PoolAssumption ==
  /\ Malformed \subseteq Accounts
  /\ Backoff0 \in Nat \ {0} /\ BackoffMax \in Nat /\ BackoffMax >= Backoff0
  /\ FailWindow \in Nat /\ FailLimit \in Nat \ {0, 1} /\ Capacity \in Nat \ {0}
  /\ None \notin Supervisors /\ None \notin Nat
  /\ MaxChanges \in Nat /\ MaxFaults \in Nat

VARIABLES
  status,       \* status[a]: the account's row
  leaving,      \* accounts whose "email:disconnect" task is queued
  signals,      \* signals[a]: messages about a on email_connections:disconnect
  cancelFuncs,  \* cancelFuncs[a]: the supervisor the map holds for a, or None
  sup,          \* sup[s]: the goroutine s
  snapshot,     \* what syncActiveAccounts has read and not yet applied, or None
  changes, faults,
  (* history *)
  recent,       \* recent[s]: ages of the last FailLimit - 1 failures of s, oldest first
  premature,    \* accounts removed while still ACTIVE or in the snapshot
  lost          \* accounts a signal of which was lost

rows == <<status, leaving, signals>>
pool == <<cancelFuncs, sup, snapshot>>
vars == <<rows, pool, changes, faults, recent, premature, lost>>

Ages  == 0..(FailWindow + 1)
Ended == [acc |-> None, pc |-> "ended", cancelled |-> FALSE, fails |-> 0,
          since |-> None, backoff |-> Backoff0, wait |-> 0, buffer |-> 0, unheard |-> FALSE]
\* unheard is history: an update has come after the last fetch that was enqueued.
Supervisor == [acc : Accounts \cup {None},
               pc : {"ended", "check", "dial", "idle", "noop", "stuck", "backoff"},
               cancelled : BOOLEAN, fails : 0..FailLimit, since : Ages \cup {None},
               backoff : Backoff0..BackoffMax, wait : 0..BackoffMax,
               buffer : 0..Capacity, unheard : BOOLEAN]

Running(s) == sup[s].pc # "ended"
At(s, p)   == sup[s].pc = p
Exit(s)    == sup' = [sup EXCEPT ![s] = Ended] /\ recent' = [recent EXCEPT ![s] = <<>>]
Goto(s, p) == sup' = [sup EXCEPT ![s].pc = p] /\ UNCHANGED recent
\* The identity of a goroutine that has ended is used again once no entry names it.
Unused(s) == ~Running(s) /\ \A a \in Accounts : cancelFuncs[a] # s

Init ==
  /\ status \in [Accounts -> {"ACTIVE", "DISCONNECTED"}]
  /\ leaving = {} /\ signals = [a \in Accounts |-> 0]
  /\ cancelFuncs = [a \in Accounts |-> None]
  /\ sup = [s \in Supervisors |-> Ended]
  /\ snapshot = None
  /\ changes = 0 /\ faults = 0
  /\ recent = [s \in Supervisors |-> <<>>]
  /\ premature = {} /\ lost = {}

Fault  == faults < MaxFaults /\ faults' = faults + 1
Change == changes < MaxChanges /\ changes' = changes + 1

-----------------------------------------------------------------------------
(* The monolith and HandleEmailDisconnectTask.                             *)

Activate(a) ==
  /\ status[a] # "ACTIVE" /\ a \notin leaving /\ Change
  /\ status' = [status EXCEPT ![a] = "ACTIVE"]
  /\ UNCHANGED <<leaving, signals, pool, faults, recent, premature, lost>>

\* The owner disconnects the account: a task for the row, a signal for the pool.
Leave(a) ==
  /\ status[a] # "DISCONNECTED" /\ a \notin leaving /\ Change
  /\ leaving' = leaving \cup {a}
  /\ signals' = [signals EXCEPT ![a] = @ + 1]
  /\ UNCHANGED <<status, pool, faults, recent, premature, lost>>

DisconnectTask(a) ==
  /\ a \in leaving
  /\ leaving' = leaving \ {a}
  /\ status' = [status EXCEPT ![a] = "DISCONNECTED"]
  /\ UNCHANGED <<signals, pool, changes, faults, recent, premature, lost>>

-----------------------------------------------------------------------------
(* syncActiveAccounts: the query, then the loop under p.mu.                *)

SyncRead ==
  /\ snapshot = None
  /\ \/ snapshot' = {a \in Accounts : status[a] = "ACTIVE"} /\ UNCHANGED faults
     \/ Fault /\ UNCHANGED snapshot
  /\ UNCHANGED <<rows, cancelFuncs, sup, changes, recent, premature, lost>>

Started(a) == [Ended EXCEPT !.acc = a, !.pc = IF a \in Malformed THEN "ended" ELSE "check"]

Missing_Any == snapshot
Missing_Inverted == {a \in snapshot : cancelFuncs[a] # None}
Missing == {a \in snapshot : cancelFuncs[a] = None}

SyncApply ==
  /\ snapshot # None
  /\ \E f \in Injection(Missing, {s \in Supervisors : Unused(s)}) :
       /\ cancelFuncs' = [a \in Accounts |-> IF a \in Missing THEN f[a] ELSE cancelFuncs[a]]
       /\ sup' = [s \in Supervisors |->
                    IF \E a \in Missing : f[a] = s
                      THEN Started(CHOOSE a \in Missing : f[a] = s)
                      ELSE sup[s]]
       /\ recent' = [s \in Supervisors |-> IF \E a \in Missing : f[a] = s THEN <<>> ELSE recent[s]]
  /\ snapshot' = None
  /\ UNCHANGED <<rows, changes, faults, premature, lost>>

-----------------------------------------------------------------------------
(* listenDisconnect and RemoveAccount; Stop.                               *)

Cancelled_Forgotten(S) == sup
Cancelled(S) == [s \in Supervisors |-> IF s \in S /\ Running(s)
                                         THEN [sup[s] EXCEPT !.cancelled = TRUE] ELSE sup[s]]

RemoveAccount(a) ==
  /\ signals[a] > 0
  /\ signals' = [signals EXCEPT ![a] = @ - 1]
  /\ sup' = Cancelled({cancelFuncs[a]})
  /\ cancelFuncs' = [cancelFuncs EXCEPT ![a] = None]
  /\ IF status[a] = "ACTIVE" \/ (snapshot # None /\ a \in snapshot)
       THEN premature' = premature \cup {a} /\ UNCHANGED lost
       ELSE premature' = premature \ {a} /\ lost' = lost \ {a}
  /\ UNCHANGED <<status, leaving, snapshot, changes, faults, recent>>

\* The signal is published while the subscription is reconnecting.
LoseSignal(a) ==
  /\ signals[a] > 0 /\ Fault
  /\ signals' = [signals EXCEPT ![a] = @ - 1]
  /\ lost' = lost \cup {a}
  /\ UNCHANGED <<status, leaving, pool, changes, recent, premature>>

\* Stop, deferred by main; the other goroutines run on until the process ends.
Stop ==
  /\ Change
  /\ sup' = Cancelled(Range(cancelFuncs))
  /\ cancelFuncs' = [a \in Accounts |-> None]
  /\ UNCHANGED <<rows, snapshot, faults, recent, premature, lost>>

-----------------------------------------------------------------------------
(* startSupervisor and connectAndIdle.                                     *)

\* The select at the head of the loop.
Check_Ignored(s) == Goto(s, "dial")
Check(s) == IF sup[s].cancelled THEN Exit(s) ELSE Goto(s, "dial")

LoopHead(s) ==
  /\ At(s, "check") /\ Check(s)
  /\ UNCHANGED <<rows, cancelFuncs, snapshot, changes, faults, premature, lost>>

\* Dial, Login, Select succeed.
Connect(s) ==
  /\ At(s, "dial")
  /\ Goto(s, "idle")
  /\ UNCHANGED <<rows, cancelFuncs, snapshot, changes, faults, premature, lost>>

\* The server reports a change of the mailbox, while IDLE or before it answers NOOP.
Update(s) ==
  /\ At(s, "idle") \/ At(s, "noop")
  /\ sup[s].buffer < Capacity
  /\ sup' = [sup EXCEPT ![s].buffer = @ + 1, ![s].unheard = TRUE]
  /\ UNCHANGED <<rows, cancelFuncs, snapshot, changes, faults, recent, premature, lost>>

\* During NOOP nobody empties the channel.  Once it is full the client's reader waits
\* for it, and the NOOP (or the Logout after it) for the reader.
Block(s) ==
  /\ At(s, "noop") /\ sup[s].buffer = Capacity
  /\ Goto(s, "stuck")
  /\ UNCHANGED <<rows, cancelFuncs, snapshot, changes, faults, premature, lost>>

\* enqueueFetchTask by the updates processor; a failing Enqueue is logged, and that
\* update given up.
Hear(s) ==
  /\ At(s, "idle") /\ sup[s].buffer > 0
  /\ sup' = [sup EXCEPT ![s].buffer = @ - 1, ![s].unheard = FALSE]
  /\ UNCHANGED faults \/ Fault
  /\ UNCHANGED <<rows, cancelFuncs, snapshot, changes, recent, premature, lost>>

\* IDLE ends after 20 minutes or when the context is cancelled, and with it the
\* updates processor; NOOP is sent.
Heartbeat(s) ==
  /\ At(s, "idle") /\ Goto(s, "noop")
  /\ UNCHANGED <<rows, cancelFuncs, snapshot, changes, faults, premature, lost>>

\* NOOP is answered: IDLE again, on the channel made when the connection was.
LeftOver_Remade(s) == 0
LeftOver(s) == sup[s].buffer
NoopDone(s) ==
  /\ At(s, "noop") /\ ~sup[s].cancelled
  /\ sup' = [sup EXCEPT ![s].pc = "idle", ![s].buffer = LeftOver(s)]
  /\ UNCHANGED <<rows, cancelFuncs, snapshot, changes, faults, recent, premature, lost>>

\* connectAndIdle returns nil, which it does only when its context is cancelled.
ReturnNil(s) ==
  /\ At(s, "noop") /\ sup[s].cancelled
  /\ sup' = [sup EXCEPT ![s].pc = "check", ![s].backoff = Backoff0, ![s].fails = 0,
                        ![s].since = None, ![s].buffer = 0, ![s].unheard = FALSE]
  /\ recent' = [recent EXCEPT ![s] = <<>>]
  /\ UNCHANGED <<rows, cancelFuncs, snapshot, changes, faults, premature, lost>>

\* The circuit breaker counts failures in a window that starts with the first of them.
WindowOver_Never(s) == sup[s].since = None
WindowOver(s) == sup[s].since = None \/ sup[s].since > FailWindow
FailCount(s) == IF WindowOver(s) THEN 1 ELSE sup[s].fails + 1

\* UpdateEmailAccountStatus(ctx, ...): nothing is written once ctx is cancelled.
WriteAllowed_Background(s) == TRUE
WriteAllowed(s) == ~sup[s].cancelled

Remember(s) == recent' = [recent EXCEPT ![s] =
                 Append(IF Len(@) < FailLimit - 1 THEN @ ELSE Tail(@), 0)]

\* connectAndIdle returns an error: dial, login, IDLE or NOOP failed.
Fail(s) ==
  /\ At(s, "dial") \/ At(s, "idle") \/ At(s, "noop")
  /\ \/ /\ FailCount(s) < FailLimit /\ Remember(s)
        /\ sup' = [sup EXCEPT ![s].pc = "backoff", ![s].fails = FailCount(s),
                              ![s].since = IF WindowOver(s) THEN 0 ELSE @,
                              ![s].wait = sup[s].backoff, ![s].buffer = 0,
                              ![s].unheard = FALSE]
        /\ UNCHANGED <<status, faults>>
     \/ \* suspended: the row is written, unless that fails, and the goroutine ends;
        \* its entry stays in cancelFuncs
        /\ FailCount(s) >= FailLimit
        /\ Exit(s)
        /\ \/ /\ WriteAllowed(s)
              /\ status' = [status EXCEPT ![sup[s].acc] = "CONNECTION_SUSPENDED"]
              /\ UNCHANGED faults
           \/ ~WriteAllowed(s) /\ UNCHANGED <<status, faults>>
           \/ Fault /\ UNCHANGED status
  /\ UNCHANGED <<leaving, signals, cancelFuncs, snapshot, changes, premature, lost>>

\* time.After(backoff), or the context is cancelled.
Doubled_Uncapped(b) == 2 * b
Doubled(b) == IF 2 * b > BackoffMax THEN BackoffMax ELSE 2 * b
Retry(s) ==
  /\ At(s, "backoff")
  /\ \/ sup[s].cancelled /\ Exit(s)
     \/ /\ sup[s].wait = 0
        /\ sup' = [sup EXCEPT ![s].pc = "check", ![s].backoff = Doubled(@)]
        /\ UNCHANGED recent
  /\ UNCHANGED <<rows, cancelFuncs, snapshot, changes, faults, premature, lost>>

Older(n) == IF n < FailWindow + 1 THEN n + 1 ELSE n
Tick ==
  /\ \E s \in Supervisors : Running(s)
  /\ sup' = [s \in Supervisors |->
       [sup[s] EXCEPT !.wait = IF @ > 0 THEN @ - 1 ELSE 0,
                      !.since = IF @ = None THEN None ELSE Older(@)]]
  /\ recent' = [s \in Supervisors |-> [k \in DOMAIN recent[s] |-> Older(recent[s][k])]]
  /\ UNCHANGED <<rows, cancelFuncs, snapshot, changes, faults, premature, lost>>

-----------------------------------------------------------------------------
Connected(s) == Update(s) \/ Block(s) \/ Hear(s) \/ Heartbeat(s) \/ NoopDone(s) \/ ReturnNil(s)
Supervise(s) == LoopHead(s) \/ Connect(s) \/ Connected(s) \/ Fail(s) \/ Retry(s)
Sync         == SyncRead \/ SyncApply
Outside(a)   == Activate(a) \/ Leave(a) \/ DisconnectTask(a) \/ LoseSignal(a)

Steps == \/ \E a \in Accounts : Outside(a) \/ RemoveAccount(a)
         \/ Sync \/ Stop
         \/ \E s \in Supervisors : Supervise(s)
Next  == Steps \/ Tick
Spec  == Init /\ [][Next]_vars

\* Goroutines run, the tickers and timers fire, the channels are read and the queue is
\* served.  An attempt to connect ends, and NOOP is answered unless the reader is stuck.
\* IDLE lasts 20 minutes each time: long enough for the processor to empty the channel.
Moves(s) == \/ LoopHead(s) \/ Heartbeat(s) \/ NoopDone(s) \/ ReturnNil(s) \/ Retry(s)
            \/ At(s, "dial") /\ Supervise(s)
Fairness == /\ WF_vars(SyncRead) /\ WF_vars(SyncApply)
            /\ \A a \in Accounts : WF_vars(RemoveAccount(a)) /\ WF_vars(DisconnectTask(a))
            /\ \A s \in Supervisors : WF_vars(Moves(s)) /\ SF_vars(Hear(s))
FairSpec == Spec /\ Fairness /\ WF_vars(Tick)

-----------------------------------------------------------------------------
(* Properties.                                                             *)

\* Every variable has its type.
TypeOK ==
  /\ status \in [Accounts -> {"ACTIVE", "DISCONNECTED", "CONNECTION_SUSPENDED"}]
  /\ leaving \subseteq Accounts /\ signals \in [Accounts -> Nat]
  /\ cancelFuncs \in [Accounts -> Supervisors \cup {None}]
  /\ sup \in [Supervisors -> Supervisor]
  /\ \A s \in Supervisors : Running(s) => sup[s].acc \in Accounts
  /\ snapshot = None \/ snapshot \subseteq Accounts
  /\ changes \in 0..MaxChanges /\ faults \in 0..MaxFaults
  /\ recent \in [Supervisors -> Seq(Ages)]
  /\ premature \subseteq Accounts /\ lost \subseteq Accounts

Supervises(s, a) == Running(s) /\ ~sup[s].cancelled /\ sup[s].acc = a
Supervised(a)    == \E s \in Supervisors : Supervises(s, a)

\* However reconciliations, signals, failures and a stop interleave, an account has
\* at most one supervisor that has not been told to stop: two would each hold a
\* connection and enqueue every update twice.
OneSupervisor ==
  \A a \in Accounts : \A s, t \in Supervisors : Supervises(s, a) /\ Supervises(t, a) => s = t

\* A supervisor of a disconnected account is about to be told to stop - unless its
\* signal was lost, or came while the account was still ACTIVE or in a snapshot that
\* syncActiveAccounts had read before it took the lock (pool.go 64-70).
NobodyWatchesTheGone ==
  \A a \in Accounts : status[a] = "DISCONNECTED" /\ Supervised(a)
                        => signals[a] > 0 \/ a \in premature \/ a \in lost

\* The breaker says what it means: it suspends an account only after FailLimit
\* failures within FailWindow ("5 failures within 10 minutes", pool.go 134).
SuspensionJustified ==
  [][\A a \in Accounts : status'[a] = "CONNECTION_SUSPENDED" /\ status[a] # status'[a] =>
       \E s \in Supervisors :
         /\ Supervises(s, a)
         /\ Len(recent[s]) = FailLimit - 1
         /\ \A k \in DOMAIN recent[s] : recent[s][k] <= FailWindow]_status

\* A disconnected account is not turned into a suspended one, unless its signal is
\* late, lost or was premature.
DisconnectSticks ==
  [][\A a \in Accounts :
       status[a] = "DISCONNECTED" /\ status'[a] = "CONNECTION_SUSPENDED"
         => signals[a] > 0 \/ a \in premature \/ a \in lost]_status

\* A supervisor that is told to stop does stop, unless its reader is stuck: then no
\* cancellation reaches it.
CancelledStops ==
  \A s \in Supervisors : (Running(s) /\ sup[s].cancelled) ~> ~Running(s) \/ At(s, "stuck")

\* What the server reports, during NOOP too, leads to a fetch, or to a failing Enqueue -
\* unless the connection ends or its reader is stuck on the full channel (pool.go
\* 197-254).
UpdatesHeard ==
  \A s \in Supervisors :
    sup[s].unheard ~> ~sup[s].unheard \/ At(s, "stuck")

\* An ACTIVE account that has no entry gets a supervisor, or stops being ACTIVE - as long
\* as the model has a goroutine that is not stuck for ever.
MissingIsStarted ==
  \A a \in Accounts \ Malformed :
    (status[a] = "ACTIVE" /\ cancelFuncs[a] = None)
      ~> Supervised(a) \/ status[a] # "ACTIVE" \/ \A s \in Supervisors : At(s, "stuck")

-----------------------------------------------------------------------------
\* What makes OneSupervisor inductive: an uncancelled supervisor is the one its
\* account's entry names.
EntryNamesSupervisor ==
  \A s \in Supervisors : Running(s) /\ ~sup[s].cancelled
                           => sup[s].acc \in Accounts /\ cancelFuncs[sup[s].acc] = s

\* What makes NobodyWatchesTheGone inductive: it holds from the moment the owner
\* disconnects the account, and of a reconciliation that is about to start it.
GoneInv ==
  \A a \in Accounts :
    \/ a \in leaving /\ status[a] = "ACTIVE"
    \/ /\ a \in leaving \/ status[a] = "DISCONNECTED"
       /\ Supervised(a) \/ (snapshot # None /\ a \in snapshot)
    => signals[a] > 0 \/ a \in premature \/ a \in lost
=============================================================================
