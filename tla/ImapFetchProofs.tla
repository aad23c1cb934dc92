--------------------------- MODULE ImapFetchProofs ---------------------------
(* Theorems of ImapFetch, for any mailbox, number of tasks and failures,     *)
(* window, key lifetime and clock.                                           *)
EXTENDS ImapFetch, FiniteSetTheorems, TLAPS

USE ImapFetchAssumption DEF ImapFetchAssumption

-----------------------------------------------------------------------------
(* Envelopes sorts what it fetched: InOrder is a sequence of it.           *)

\* The elements of a finite set are ranked 1, 2, .. by a number each has for itself.
Rank(S, f, m) == Cardinality({o \in S : f[o] <= f[m]})

LEMMA RankGrows ==
  ASSUME NEW S, IsFiniteSet(S), NEW f, \A m \in S : f[m] \in Int,
         \A m, o \in S : f[m] = f[o] => m = o
  PROVE  /\ \A m \in S : Rank(S, f, m) \in 1..Cardinality(S)
         /\ \A m, o \in S : Rank(S, f, m) = Rank(S, f, o) => m = o
<1>. DEFINE Upto(m) == {o \in S : f[o] <= f[m]}
<1>1. ASSUME NEW m \in S PROVE Cardinality(Upto(m)) \in 1..Cardinality(S)
  <2>1. Upto(m) \in SUBSET S /\ m \in Upto(m)
    OBVIOUS
  <2>2. IsFiniteSet(Upto(m)) /\ Cardinality(Upto(m)) <= Cardinality(S)
    BY <2>1, FS_Subset
  <2>3. Cardinality(Upto(m)) # 0
    BY <2>1, <2>2, FS_EmptySet
  <2>. QED BY <2>2, <2>3, FS_CardinalityType
<1>2. ASSUME NEW m \in S, NEW o \in S, Cardinality(Upto(m)) = Cardinality(Upto(o)), f[m] <= f[o]
      PROVE  m = o
  <2>1. Upto(m) \in SUBSET Upto(o) /\ Upto(o) \in SUBSET S
    BY <1>2
  <2>2. IsFiniteSet(Upto(o))
    BY <2>1, FS_Subset
  <2>3. Upto(o) = Upto(m)
    BY <2>1, <2>2, <1>2, FS_Subset
  <2>4. f[o] <= f[m]
    BY <2>3
  <2>. QED BY <1>2, <2>4
<1>3. \A m \in S : Rank(S, f, m) = Cardinality(Upto(m))
  BY DEF Rank
<1>4. ASSUME NEW m \in S, NEW o \in S, Rank(S, f, m) = Rank(S, f, o) PROVE m = o
  <2>1. f[m] <= f[o] \/ f[o] <= f[m]
    OBVIOUS
  <2>. QED BY <2>1, <1>2, <1>3, <1>4
<1>. QED BY <1>1, <1>3, <1>4

\* Every rank up to their number is taken.
LEMMA RankedOnce ==
  ASSUME NEW S, IsFiniteSet(S), NEW f, \A m \in S : f[m] \in Int,
         \A m, o \in S : f[m] = f[o] => m = o,
         NEW k \in 1..Cardinality(S)
  PROVE  \E m \in S : Rank(S, f, m) = k
<1>. DEFINE n == Cardinality(S)
            r == [m \in S |-> Rank(S, f, m)]
<1>1. n \in Nat
  BY FS_CardinalityType
<1>2. r \in Injection(S, 1..n)
  <2>1. r \in [S -> 1..n]
    BY RankGrows
  <2>2. \A a, b \in S : r[a] = r[b] => a = b
    BY RankGrows
  <2>. HIDE DEF r
  <2>. QED BY <2>1, <2>2 DEF Injection, IsInjective
<1>3. IsFiniteSet(1..n) /\ Cardinality(1..n) = n
  BY <1>1, FS_Interval
<1>4. r \in Surjection(S, 1..n)
  BY <1>2, <1>3, FS_Injection
<1>5. \E m \in S : r[m] = k
  <2>. HIDE DEF r
  <2>. QED BY <1>4 DEF Surjection
<1>. QED BY <1>5

\* InOrder lists the messages of a set whose numbers differ.
LEMMA InOrderTyped ==
  ASSUME NEW S \in SUBSET Messages,
         \A m \in S : seqnum[m] \in Int,
         \A m, o \in S : seqnum[m] = seqnum[o] => m = o
  PROVE  /\ InOrder(S) \in Seq(S)
         /\ InOrder(S) \in Seq(Messages)
<1>1. IsFiniteSet(S) /\ Cardinality(S) \in Nat
  BY FS_Subset, FS_CardinalityType
<1>. DEFINE Kth(k) == CHOOSE m \in S : Cardinality({o \in S : seqnum[o] <= seqnum[m]}) = k
<1>2. ASSUME NEW k \in 1..Cardinality(S) PROVE Kth(k) \in S
  <2>1. \E m \in S : Rank(S, seqnum, m) = k
    BY <1>1, RankedOnce
  <2>. QED BY <2>1 DEF Rank
<1>. HIDE DEF Kth
<1>3. [k \in 1..Cardinality(S) |-> Kth(k)] \in Seq(S)
  BY <1>1, <1>2
<1>. QED BY <1>3 DEF InOrder, Kth

-----------------------------------------------------------------------------
(* The range, in uint32.                                                   *)

LEMMA SmallMod ==
  ASSUME NEW w \in Nat \ {0}, NEW x \in 0..(w - 1)
  PROVE  x % w = x
  OBVIOUS

LEMMA NegativeMod ==
  ASSUME NEW w \in Nat \ {0}, NEW x \in (-w)..(-1)
  PROVE  x % w = x + w
  OBVIOUS

\* What the range names, of a mailbox that holds n messages: the last LastMany of them
\* when there are LastMany - 1 or more, and only the last one otherwise - the start has
\* wrapped, and the range is turned.
LEMMA AskedFor ==
  ASSUME NEW n \in Nat, n + LastMany < Word
  PROVE  Asked(n) \cap (1..n) = IF n >= LastMany - 1
                                  THEN {k \in 1..n : k + LastMany > n} ELSE {n} \cap (1..n)
<1>. DEFINE start == (n - (LastMany - 1)) % Word
<1>1. CASE n >= LastMany - 1
  <2>1. start = n - (LastMany - 1)
    BY <1>1, SmallMod
  <2>2. RangeStart(n) = IF n < LastMany THEN 1 ELSE n - (LastMany - 1)
    <3>. HIDE DEF start
    <3>. QED BY <1>1, <2>1 DEF RangeStart, start
  <2>3. CASE n = 0
    BY <2>3, <1>1
  <2>4. CASE n # 0
    <3>1. RangeStart(n) <= n /\ RangeStart(n) \in Nat
      BY <2>2, <2>4
    <3>2. Asked(n) = RangeStart(n)..n
      BY <3>1 DEF Asked
    <3>. QED BY <1>1, <2>2, <2>4, <3>2
  <2>. QED BY <2>3, <2>4
<1>2. CASE n < LastMany - 1
  <2>1. start = n - (LastMany - 1) + Word
    BY <1>2, NegativeMod
  <2>2. RangeStart(n) = n - (LastMany - 1) + Word
    <3>. HIDE DEF start
    <3>. QED BY <1>2, <2>1 DEF RangeStart, start
  <2>3. Asked(n) = n..(n - (LastMany - 1) + Word)
    BY <2>2 DEF Asked
  <2>. QED BY <1>2, <2>3
<1>. QED BY <1>1, <1>2

-----------------------------------------------------------------------------
(* Types.  GoodTask says of a task, of the messages A that have arrived and *)
(* of the time t what its handler relies on.                               *)

TaskType == [pc : PCs, retried : 0..MaxRetry, begun : Nat, snap : Int \cup {Null},
             start : Int, todo : Seq(Messages)]

GoodTask(x, A, t) ==
  /\ x \in TaskType
  /\ x.pc \in {"body", "enqueue"} => x.todo # <<>>
  /\ \A k \in 1..Len(x.todo) : x.todo[k] \in A
  /\ x.pc \notin {"none", "queued", "done"} => x.begun <= t /\ t <= x.begun + Timeout
  /\ x.pc \in {"dedup", "body", "enqueue"} => x.start >= x.begun - Window

TaskInv == task \in [Tasks -> TaskType] /\ \A i \in Tasks : GoodTask(task[i], Arrived, now)

\* The numbers of the mailbox are one for each message, and the dates of those that are
\* not ahead lie within the lifetime of a key.
InboxInv ==
  /\ \A m \in Arrived : seqnum[m] \in 1..Count /\ date[m] \in Int
  /\ \A m, o \in Arrived : seqnum[m] = seqnum[o] => m = o
  /\ \A m \in Arrived \ ahead : date[m] + Window + Timeout < now + KeyTTL

LEMMA SetPc ==
  ASSUME NEW x \in TaskType, NEW p \in PCs
  PROVE  LET z == [x EXCEPT !.pc = p]
         IN  z \in TaskType /\ z.pc = p /\ z.todo = x.todo /\ z.begun = x.begun /\ z.start = x.start
  BY DEF TaskType, PCs

LEMMA StoppedTasks ==
  ASSUME NEW A, NEW t, NEW n \in 0..MaxRetry
  PROVE  /\ GoodTask(Idle, A, t) /\ GoodTask(Finished, A, t)
         /\ GoodTask([Queued EXCEPT !.retried = n], A, t) /\ GoodTask(Queued, A, t)
<1>1. Idle \in TaskType /\ Idle.pc = "none" /\ Idle.todo = <<>>
  BY DEF Idle, TaskType, PCs
<1>2. Finished \in TaskType /\ Finished.pc = "done" /\ Finished.todo = <<>>
  BY <1>1, SetPc DEF Finished, PCs
<1>3. Queued \in TaskType /\ Queued.pc = "queued" /\ Queued.todo = <<>>
  BY <1>1, SetPc DEF Queued, PCs
<1>4. LET q == [Queued EXCEPT !.retried = n]
      IN  q \in TaskType /\ q.pc = "queued" /\ q.todo = <<>>
  BY <1>3 DEF TaskType
<1>. QED BY <1>1, <1>2, <1>3, <1>4 DEF GoodTask

LEMMA FailedTask ==
  ASSUME NEW i \in Tasks, task[i] \in TaskType, NEW A, NEW t
  PROVE  GoodTask(AfterError(i), A, t) /\ AfterError(i).pc \in {"none", "queued"}
<1>1. task[i].retried \in 0..MaxRetry
  BY DEF TaskType
<1>2. task[i].retried < MaxRetry => task[i].retried + 1 \in 0..MaxRetry
  BY <1>1
<1>3. AfterError(i).pc \in {"none", "queued"}
  BY DEF AfterError, Idle, Queued
<1>. QED BY <1>1, <1>2, <1>3, StoppedTasks DEF AfterError

\* Time and arrivals do not spoil a task.
LEMMA StillGood ==
  ASSUME NEW x, NEW A, NEW B, NEW t, GoodTask(x, A, t), A \subseteq B
  PROVE  GoodTask(x, B, t)
  BY DEF GoodTask

\* `continue`, and the steps that only move the handler on.
Skipped(x)    == [[x EXCEPT !.pc = "dedup"] EXCEPT !.todo = Tail(x.todo)]
MovedTo(x, p) == [x EXCEPT !.pc = p]

LEMMA SkippedTask ==
  ASSUME NEW x, NEW A, NEW t, GoodTask(x, A, t), x.todo # <<>>,
         x.pc \in {"dedup", "body", "enqueue"}
  PROVE  GoodTask(Skipped(x), A, t) /\ Skipped(x).pc = "dedup"
<1>1. x \in TaskType /\ x.todo \in Seq(Messages) /\ Tail(x.todo) \in Seq(Messages)
  BY DEF GoodTask, TaskType
<1>2. \A k \in 1..Len(Tail(x.todo)) : Tail(x.todo)[k] \in A
  BY <1>1 DEF GoodTask
<1>. DEFINE y == Tail(x.todo)
<1>. HIDE DEF y
<1>3. LET z == [[x EXCEPT !.pc = "dedup"] EXCEPT !.todo = y]
      IN  z \in TaskType /\ z.pc = "dedup" /\ z.todo = y /\ z.begun = x.begun /\ z.start = x.start
  BY <1>1 DEF TaskType, PCs, y
<1>. QED BY <1>2, <1>3 DEF GoodTask, Skipped, y

LEMMA MovedTask ==
  ASSUME NEW x, NEW A, NEW t, GoodTask(x, A, t), x.todo # <<>>,
         x.pc \in {"dedup", "body"}, NEW p \in {"body", "enqueue"}
  PROVE  GoodTask(MovedTo(x, p), A, t) /\ MovedTo(x, p).pc = p /\ MovedTo(x, p).todo = x.todo
<1>1. LET z == [x EXCEPT !.pc = p]
      IN  z \in TaskType /\ z.pc = p /\ z.todo = x.todo /\ z.begun = x.begun /\ z.start = x.start
  <2>1. x \in TaskType /\ p \in PCs
    BY DEF GoodTask, PCs
  <2>. QED BY <2>1, SetPc
<1>. QED BY <1>1 DEF GoodTask, MovedTo

-----------------------------------------------------------------------------
(* A step of a handler changes its own task, to a good one.                *)

Becomes(i) == \E y : task' = [task EXCEPT ![i] = y] /\ GoodTask(y, Arrived, now)

LEMMA ReturnBecomes ==
  ASSUME TaskInv, NEW i \in Tasks, ReturnErr(i) \/ ReturnNil(i)
  PROVE  Becomes(i)
<1>1. 0 \in 0..MaxRetry
  OBVIOUS
<1>. QED BY <1>1, FailedTask, StoppedTasks DEF ReturnErr, ReturnNil, Becomes, TaskInv

LEMMA SkipBecomes ==
  ASSUME TaskInv, NEW i \in Tasks, Skip(i), task[i].todo # <<>>,
         task[i].pc \in {"dedup", "body", "enqueue"}
  PROVE  task' = [task EXCEPT ![i] = Skipped(task[i])] /\ Becomes(i)
<1>1. task' = [task EXCEPT ![i] = Skipped(task[i])]
  BY DEF Skip, Skipped, TaskInv
<1>. QED BY <1>1, SkippedTask DEF TaskInv, Becomes

LEMMA GotoBecomes ==
  ASSUME TaskInv, NEW i \in Tasks, NEW p \in {"body", "enqueue"}, Goto(i, p),
         task[i].todo # <<>>, task[i].pc \in {"dedup", "body"}
  PROVE  task' = [task EXCEPT ![i] = MovedTo(task[i], p)] /\ Becomes(i)
<1>1. task' = [task EXCEPT ![i] = MovedTo(task[i], p)]
  BY DEF Goto, MovedTo, TaskInv
<1>. QED BY <1>1, MovedTask DEF TaskInv, Becomes

LEMMA LookupBecomes ==
  ASSUME TaskInv, now \in Nat, lastSync \in Int \cup {Null}, NEW i \in Tasks, Lookup(i)
  PROVE  Becomes(i)
<1>1. CASE ReturnErr(i)
  BY <1>1, ReturnBecomes
<1>2. CASE ~ReturnErr(i)
  <2>. DEFINE x == task[i]
              y == [x EXCEPT !.pc = "select"]
              z == [[y EXCEPT !.begun = now] EXCEPT !.snap = lastSync]
  <2>1. task' = [task EXCEPT ![i] = z]
    BY <1>2 DEF Lookup, TaskInv
  <2>2. GoodTask(x, Arrived, now)
    BY DEF TaskInv
  <2>3. y \in TaskType /\ y.pc = "select" /\ y.todo = x.todo
    <3>. HIDE DEF x
    <3>. QED BY <2>2, SetPc DEF GoodTask, PCs
  <2>4. z \in TaskType /\ z.pc = "select" /\ z.todo = x.todo /\ z.begun = now
    <3>. HIDE DEF y
    <3>. QED BY <2>3 DEF TaskType
  <2>5. GoodTask(z, Arrived, now)
    <3>. HIDE DEF x, z
    <3>. QED BY <2>2, <2>4 DEF GoodTask
  <2>. QED BY <2>1, <2>5 DEF Becomes
<1>. QED BY <1>1, <1>2

\* A message of the mailbox is in reach of the sequence the handler loops over.
LEMMA ArrivedFacts ==
  /\ Arrived \in SUBSET Messages /\ IsFiniteSet(Arrived)
  /\ Cardinality(Arrived) \in Nat /\ Cardinality(Arrived) <= Cardinality(Messages)
  /\ Cardinality(Messages) \in Nat
  /\ Count \in Nat /\ Count + LastMany < Word
<1>1. Arrived \in SUBSET Messages
  BY DEF Arrived
<1>2. /\ IsFiniteSet(Arrived) /\ Cardinality(Arrived) <= Cardinality(Messages)
      /\ Cardinality(Arrived) \in Nat /\ Cardinality(Messages) \in Nat
  BY <1>1, FS_Subset, FS_CardinalityType
<1>. QED BY <1>1, <1>2 DEF Count

LEMMA EnvelopesBecomes ==
  ASSUME TaskInv, InboxInv, now \in Nat, NEW i \in Tasks, Envelopes(i)
  PROVE  Becomes(i)
<1>1. CASE ReturnErr(i) \/ ReturnNil(i)
  BY <1>1, ReturnBecomes
<1>2. CASE ~ReturnErr(i) /\ ~ReturnNil(i)
  <2>. DEFINE x == task[i]
              q == InOrder(Fetched)
              y == [x EXCEPT !.pc = "rules"]
              z == [y EXCEPT !.todo = q]
  <2>1. task' = [task EXCEPT ![i] = z] /\ x.pc = "select"
    BY <1>2 DEF Envelopes, EnvelopesFailed, At, TaskInv
  <2>2. GoodTask(x, Arrived, now)
    BY DEF TaskInv
  <2>3. q \in Seq(Fetched) /\ q \in Seq(Messages)
    <3>1. Fetched \in SUBSET Arrived /\ Fetched \in SUBSET Messages
      BY DEF Fetched, Arrived
    <3>2. \A m \in Fetched : seqnum[m] \in Int
      BY <3>1, ArrivedFacts DEF InboxInv
    <3>3. \A m, o \in Fetched : seqnum[m] = seqnum[o] => m = o
      BY <3>1 DEF InboxInv
    <3>. QED BY <3>1, <3>2, <3>3, InOrderTyped
  <2>4. \A k \in 1..Len(q) : q[k] \in Arrived
    <3>. HIDE DEF q
    <3>. QED BY <2>3 DEF Fetched
  <2>5. y \in TaskType /\ y.pc = "rules" /\ y.begun = x.begun
    <3>. HIDE DEF x
    <3>. QED BY <2>2, SetPc DEF GoodTask, PCs
  <2>6. z \in TaskType /\ z.pc = "rules" /\ z.begun = x.begun /\ z.todo = q
    <3>. HIDE DEF y, q
    <3>. QED BY <2>3, <2>5 DEF TaskType
  <2>7. GoodTask(z, Arrived, now)
    <3>. HIDE DEF x, z, q
    <3>. QED BY <2>1, <2>2, <2>4, <2>6 DEF GoodTask
  <2>. QED BY <2>1, <2>7 DEF Becomes
<1>. QED BY <1>1, <1>2

LEMMA RulesBecomes ==
  ASSUME TaskInv, now \in Nat, NEW i \in Tasks, Rules(i)
  PROVE  Becomes(i)
<1>1. CASE ReturnErr(i)
  BY <1>1, ReturnBecomes
<1>2. CASE ~ReturnErr(i)
  <2>. DEFINE x == task[i]
              f == FilterStart(i)
              y == [x EXCEPT !.pc = "dedup"]
              z == [[y EXCEPT !.start = f] EXCEPT !.snap = Null]
  <2>1. task' = [task EXCEPT ![i] = z] /\ x.pc = "rules"
    BY <1>2 DEF Rules, At, TaskInv
  <2>2. GoodTask(x, Arrived, now) /\ x.snap \in Int \cup {Null}
    BY DEF TaskInv, GoodTask, TaskType
  <2>3. f \in Int /\ f >= now - Window
    BY <2>2 DEF FilterStart
  <2>4. y \in TaskType /\ y.pc = "dedup" /\ y.todo = x.todo /\ y.begun = x.begun
    <3>. HIDE DEF x
    <3>. QED BY <2>2, SetPc DEF GoodTask, PCs
  <2>5. z \in TaskType /\ z.pc = "dedup" /\ z.todo = x.todo /\ z.begun = x.begun /\ z.start = f
    <3>. HIDE DEF y, f
    <3>. QED BY <2>3, <2>4 DEF TaskType
  <2>6. x.begun \in Nat /\ x.begun <= now /\ now <= x.begun + Timeout
        /\ \A k \in 1..Len(x.todo) : x.todo[k] \in Arrived
    BY <2>1, <2>2 DEF GoodTask, TaskType
  <2>7. GoodTask(z, Arrived, now)
    <3>. HIDE DEF x, z, f
    <3>. QED BY <2>3, <2>5, <2>6 DEF GoodTask
  <2>. QED BY <2>1, <2>7 DEF Becomes
<1>. QED BY <1>1, <1>2

\* After the dedup check the message is accepted, or given up.
LEMMA FilterBecomes ==
  ASSUME TaskInv, NEW i \in Tasks, Filter(i), At(i, "dedup"), task[i].todo # <<>>
  PROVE  /\ Becomes(i)
         /\ task' = [task EXCEPT ![i] = IF Passes(i) THEN MovedTo(task[i], "body")
                                                     ELSE Skipped(task[i])]
  BY GotoBecomes, SkipBecomes DEF Filter, At

LEMMA WorkerBecomes ==
  ASSUME TaskInv, InboxInv, now \in Nat, lastSync \in Int \cup {Null},
         NEW i \in Tasks, Worker(i)
  PROVE  Becomes(i)
<1>1. CASE Dedup(i)
  BY <1>1, FilterBecomes, SkipBecomes DEF Dedup, At
<1>2. CASE Body(i)
  <2>1. task[i].todo # <<>>
    BY <1>2 DEF Body, At, TaskInv, GoodTask
  <2>. QED BY <1>2, <2>1, GotoBecomes, SkipBecomes DEF Body, At
<1>3. CASE Enqueue(i)
  <2>1. task[i].todo # <<>>
    BY <1>3 DEF Enqueue, At, TaskInv, GoodTask
  <2>. QED BY <1>3, <2>1, SkipBecomes DEF Enqueue, At
<1>4. CASE Finish(i)
  BY <1>4, ReturnBecomes DEF Finish
<1>5. CASE Ack(i)
  <2>1. 0 \in 0..MaxRetry
    OBVIOUS
  <2>. QED BY <1>5, <2>1, StoppedTasks DEF Ack, Becomes
<1>. QED BY <1>1, <1>2, <1>3, <1>4, <1>5, LookupBecomes, EnvelopesBecomes, RulesBecomes DEF Worker

\* What a handler leaves alone.
LEMMA WorkerFrame ==
  ASSUME NEW i \in Tasks, Worker(i)
  PROVE  UNCHANGED <<now, inbox, lastSync, updates, ahead>>
  BY DEF Worker, Lookup, Envelopes, Rules, Dedup, Body, Enqueue, Finish, Ack, bounds, history

-----------------------------------------------------------------------------
\* The environment's steps on the tasks.
LEMMA AbortTasks ==
  ASSUME TaskInv, NEW S \in SUBSET Tasks, Abort(S)
  PROVE  /\ task' \in [Tasks -> TaskType]
         /\ \A i \in Tasks : /\ GoodTask(task'[i], Arrived, now)
                             /\ i \notin S => task'[i] = task[i]
                             /\ i \in S => task'[i].pc \in {"none", "queued"}
<1>1. task' = [i \in Tasks |-> IF i \in S THEN AfterError(i) ELSE task[i]]
  BY DEF Abort
<1>2. \A i \in Tasks : /\ GoodTask(task'[i], Arrived, now)
                       /\ i \notin S => task'[i] = task[i]
                       /\ i \in S => task'[i].pc \in {"none", "queued"}
  BY <1>1, FailedTask DEF TaskInv
<1>3. \A i \in Tasks : task'[i] \in TaskType
  BY <1>2 DEF GoodTask
<1>. QED BY <1>1, <1>2, <1>3

LEMMA ArriveInbox ==
  ASSUME InboxInv, seqnum \in [Messages -> Nat], date \in [Messages -> Int \cup {Null}],
         ahead \subseteq Messages, now \in Nat, NEW m \in Messages, Arrive(m)
  PROVE  /\ Arrived' = Arrived \cup {m} /\ m \notin Arrived /\ Count' = Count + 1
         /\ seqnum' \in [Messages -> Nat] /\ date' \in [Messages -> Int \cup {Null}]
         /\ \A o \in Arrived : date'[o] = date[o] /\ (o \in ahead' <=> o \in ahead)
         /\ ahead' \in {ahead, ahead \cup {m}}
         /\ InboxInv'
<1>1. m \notin Arrived /\ now' = now /\ seqnum' = [seqnum EXCEPT ![m] = Count + 1]
      /\ Count \in Nat
  BY ArrivedFacts DEF Arrive
<1>2. PICK skew \in Skews :
        /\ date' = [date EXCEPT ![m] = now + skew]
        /\ ahead' = IF skew >= KeyTTL - Window - Timeout THEN ahead \cup {m} ELSE ahead
  BY DEF Arrive
<1>3. skew \in Int
  OBVIOUS
<1>4. Arrived' = Arrived \cup {m}
  BY <1>1 DEF Arrived
<1>5. Count' = Count + 1
  <2>1. Cardinality(Arrived \cup {m}) = Cardinality(Arrived) + 1
    BY <1>1, ArrivedFacts, FS_AddElement
  <2>. QED BY <1>4, <2>1, ArrivedFacts DEF Count
<1>6. seqnum' \in [Messages -> Nat] /\ date' \in [Messages -> Int \cup {Null}]
  BY <1>1, <1>2, <1>3
<1>7. \A o \in Arrived : o # m /\ o \in Messages /\ date'[o] = date[o] /\ seqnum'[o] = seqnum[o]
                         /\ (o \in ahead' <=> o \in ahead)
  BY <1>1, <1>2 DEF Arrived
<1>8. date'[m] = now + skew /\ seqnum'[m] = Count + 1
  BY <1>1, <1>2
<1>9. InboxInv'
  <2>1. \A o \in Arrived \cup {m} : seqnum'[o] \in 1..(Count + 1) /\ date'[o] \in Int
    BY <1>1, <1>3, <1>7, <1>8 DEF InboxInv
  <2>2. \A o, u \in Arrived \cup {m} : seqnum'[o] = seqnum'[u] => o = u
    BY <1>1, <1>7, <1>8 DEF InboxInv
  <2>3. \A o \in (Arrived \cup {m}) \ ahead' : date'[o] + Window + Timeout < now + KeyTTL
    <3>1. ASSUME NEW o \in Arrived, o \notin ahead' PROVE date'[o] + Window + Timeout < now + KeyTTL
      BY <1>7, <3>1 DEF InboxInv
    <3>2. m \notin ahead' => skew < KeyTTL - Window - Timeout
      BY <1>2, <1>3
    <3>. QED BY <3>1, <3>2, <1>3, <1>8
  <2>. QED BY <1>1, <1>4, <1>5, <2>1, <2>2, <2>3 DEF InboxInv
<1>. QED BY <1>1, <1>2, <1>4, <1>5, <1>6, <1>7, <1>9

-----------------------------------------------------------------------------
\* What makes TypeOK inductive: the sequence a handler loops over is one of messages
\* that have arrived, which takes numbers that differ.
CoreInv == TypeOK /\ TaskInv /\ InboxInv

\* The variables but the tasks, the mailbox and the clock.
RestOK ==
  /\ lastSync \in Int \cup {Null} /\ expires \in [Messages -> Nat \cup {Null}]
  /\ handoffs \in [Messages -> Nat]
  /\ updates \in 0..MaxUpdates /\ faults \in 0..MaxFaults
  /\ bypassed \subseteq Messages /\ harmed \subseteq Messages /\ crowded \subseteq Messages

LEMMA FaultTyped == faults \in 0..MaxFaults /\ (Fault \/ UNCHANGED faults) => faults' \in 0..MaxFaults
  BY DEF Fault

LEMMA HeadArrived ==
  ASSUME TaskInv, NEW i \in Tasks, task[i].todo # <<>>
  PROVE  Msg(i) \in Arrived /\ Msg(i) \in Messages
<1>1. task[i].todo \in Seq(Messages) /\ (\A k \in 1..Len(task[i].todo) : task[i].todo[k] \in Arrived)
  BY DEF TaskInv, GoodTask, TaskType
<1>2. 1 \in 1..Len(task[i].todo) /\ Head(task[i].todo) = task[i].todo[1]
  BY <1>1
<1>. QED BY <1>1, <1>2 DEF Msg, Arrived

LEMMA WorkerRest ==
  ASSUME CoreInv, NEW i \in Tasks, Worker(i) PROVE RestOK'
<1>. USE DEF CoreInv, TypeOK, RestOK
<1>1. task[i].pc \in {"body", "enqueue"} \/ (At(i, "dedup") /\ task[i].todo # <<>>)
        => Msg(i) \in Messages
  BY HeadArrived DEF TaskInv, GoodTask
<1>2. \A m \in Messages : now + KeyTTL \in Nat /\ handoffs[m] + 1 \in Nat
  OBVIOUS
<1>3. CASE Dedup(i)
  <2>1. Msg(i) \in Messages
    BY <1>1, <1>3 DEF Dedup
  <2>2. expires' = expires \/ expires' = [expires EXCEPT ![Msg(i)] = now + KeyTTL]
    BY <1>3 DEF Dedup
  <2>3. expires' \in [Messages -> Nat \cup {Null}]
    BY <1>2, <2>1, <2>2
  <2>. QED BY <1>3, <2>1, <2>3, FaultTyped DEF Dedup
<1>4. CASE Enqueue(i)
  <2>1. Msg(i) \in Messages
    BY <1>1, <1>4 DEF Enqueue, At
  <2>2. handoffs' = handoffs \/ handoffs' = [handoffs EXCEPT ![Msg(i)] = @ + 1]
    BY <1>4 DEF Enqueue
  <2>3. handoffs' \in [Messages -> Nat]
    BY <1>2, <2>1, <2>2
  <2>. QED BY <1>4, <2>1, <2>3, FaultTyped DEF Enqueue, Harm
<1>5. CASE Body(i)
  <2>1. Msg(i) \in Messages
    BY <1>1, <1>5 DEF Body, At
  <2>. QED BY <1>5, <2>1, FaultTyped DEF Body, Harm
<1>6. CASE Lookup(i) \/ Envelopes(i) \/ Rules(i)
  BY <1>6, FaultTyped DEF Lookup, Envelopes, Rules, HarmIfArchived, Harm, Arrived
<1>7. CASE Finish(i) \/ Ack(i)
  BY <1>7 DEF Finish, Ack, bounds, history
<1>. QED BY <1>3, <1>4, <1>5, <1>6, <1>7 DEF Worker

LEMMA CoreStep == CoreInv /\ [Next]_vars => CoreInv'
<1>. SUFFICES ASSUME CoreInv, [Next]_vars PROVE CoreInv'
  OBVIOUS
<1>0. /\ TypeOK /\ TaskInv /\ InboxInv /\ RestOK
      /\ now \in 0..MaxTime /\ seqnum \in [Messages -> Nat] /\ date \in [Messages -> Int \cup {Null}]
      /\ ahead \subseteq Messages
  BY DEF CoreInv, TypeOK, RestOK
<1>. SUFFICES /\ TaskInv' /\ InboxInv' /\ RestOK'
              /\ now' \in 0..MaxTime /\ seqnum' \in [Messages -> Nat]
              /\ date' \in [Messages -> Int \cup {Null}] /\ ahead' \subseteq Messages
  BY DEF CoreInv, TypeOK, RestOK, TaskInv, TaskType
<1>1. UNCHANGED <<now, inbox, ahead>> => Arrived' = Arrived /\ InboxInv'
  BY <1>0 DEF inbox, Arrived, InboxInv, Count
<1>2. ASSUME UNCHANGED <<inbox, now, ahead>>
      PROVE  /\ now' \in 0..MaxTime /\ seqnum' \in [Messages -> Nat]
             /\ date' \in [Messages -> Int \cup {Null}] /\ ahead' \subseteq Messages
  BY <1>0, <1>2 DEF inbox
<1>3. CASE Tick
  <2>1. now' = now + 1 /\ now' \in 0..MaxTime /\ Arrived' = Arrived /\ UNCHANGED <<inbox, task, ahead>>
    BY <1>0, <1>3 DEF Tick, history, inbox, Arrived
  <2>2. ASSUME NEW i \in Tasks PROVE GoodTask(task[i], Arrived, now + 1)
    <3>1. GoodTask(task[i], Arrived, now) /\ (Running(i) => now < task[i].begun + Timeout)
      BY <1>0, <1>3 DEF TaskInv, Tick, InTime
    <3>2. task[i].begun \in Nat
      BY <3>1 DEF GoodTask, TaskType
    <3>3. Running(i) => now + 1 <= task[i].begun + Timeout
      <4>1. now \in Nat /\ Timeout \in Nat
        BY <1>0, ImapFetchAssumption
      <4>. QED BY <3>1, <3>2, <4>1
    <3>4. Running(i) => task[i].begun <= now + 1
      BY <1>0, <3>1, <3>2 DEF GoodTask, Running
    <3>. QED BY <3>1, <3>3, <3>4 DEF GoodTask, Running
  <2>3. TaskInv'
    BY <1>0, <2>1, <2>2 DEF TaskInv
  <2>4. InboxInv'
    <3>1. \A m \in Arrived : date[m] \in Int
      BY <1>0 DEF InboxInv
    <3>. QED BY <1>0, <2>1, <3>1 DEF InboxInv, inbox, Count
  <2>5. RestOK'
    BY <1>0, <1>3 DEF Tick, bounds, history, RestOK
  <2>. QED BY <1>0, <2>1, <2>3, <2>4, <2>5 DEF inbox
<1>4. CASE Crash
  <2>1. Abort({i \in Tasks : Running(i) \/ At(i, "done")}) /\ Fault
    BY <1>4 DEF Crash
  <2>2. UNCHANGED <<now, inbox, ahead>> /\ Arrived' = Arrived
    BY <2>1 DEF Abort, Arrived, inbox
  <2>3. TaskInv'
    BY <1>0, <2>1, <2>2, AbortTasks DEF TaskInv
  <2>4. RestOK'
    BY <1>0, <2>1, FaultTyped DEF Abort, RestOK, Harm, Arrived
  <2>. QED BY <1>1, <1>2, <2>2, <2>3, <2>4
<1>5. CASE Update
  <2>1. UNCHANGED <<now, inbox, ahead>> /\ Arrived' = Arrived
    BY <1>5 DEF Update, Arrived, inbox, history
  <2>2. \A A, t : GoodTask(Queued, A, t)
    <3>1. 0 \in 0..MaxRetry
      OBVIOUS
    <3>. QED BY <3>1, StoppedTasks
  <2>3. TaskInv'
    <3>1. PICK i \in Tasks : task' = [task EXCEPT ![i] = Queued]
      BY <1>5 DEF Update
    <3>2. GoodTask(Queued, Arrived, now)
      BY <2>2
    <3>. QED BY <1>0, <2>1, <3>1, <3>2 DEF TaskInv, GoodTask
  <2>4. RestOK'
    BY <1>0, <1>5 DEF Update, RestOK, history
  <2>. QED BY <1>1, <1>2, <2>1, <2>3, <2>4
<1>6. ASSUME NEW m \in Messages, Arrive(m)
      PROVE /\ TaskInv' /\ InboxInv' /\ RestOK'
            /\ now' \in 0..MaxTime /\ seqnum' \in [Messages -> Nat]
            /\ date' \in [Messages -> Int \cup {Null}] /\ ahead' \subseteq Messages
  <2>1. /\ Arrived' = Arrived \cup {m} /\ now' = now
        /\ seqnum' \in [Messages -> Nat] /\ date' \in [Messages -> Int \cup {Null}]
        /\ ahead' \in {ahead, ahead \cup {m}} /\ InboxInv'
    <3>1. now \in Nat /\ now' = now
      BY <1>0, <1>6 DEF Arrive
    <3>. QED BY <1>0, <1>6, <3>1, ArriveInbox
  <2>2. \A A, t : GoodTask(Queued, A, t)
    <3>1. 0 \in 0..MaxRetry
      OBVIOUS
    <3>. QED BY <3>1, StoppedTasks
  <2>3. \A i \in Tasks : GoodTask(task[i], Arrived \cup {m}, now)
    BY <1>0, StillGood DEF TaskInv
  <2>4. UNCHANGED task \/ \E i \in Tasks : task' = [task EXCEPT ![i] = Queued]
    BY <1>6 DEF Arrive
  <2>5. TaskInv'
    <3>1. CASE UNCHANGED task
      BY <1>0, <2>1, <2>3, <3>1 DEF TaskInv
    <3>2. CASE \E i \in Tasks : task' = [task EXCEPT ![i] = Queued]
      <4>1. PICK i \in Tasks : task' = [task EXCEPT ![i] = Queued]
        BY <3>2
      <4>2. GoodTask(Queued, Arrived \cup {m}, now)
        BY <2>2
      <4>. QED BY <1>0, <2>1, <2>3, <4>1, <4>2 DEF TaskInv, GoodTask
    <3>. QED BY <2>4, <3>1, <3>2
  <2>6. RestOK'
    BY <1>0, <1>6, FaultTyped DEF Arrive, RestOK, Harm
  <2>. QED BY <1>0, <2>1, <2>5, <2>6
<1>7. ASSUME NEW m \in Messages, Process(m)
      PROVE /\ TaskInv' /\ InboxInv' /\ RestOK'
            /\ now' \in 0..MaxTime /\ seqnum' \in [Messages -> Nat]
            /\ date' \in [Messages -> Int \cup {Null}] /\ ahead' \subseteq Messages
  <2>1. UNCHANGED <<now, inbox, ahead, task>> /\ Arrived' = Arrived
    BY <1>7 DEF Process, Arrived, inbox, history
  <2>2. TaskInv'
    BY <1>0, <2>1 DEF TaskInv
  <2>3. RestOK'
    BY <1>0, <1>7 DEF Process, RestOK, bounds, history
  <2>. QED BY <1>1, <1>2, <2>1, <2>2, <2>3
<1>8. ASSUME NEW i \in Tasks, Worker(i)
      PROVE /\ TaskInv' /\ InboxInv' /\ RestOK'
            /\ now' \in 0..MaxTime /\ seqnum' \in [Messages -> Nat]
            /\ date' \in [Messages -> Int \cup {Null}] /\ ahead' \subseteq Messages
  <2>1. UNCHANGED <<now, inbox, ahead>> /\ Arrived' = Arrived
    BY <1>8, WorkerFrame DEF Arrived, inbox
  <2>2. PICK y : task' = [task EXCEPT ![i] = y] /\ GoodTask(y, Arrived, now)
    BY <1>0, <1>8, WorkerBecomes DEF Becomes, RestOK
  <2>3. TaskInv'
    BY <1>0, <2>1, <2>2 DEF TaskInv, GoodTask
  <2>4. RestOK'
    BY <1>8, WorkerRest
  <2>. QED BY <1>1, <1>2, <2>1, <2>3, <2>4
<1>9. ASSUME NEW i \in Tasks, Expire(i)
      PROVE /\ TaskInv' /\ InboxInv' /\ RestOK'
            /\ now' \in 0..MaxTime /\ seqnum' \in [Messages -> Nat]
            /\ date' \in [Messages -> Int \cup {Null}] /\ ahead' \subseteq Messages
  <2>1. Abort({i}) /\ UNCHANGED faults
    BY <1>9 DEF Expire
  <2>2. UNCHANGED <<now, inbox, ahead>> /\ Arrived' = Arrived
    BY <2>1 DEF Abort, Arrived, inbox
  <2>3. TaskInv'
    BY <1>0, <2>1, <2>2, AbortTasks DEF TaskInv
  <2>4. RestOK'
    BY <1>0, <2>1 DEF Abort, RestOK, Harm, Arrived
  <2>. QED BY <1>1, <1>2, <2>2, <2>3, <2>4
<1>10. CASE UNCHANGED vars
  <2>1. TaskInv'
    BY <1>0, <1>10 DEF vars, inbox, TaskInv, Arrived
  <2>. QED BY <1>0, <1>1, <1>2, <1>10, <2>1 DEF vars, inbox, bounds, history, RestOK
<1>. QED BY <1>3, <1>4, <1>5, <1>6, <1>7, <1>8, <1>9, <1>10 DEF Next

LEMMA InitCore == Init => CoreInv
<1>. SUFFICES ASSUME Init PROVE CoreInv
  OBVIOUS
<1>1. \A A, t : GoodTask(Idle, A, t)
  <2>1. 0 \in 0..MaxRetry
    OBVIOUS
  <2>. QED BY <2>1, StoppedTasks
<1>2. TaskInv
  BY <1>1 DEF Init, TaskInv, GoodTask
<1>3. Arrived = {}
  BY DEF Init, Arrived
<1>4. InboxInv
  BY <1>3 DEF InboxInv
<1>. QED BY <1>2, <1>4 DEF Init, CoreInv, TypeOK, TaskInv, TaskType

LEMMA CoreCorrect == Spec => []CoreInv
  BY InitCore, CoreStep, PTL DEF Spec

\* TypeOK holds in every reachable state; of it, that what a handler loops over is a
\* sequence of messages is more than a type: the mailbox numbers them apart.
THEOREM TypeCorrect == Spec => []TypeOK
<1>1. CoreInv => TypeOK
  BY DEF CoreInv
<1>. QED BY <1>1, CoreCorrect, PTL

\* LastTenFetched: the fetch asks for the last LastMany messages of a mailbox that
\* always held LastMany - 1.
THEOREM LastTenAsked ==
  ASSUME OldMail >= LastMany - 1
  PROVE  Spec => []LastTenFetched
<1>1. LastTenFetched
  <2>1. Count \in Nat /\ Count + LastMany < Word /\ Count >= LastMany - 1
    BY ArrivedFacts DEF Count
  <2>. QED BY <2>1, AskedFor DEF LastTenFetched
<1>2. []LastTenFetched
  BY <1>1, PTL
<1>. QED BY <1>2, PTL

-----------------------------------------------------------------------------
(* No message is handed off twice.                                         *)

\* A key outlives the window of its message by more than a task can last.
KeyInv ==
  \A m \in Messages :
    /\ expires[m] # Null => /\ m \in Arrived
                            /\ m \notin ahead => date[m] + Window + Timeout < expires[m]
    /\ handoffs[m] > 0 => m \in Arrived

\* Of a message the promise covers: its key was set before a task accepted it, at most
\* one task has, and that one has not handed it off yet.
OnceInv ==
  \A m \in Messages \ (bypassed \cup ahead) :
    /\ handoffs[m] > 0 => expires[m] # Null
    /\ \A i \in Tasks : Holding(i, m) =>
         /\ expires[m] # Null /\ handoffs[m] = 0
         /\ \A j \in Tasks : Holding(j, m) => i = j

HandoffInv == KeyInv /\ OnceInv

\* A step after which nobody holds what he did not hold, and which leaves the keys, the
\* hand-offs and the dates of messages alone, keeps the invariant.
NoNewHolder == \A i \in Tasks, m \in Messages : Holding(i, m)' => Holding(i, m)

LEMMA QuietStep ==
  ASSUME HandoffInv, NoNewHolder, UNCHANGED <<inbox, ahead, bypassed, expires, handoffs>>
  PROVE  HandoffInv'
<1>1. Arrived' = Arrived /\ UNCHANGED <<date, ahead, bypassed, expires, handoffs>>
  BY DEF inbox, Arrived
<1>2. KeyInv'
  BY <1>1 DEF HandoffInv, KeyInv
<1>3. OnceInv'
  BY <1>1 DEF HandoffInv, OnceInv, NoNewHolder
<1>. QED BY <1>2, <1>3 DEF HandoffInv

\* A step of one task that does not end with a message held.
LEMMA HoldsNothing ==
  ASSUME TaskInv, NEW i \in Tasks, NEW y, task' = [task EXCEPT ![i] = y],
         y.pc \notin {"body", "enqueue"}
  PROVE  NoNewHolder /\ \A m \in Messages : ~Holding(i, m)'
  BY DEF NoNewHolder, Holding, Msg, TaskInv

\* A message whose key was set before, and may be claimed again, is too old for every
\* task that runs: the key outlived the window and the time a task has.
LEMMA ClaimedIsOld ==
  ASSUME CoreInv, KeyInv, NEW i \in Tasks, At(i, "dedup"), task[i].todo # <<>>,
         Msg(i) \notin ahead, expires[Msg(i)] # Null, ~KeyLive(Msg(i))
  PROVE  ~Passes(i)
<1>. DEFINE m == Msg(i)
            x == task[i]
<1>1. m \in Messages /\ m \in Arrived
  BY HeadArrived DEF CoreInv
<1>2. date[m] \in Int /\ expires[m] \in Nat /\ now \in Nat
  BY <1>1 DEF CoreInv, InboxInv, TypeOK
<1>3. date[m] + Window + Timeout < expires[m] /\ expires[m] <= now
  BY <1>1, <1>2 DEF KeyInv, KeyLive
<1>4. /\ x.begun \in Nat /\ x.start \in Int /\ now <= x.begun + Timeout
      /\ x.start >= x.begun - Window
  BY DEF CoreInv, TaskInv, GoodTask, TaskType, At
<1>5. Window \in Nat /\ Timeout \in Nat
  BY ImapFetchAssumption
<1>6. date[m] < x.start
  <2>1. PICK d \in Int, e \in Nat, t \in Nat : d = date[m] /\ e = expires[m] /\ t = now
    BY <1>2
  <2>2. PICK b \in Nat, s \in Int : b = x.begun /\ s = x.start
    BY <1>4
  <2>3. d + Window + Timeout < e /\ e <= t /\ t <= b + Timeout /\ s >= b - Window
    BY <1>3, <1>4, <2>1, <2>2
  <2>4. d < s
    BY <1>5, <2>3
  <2>. QED BY <2>1, <2>2, <2>4
<1>. QED BY <1>2, <1>4, <1>6 DEF Passes

LEMMA DedupKeeps ==
  ASSUME CoreInv, HandoffInv, NEW i \in Tasks, Dedup(i)
  PROVE  HandoffInv'
<1>. DEFINE m == Msg(i)
<1>0. TaskInv /\ At(i, "dedup") /\ task[i].todo # <<>> /\ UNCHANGED <<inbox, handoffs, ahead, now>>
  BY DEF Dedup, CoreInv
<1>1. m \in Messages /\ m \in Arrived
  BY <1>0, HeadArrived
<1>2. Arrived' = Arrived /\ date' = date
  BY <1>0 DEF inbox, Arrived
<1>3. CASE Skip(i) /\ UNCHANGED <<expires, bypassed>>
  <2>1. task' = [task EXCEPT ![i] = Skipped(task[i])] /\ Skipped(task[i]).pc = "dedup"
    BY <1>0, <1>3, SkipBecomes, SkippedTask DEF At, TaskInv
  <2>. QED BY <1>0, <1>3, <2>1, HoldsNothing, QuietStep
<1>4. CASE Filter(i) /\ ~(Skip(i) /\ UNCHANGED <<expires, bypassed>>)
  <2>1. task' = [task EXCEPT ![i] = IF Passes(i) THEN MovedTo(task[i], "body")
                                                 ELSE Skipped(task[i])]
    BY <1>0, <1>4, FilterBecomes
  <2>2. /\ Skipped(task[i]).pc = "dedup"
        /\ MovedTo(task[i], "body").pc = "body" /\ MovedTo(task[i], "body").todo = task[i].todo
    BY <1>0, SkippedTask, MovedTask DEF At, TaskInv
  <2>3. ~Passes(i) => NoNewHolder /\ \A o \in Messages : ~Holding(i, o)'
    BY <1>0, <2>1, <2>2, HoldsNothing
  <2>4. \A o \in Messages, j \in Tasks :
          Holding(j, o)' => Holding(j, o) \/ (Passes(i) /\ j = i /\ o = m)
    BY <1>0, <2>1, <2>2, <2>3 DEF NoNewHolder, Holding, Msg, TaskInv
  <2>5. \A o \in Messages : ~Holding(i, o)
    BY <1>0 DEF At, Holding
  <2>6. \/ expires' = expires /\ bypassed' = bypassed \cup {m}
        \/ /\ ~KeyLive(m) /\ expires' = [expires EXCEPT ![m] = now + KeyTTL]
           /\ bypassed' \in {bypassed, bypassed \cup {m}}
    BY <1>4 DEF Dedup
  <2>7. \A o \in Messages : expires'[o] = expires[o] \/ (o = m /\ expires'[o] = now + KeyTTL)
    BY <2>6 DEF CoreInv, TypeOK
  <2>8. now + KeyTTL # Null /\ now + KeyTTL \in Nat
    BY DEF CoreInv, TypeOK
  <2>9. KeyInv'
    <3>1. m \notin ahead => date[m] + Window + Timeout < now + KeyTTL
      BY <1>1 DEF CoreInv, InboxInv
    <3>2. \A o \in Messages : /\ expires'[o] # Null =>
                                  /\ o \in Arrived
                                  /\ o \notin ahead => date[o] + Window + Timeout < expires'[o]
                              /\ handoffs[o] > 0 => o \in Arrived
      BY <1>1, <2>7, <3>1 DEF HandoffInv, KeyInv
    <3>. QED BY <1>0, <1>2, <3>2 DEF KeyInv
  <2>10. OnceInv'
    <3>1. bypassed \subseteq bypassed' /\ (\A o : o \notin bypassed' => o \notin bypassed)
      BY <2>6
    <3>2. ASSUME NEW o \in Messages \ (bypassed' \cup ahead)
          PROVE  /\ handoffs[o] > 0 => expires'[o] # Null
                 /\ expires[o] # Null => expires'[o] # Null
      BY <2>7, <2>8, <3>1, <3>2 DEF HandoffInv, OnceInv
    <3>3. ASSUME Passes(i), m \notin bypassed' \cup ahead
          PROVE  /\ expires'[m] # Null /\ handoffs[m] = 0
                 /\ \A j \in Tasks : ~Holding(j, m)
      <4>1. ~KeyLive(m) /\ expires' = [expires EXCEPT ![m] = now + KeyTTL]
        BY <2>6, <3>3
      <4>2. expires[m] = Null
        BY <1>0, <3>3, <4>1, ClaimedIsOld DEF HandoffInv
      <4>3. handoffs[m] \in Nat /\ ~(handoffs[m] > 0) /\ \A j \in Tasks : ~Holding(j, m)
        BY <1>1, <3>1, <3>3, <4>2 DEF HandoffInv, OnceInv, CoreInv, TypeOK
      <4>4. expires'[m] = now + KeyTTL
        BY <1>1, <4>1 DEF CoreInv, TypeOK
      <4>. QED BY <2>8, <4>3, <4>4
    <3>4. ASSUME NEW o \in Messages \ (bypassed' \cup ahead), NEW j \in Tasks, Holding(j, o)'
          PROVE  /\ expires'[o] # Null /\ handoffs[o] = 0
                 /\ \A k \in Tasks : Holding(k, o)' => j = k
      <4>1. CASE Passes(i) /\ o = m
        BY <2>4, <3>3, <3>4, <4>1
      <4>2. CASE ~(Passes(i) /\ o = m)
        <5>1. Holding(j, o) /\ \A k \in Tasks : Holding(k, o)' => Holding(k, o)
          BY <2>4, <3>4, <4>2
        <5>. QED BY <3>1, <3>2, <3>4, <5>1 DEF HandoffInv, OnceInv
      <4>. QED BY <4>1, <4>2
    <3>. QED BY <1>0, <3>2, <3>4 DEF OnceInv
  <2>. QED BY <2>9, <2>10 DEF HandoffInv
<1>. QED BY <1>3, <1>4 DEF Dedup

LEMMA EnqueueKeeps ==
  ASSUME CoreInv, HandoffInv, NEW i \in Tasks, Enqueue(i)
  PROVE  HandoffInv'
<1>. DEFINE m == Msg(i)
<1>0. /\ TaskInv /\ At(i, "enqueue") /\ task[i].todo # <<>>
      /\ UNCHANGED <<inbox, ahead, bypassed, expires>> /\ Skip(i)
  BY DEF Enqueue, CoreInv, TaskInv, GoodTask, At
<1>1. m \in Messages /\ m \in Arrived /\ Holding(i, m)
  BY <1>0, HeadArrived DEF Holding, At
<1>2. Arrived' = Arrived /\ date' = date
  BY <1>0 DEF inbox, Arrived
<1>3. task' = [task EXCEPT ![i] = Skipped(task[i])] /\ Skipped(task[i]).pc = "dedup"
  BY <1>0, SkipBecomes, SkippedTask DEF At, TaskInv
<1>4. NoNewHolder /\ \A o \in Messages : ~Holding(i, o)'
  BY <1>0, <1>3, HoldsNothing
<1>5. \A o \in Messages : handoffs'[o] = handoffs[o] \/ o = m
  BY DEF Enqueue, CoreInv, TypeOK
<1>6. KeyInv'
  BY <1>0, <1>1, <1>2, <1>5 DEF HandoffInv, KeyInv
<1>7. OnceInv'
  <2>1. ASSUME NEW o \in Messages \ (bypassed \cup ahead)
        PROVE  handoffs'[o] > 0 => expires[o] # Null
    BY <1>1, <1>5, <2>1 DEF HandoffInv, OnceInv
  <2>2. ASSUME NEW o \in Messages \ (bypassed \cup ahead), NEW j \in Tasks, Holding(j, o)'
        PROVE  /\ expires[o] # Null /\ handoffs'[o] = 0
               /\ \A k \in Tasks : Holding(k, o)' => j = k
    <3>1. Holding(j, o) /\ j # i
      BY <1>4, <2>2 DEF NoNewHolder
    <3>2. o # m
      BY <1>1, <2>2, <3>1 DEF HandoffInv, OnceInv
    <3>. QED BY <1>4, <1>5, <2>2, <3>1, <3>2 DEF NoNewHolder, HandoffInv, OnceInv
  <2>. QED BY <1>0, <2>1, <2>2 DEF OnceInv
<1>. QED BY <1>6, <1>7 DEF HandoffInv

\* The steps of a handler that claim nothing and hand nothing off.
LEMMA OtherFrame ==
  ASSUME NEW i \in Tasks, Worker(i), ~Dedup(i), ~Enqueue(i)
  PROVE  UNCHANGED <<expires, handoffs, bypassed>>
<1>1. CASE Lookup(i) \/ Envelopes(i)
  BY <1>1 DEF Lookup, Envelopes
<1>2. CASE Rules(i) \/ Body(i)
  BY <1>2 DEF Rules, Body
<1>3. CASE Finish(i) \/ Ack(i)
  BY <1>3 DEF Finish, Ack, history
<1>. QED BY <1>1, <1>2, <1>3 DEF Worker

LEMMA OtherKeeps ==
  ASSUME CoreInv, HandoffInv, NEW i \in Tasks, Worker(i), ~Dedup(i), ~Enqueue(i)
  PROVE  HandoffInv'
<1>0. TaskInv /\ UNCHANGED <<inbox, ahead, bypassed, expires, handoffs>>
  BY WorkerFrame, OtherFrame DEF inbox, CoreInv
<1>1. CASE Body(i)
  <2>1. task[i].todo # <<>> /\ At(i, "body")
    BY <1>0, <1>1 DEF Body, At, TaskInv, GoodTask
  <2>2. CASE Goto(i, "enqueue")
    <3>1. task' = [task EXCEPT ![i] = MovedTo(task[i], "enqueue")]
      BY <1>0, <2>1, <2>2, GotoBecomes DEF At
    <3>2. MovedTo(task[i], "enqueue").todo = task[i].todo
      BY <1>0, <2>1, MovedTask DEF At, TaskInv
    <3>3. NoNewHolder
      BY <1>0, <2>1, <3>1, <3>2 DEF NoNewHolder, Holding, Msg, TaskInv, At
    <3>. QED BY <1>0, <3>3, QuietStep
  <2>3. CASE Skip(i)
    <3>1. task' = [task EXCEPT ![i] = Skipped(task[i])] /\ Skipped(task[i]).pc = "dedup"
      BY <1>0, <2>1, <2>3, SkipBecomes, SkippedTask DEF At, TaskInv
    <3>. QED BY <1>0, <3>1, HoldsNothing, QuietStep
  <2>. QED BY <1>1, <2>2, <2>3 DEF Body
<1>2. CASE ~Body(i)
  <2>1. \E y : task' = [task EXCEPT ![i] = y] /\ y.pc \notin {"body", "enqueue"}
    <3>1. CASE ReturnErr(i)
      BY <1>0, <3>1, FailedTask DEF ReturnErr, TaskInv
    <3>0. Idle.pc = "none" /\ Finished.pc = "done"
      BY DEF Finished, Idle
    <3>2. CASE ReturnNil(i)
      BY <3>0, <3>2 DEF ReturnNil
    <3>3. CASE Ack(i)
      BY <3>0, <3>3 DEF Ack
    <3>4. task[i] \in TaskType
      BY <1>0 DEF TaskInv
    <3>5. CASE Lookup(i) /\ ~ReturnErr(i)
      <4>. DEFINE y == [[[task[i] EXCEPT !.pc = "select"] EXCEPT !.begun = now]
                             EXCEPT !.snap = lastSync]
      <4>1. task' = [task EXCEPT ![i] = y]
        BY <3>5, <1>0 DEF Lookup, TaskInv
      <4>2. y.pc = "select"
        BY <3>4 DEF TaskType
      <4>. HIDE DEF y
      <4>. QED BY <4>1, <4>2
    <3>6. CASE Envelopes(i) /\ ~ReturnErr(i) /\ ~ReturnNil(i)
      <4>. DEFINE y == [[task[i] EXCEPT !.pc = "rules"] EXCEPT !.todo = InOrder(Fetched)]
      <4>1. task' = [task EXCEPT ![i] = y]
        BY <3>6, <1>0 DEF Envelopes, EnvelopesFailed, TaskInv
      <4>2. y.pc = "rules"
        BY <3>4 DEF TaskType
      <4>. HIDE DEF y
      <4>. QED BY <4>1, <4>2
    <3>7. CASE Rules(i) /\ ~ReturnErr(i)
      <4>. DEFINE y == [[[task[i] EXCEPT !.pc = "dedup"] EXCEPT !.start = FilterStart(i)]
                             EXCEPT !.snap = Null]
      <4>1. task' = [task EXCEPT ![i] = y]
        BY <3>7, <1>0 DEF Rules, TaskInv
      <4>2. y.pc = "dedup"
        BY <3>4 DEF TaskType
      <4>. HIDE DEF y
      <4>. QED BY <4>1, <4>2
    <3>. QED BY <1>2, <3>1, <3>2, <3>3, <3>5, <3>6, <3>7 DEF Worker, Finish
  <2>. QED BY <1>0, <2>1, HoldsNothing, QuietStep
<1>. QED BY <1>1, <1>2

LEMMA AbortKeeps ==
  ASSUME CoreInv, HandoffInv, NEW S \in SUBSET Tasks, Abort(S)
  PROVE  HandoffInv'
<1>1. UNCHANGED <<inbox, ahead, bypassed, expires, handoffs>>
  BY DEF Abort
<1>2. NoNewHolder
  BY AbortTasks DEF CoreInv, NoNewHolder, Holding, Msg
<1>. QED BY <1>1, <1>2, QuietStep

\* A task that starts holds nothing, and neither does anybody hold a new message.
LEMMA SpawnHolds ==
  ASSUME TaskInv, UNCHANGED task \/ \E i \in Tasks : Free(i) /\ task' = [task EXCEPT ![i] = Queued]
  PROVE  NoNewHolder
<1>1. Queued.pc = "queued"
  BY DEF Queued, Idle
<1>2. CASE UNCHANGED task
  BY <1>2 DEF NoNewHolder, Holding, Msg
<1>3. CASE \E i \in Tasks : task' = [task EXCEPT ![i] = Queued]
  BY <1>1, <1>3, HoldsNothing
<1>. QED BY <1>2, <1>3

LEMMA ArriveKeeps ==
  ASSUME CoreInv, HandoffInv, NEW m \in Messages, Arrive(m)
  PROVE  HandoffInv'
<1>0. TaskInv /\ UNCHANGED <<expires, handoffs, bypassed>> /\ m \notin Arrived
  BY DEF Arrive, CoreInv
<1>1. /\ Arrived' = Arrived \cup {m}
      /\ \A o \in Arrived : date'[o] = date[o] /\ (o \in ahead' <=> o \in ahead)
      /\ ahead \subseteq ahead'
  <2>1. now \in Nat /\ ahead \subseteq Messages
    BY DEF CoreInv, TypeOK
  <2>. QED BY <2>1, ArriveInbox DEF CoreInv, TypeOK
<1>2. NoNewHolder
  BY <1>0, SpawnHolds DEF Arrive
<1>3. KeyInv'
  BY <1>0, <1>1 DEF HandoffInv, KeyInv
<1>4. OnceInv'
  <2>1. ASSUME NEW o \in Messages \ (bypassed \cup ahead')
        PROVE  o \notin ahead
    BY <1>1, <2>1
  <2>. QED BY <1>0, <1>2, <2>1 DEF HandoffInv, OnceInv, NoNewHolder
<1>. QED BY <1>3, <1>4 DEF HandoffInv

LEMMA HandoffInvStep == CoreInv /\ HandoffInv /\ [Next]_vars => HandoffInv'
<1>. SUFFICES ASSUME CoreInv, HandoffInv, [Next]_vars PROVE HandoffInv'
  OBVIOUS
<1>1. ASSUME NEW i \in Tasks, Worker(i) PROVE HandoffInv'
  BY <1>1, DedupKeeps, EnqueueKeeps, OtherKeeps
<1>2. ASSUME NEW i \in Tasks, Expire(i) PROVE HandoffInv'
  BY <1>2, AbortKeeps DEF Expire
<1>3. CASE Crash
  <2>1. {i \in Tasks : Running(i) \/ At(i, "done")} \in SUBSET Tasks
    OBVIOUS
  <2>. QED BY <1>3, <2>1, AbortKeeps DEF Crash
<1>4. CASE Update
  <2>1. NoNewHolder
    BY <1>4, SpawnHolds DEF Update, CoreInv
  <2>. QED BY <1>4, <2>1, QuietStep DEF Update, history
<1>5. ASSUME NEW m \in Messages, Arrive(m) PROVE HandoffInv'
  BY <1>5, ArriveKeeps
<1>6. CASE UNCHANGED <<inbox, ahead, bypassed, expires, handoffs, task>>
  BY <1>6, QuietStep DEF NoNewHolder, Holding, Msg
<1>. QED BY <1>1, <1>2, <1>3, <1>4, <1>5, <1>6 DEF Next, Tick, Process, vars, history

LEMMA HandoffCorrect == Spec => [](CoreInv /\ HandoffInv)
<1>1. Init => HandoffInv
  BY DEF Init, HandoffInv, KeyInv, OnceInv, Holding, Idle
<1>. QED BY <1>1, InitCore, CoreStep, HandoffInvStep, PTL DEF Spec

\* Every step is one of Handoff, or leaves arrivals, hand-offs and exemptions alone.
LEMMA StepRefines ==
  ASSUME CoreInv, HandoffInv, [Next]_vars
  PROVE  [H!Next]_H!vars
<1>1. ASSUME UNCHANGED <<inbox, handoffs, bypassed, ahead>> PROVE UNCHANGED H!vars
  BY <1>1 DEF H!vars, inbox, Arrived
<1>2. ASSUME NEW m \in Messages, Arrive(m) PROVE H!Arrive(m)
  <2>1. /\ Arrived' = Arrived \cup {m} /\ m \notin Arrived
        /\ ahead' \in {ahead, ahead \cup {m}}
    <3>1. now \in Nat /\ ahead \subseteq Messages
      BY DEF CoreInv, TypeOK
    <3>. QED BY <1>2, <3>1, ArriveInbox DEF CoreInv, TypeOK
  <2>2. UNCHANGED <<handoffs, bypassed>>
    BY <1>2 DEF Arrive
  <2>3. (bypassed \cup ahead)' \in {bypassed \cup ahead, (bypassed \cup ahead) \cup {m}}
    BY <2>1, <2>2
  <2>. QED BY <2>1, <2>2, <2>3 DEF H!Arrive
<1>3. ASSUME NEW i \in Tasks, Dedup(i) PROVE [H!Next]_H!vars
  <2>1. Msg(i) \in Messages /\ Msg(i) \in Arrived
    BY <1>3, HeadArrived DEF Dedup, CoreInv
  <2>2. /\ UNCHANGED <<inbox, handoffs, ahead>>
        /\ bypassed' \in {bypassed, bypassed \cup {Msg(i)}}
    BY <1>3 DEF Dedup
  <2>3. Arrived' = Arrived
    BY <2>2 DEF inbox, Arrived
  <2>4. CASE bypassed' = bypassed
    BY <1>1, <2>2, <2>4
  <2>5. CASE bypassed' = bypassed \cup {Msg(i)}
    <3>1. H!Exempt(Msg(i))
      BY <2>1, <2>2, <2>3, <2>5 DEF H!Exempt
    <3>. QED BY <2>1, <3>1 DEF H!Next
  <2>. QED BY <2>2, <2>4, <2>5
<1>4. ASSUME NEW i \in Tasks, Enqueue(i) PROVE [H!Next]_H!vars
  <2>1. task[i].todo # <<>> /\ UNCHANGED <<inbox, bypassed, ahead>> /\ Holding(i, Msg(i))
    BY <1>4 DEF Enqueue, At, CoreInv, TaskInv, GoodTask, Holding
  <2>2. Msg(i) \in Messages /\ Msg(i) \in Arrived /\ Arrived' = Arrived
    BY <2>1, HeadArrived DEF CoreInv, inbox, Arrived
  <2>3. handoffs[Msg(i)] = 0 \/ Msg(i) \in bypassed \cup ahead
    BY <2>1, <2>2 DEF HandoffInv, OnceInv
  <2>4. CASE handoffs' = handoffs
    BY <1>1, <2>1, <2>4
  <2>5. CASE handoffs' = [handoffs EXCEPT ![Msg(i)] = @ + 1]
    <3>1. H!HandOff(Msg(i))
      BY <2>1, <2>2, <2>3, <2>5 DEF H!HandOff
    <3>. QED BY <2>2, <3>1 DEF H!Next
  <2>. QED BY <1>4, <2>4, <2>5 DEF Enqueue
<1>5. ASSUME NEW i \in Tasks, Worker(i) PROVE [H!Next]_H!vars
  <2>1. CASE Dedup(i) \/ Enqueue(i)
    BY <2>1, <1>3, <1>4
  <2>2. CASE ~Dedup(i) /\ ~Enqueue(i)
    <3>1. UNCHANGED <<inbox, handoffs, bypassed, ahead>>
      BY <1>5, <2>2 DEF Worker, Lookup, Envelopes, Rules, Body, Finish, Ack, history
    <3>. QED BY <1>1, <3>1
  <2>. QED BY <2>1, <2>2
<1>6. ASSUME NEW i \in Tasks, Expire(i) PROVE UNCHANGED H!vars
  BY <1>1, <1>6 DEF Expire, Abort
<1>7. CASE Tick \/ Crash \/ Update \/ (\E m \in Messages : Process(m)) \/ UNCHANGED vars
  <2>1. UNCHANGED <<inbox, handoffs, bypassed, ahead>>
    BY <1>7 DEF Tick, Crash, Abort, Update, Process, vars, history
  <2>. QED BY <1>1, <2>1
<1>. QED BY <1>2, <1>5, <1>6, <1>7 DEF Next, H!Next

\* ImplementsHandoff: however many fetches read the same last messages again, with
\* failures and crashes between them, a message is handed off at most once - unless
\* Redis failed its dedup check or its sender dated it too far ahead.
THEOREM ImapImplementsHandoff == Spec => ImplementsHandoff
<1>1. Init => H!Init
  BY DEF Init, H!Init, Arrived
<1>2. CoreInv /\ HandoffInv /\ [Next]_vars => [H!Next]_H!vars
  BY StepRefines
<1>. QED BY <1>1, <1>2, HandoffCorrect, PTL DEF Spec, ImplementsHandoff, H!Spec
=============================================================================
