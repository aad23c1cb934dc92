-------------------------- MODULE GmailFetchProofs --------------------------
(* Theorems of GmailFetch, for any messages, number of tasks and failures,  *)
(* page, window, key lifetime and clock.                                    *)
EXTENDS GmailFetch, FiniteSetTheorems, TLAPS

USE GmailAssumption DEF GmailAssumption

-----------------------------------------------------------------------------
(* The pages of history.list and messages.list.                            *)

\* The history ids after h are ids of messages: the history can be listed from h.
Known(h, f, L) == h \in 0..L /\ (h # 0 => \A k \in (h + 1)..L : \E m \in Messages : f[m] = k)

\* Since(h) holds exactly the messages with the ids it reaches.
LEMMA SinceLists ==
  ASSUME latestHid \in Nat, NEW h, h # 0, Known(h, hid, latestHid),
         \A m \in Messages : hid[m] \in Nat,
         \A m, o \in Messages : hid[m] = hid[o] /\ hid[m] # 0 => m = o
  PROVE  /\ Since(h) \in Seq(Messages)
         /\ \E n \in 0..(latestHid - h) :
              /\ Len(Since(h)) = n
              /\ \A k \in 1..n : hid[Since(h)[k]] = h + k
              /\ \A m \in Messages : hid[m] \in (h + 1)..(h + n) => m \in Elements(Since(h))
<1>. DEFINE n == IF latestHid - h < Page THEN latestHid - h ELSE Page
            Kth(k) == CHOOSE m \in Messages : hid[m] = h + k
<1>1. h \in 1..latestHid /\ n \in 0..(latestHid - h)
  BY DEF Known
<1>2. ASSUME NEW k \in 1..n PROVE Kth(k) \in Messages /\ hid[Kth(k)] = h + k
  <2>1. h + k \in (h + 1)..latestHid
    BY <1>1
  <2>2. \E m \in Messages : hid[m] = h + k
    BY <2>1 DEF Known
  <2>. QED BY <2>2
<1>3. Since(h) = [k \in 1..n |-> Kth(k)]
  BY DEF Since
<1>. HIDE DEF Kth, n
<1>4. Since(h) \in Seq(Messages) /\ Len(Since(h)) = n /\ DOMAIN Since(h) = 1..n
  BY <1>1, <1>2, <1>3
<1>5. \A k \in 1..n : Since(h)[k] = Kth(k)
  BY <1>3
<1>6. ASSUME NEW m \in Messages, hid[m] \in (h + 1)..(h + n)
      PROVE  m \in Elements(Since(h))
  <2>. DEFINE k == hid[m] - h
  <2>1. k \in 1..n /\ hid[m] = h + k
    BY <1>1, <1>6
  <2>2. hid[Kth(k)] = h + k /\ Kth(k) \in Messages
    BY <2>1, <1>2
  <2>3. m = Kth(k)
    BY <2>1, <2>2, <1>1
  <2>. QED BY <1>4, <1>5, <2>1, <2>3 DEF Elements
<1>. QED BY <1>1, <1>2, <1>4, <1>5, <1>6

\* The elements of a finite set are ranked 1, 2, .. by a number each has for itself.
Rank(S, f, m) == Cardinality({o \in S : f[o] >= f[m]})

LEMMA RankGrows ==
  ASSUME NEW S, IsFiniteSet(S), NEW f, \A m \in S : f[m] \in Int,
         \A m, o \in S : f[m] = f[o] => m = o
  PROVE  /\ \A m \in S : Rank(S, f, m) \in 1..Cardinality(S)
         /\ \A m, o \in S : Rank(S, f, m) = Rank(S, f, o) => m = o
<1>. DEFINE From(m) == {o \in S : f[o] >= f[m]}
<1>1. ASSUME NEW m \in S PROVE Cardinality(From(m)) \in 1..Cardinality(S)
  <2>1. From(m) \in SUBSET S /\ m \in From(m)
    OBVIOUS
  <2>2. IsFiniteSet(From(m)) /\ Cardinality(From(m)) <= Cardinality(S)
    BY <2>1, FS_Subset
  <2>3. Cardinality(From(m)) # 0
    BY <2>1, <2>2, FS_EmptySet
  <2>. QED BY <2>2, <2>3, FS_CardinalityType
<1>2. ASSUME NEW m \in S, NEW o \in S, Cardinality(From(m)) = Cardinality(From(o)), f[m] >= f[o]
      PROVE  m = o
  <2>1. From(m) \in SUBSET From(o) /\ From(o) \in SUBSET S
    BY <1>2
  <2>2. IsFiniteSet(From(o))
    BY <2>1, FS_Subset
  <2>3. From(o) = From(m)
    BY <2>1, <2>2, <1>2, FS_Subset
  <2>4. f[o] >= f[m]
    BY <2>3
  <2>. QED BY <1>2, <2>4
<1>3. \A m \in S : Rank(S, f, m) = Cardinality(From(m))
  BY DEF Rank
<1>4. ASSUME NEW m \in S, NEW o \in S, Rank(S, f, m) = Rank(S, f, o) PROVE m = o
  <2>1. f[m] >= f[o] \/ f[o] >= f[m]
    OBVIOUS
  <2>. QED BY <2>1, <1>2, <1>3, <1>4
<1>. QED BY <1>1, <1>3, <1>4

\* Every rank up to their number is taken.
LEMMA RankedOnce ==
  ASSUME NEW S, IsFiniteSet(S), NEW f, \A m \in S : f[m] \in Int,
         \A m, o \in S : f[m] = f[o] => m = o,
         NEW k \in 1..Cardinality(S)
  PROVE  \E m \in S : Rank(S, f, m) = k
<1>. DEFINE n == Cardinality(S)
            r == [m \in S |-> Rank(S, f, m)]
<1>1. n \in Nat
  BY FS_CardinalityType
<1>2. r \in Injection(S, 1..n)
  <2>1. r \in [S -> 1..n]
    BY RankGrows
  <2>2. \A a, b \in S : r[a] = r[b] => a = b
    BY RankGrows
  <2>. HIDE DEF r
  <2>. QED BY <2>1, <2>2 DEF Injection, IsInjective
<1>3. IsFiniteSet(1..n) /\ Cardinality(1..n) = n
  BY <1>1, FS_Interval
<1>4. r \in Surjection(S, 1..n)
  BY <1>2, <1>3, FS_Injection
<1>5. \E m \in S : r[m] = k
  <2>. HIDE DEF r
  <2>. QED BY <1>4 DEF Surjection
<1>. QED BY <1>5

\* Listed names messages of the window.
LEMMA ListedTyped ==
  ASSUME NEW i \in Tasks, \A m \in Arrived : hid[m] \in Nat,
         \A m, o \in Arrived : hid[m] = hid[o] => m = o
  PROVE  Listed(i) \in Seq(Messages) /\ \A k \in 1..Len(Listed(i)) : Listed(i)[k] \in Arrived
<1>. DEFINE S == InWindow(i)
            Kth(k) == CHOOSE m \in S : Cardinality({o \in S : hid[o] >= hid[m]}) = k
            n == IF Cardinality(S) < Page THEN Cardinality(S) ELSE Page
<1>1. S \in SUBSET Arrived /\ S \in SUBSET Messages
  BY DEF InWindow, Arrived
<1>2. IsFiniteSet(S) /\ Cardinality(S) \in Nat
  BY <1>1, FS_Subset, FS_CardinalityType
<1>3. n \in Nat /\ n <= Cardinality(S)
  BY <1>2
<1>. HIDE DEF S
<1>4. ASSUME NEW k \in 1..n PROVE Kth(k) \in S
  <2>1. k \in 1..Cardinality(S)
    BY <1>2, <1>3
  <2>2. \E m \in S : Rank(S, hid, m) = k
    BY <1>1, <1>2, <2>1, RankedOnce
  <2>. QED BY <2>2 DEF Rank
<1>. HIDE DEF Kth
<1>5. Listed(i) = [k \in 1..n |-> Kth(k)]
  BY DEF Listed, Kth, S
<1>. QED BY <1>1, <1>3, <1>4, <1>5

-----------------------------------------------------------------------------
(* Types.  GoodTask says of a task what its handler relies on: A is what has *)
(* arrived, t the time, s the last sync, f and L the history ids of the      *)
(* messages and of the mailbox.                                              *)

TaskType(L) == [pc : PCs, retried : 0..MaxRetry, begun : Nat, snap : Nat \cup {Null}, cur : Nat,
                start : Int, todo : Seq(Messages), latest : 0..L]

LoopPCs == {"dedup", "meta", "full", "enqueue"}

GoodTask(x, A, t, s, f, L) ==
  /\ x \in TaskType(L)
  /\ Known(x.cur, f, L)
  /\ x.pc \in {"meta", "full", "enqueue"} => x.todo # <<>>
  /\ \A k \in 1..Len(x.todo) : x.todo[k] \in A
  /\ x.latest \in {0} \cup {f[m] : m \in A}
  /\ x.pc \notin {"none", "queued", "done"} => x.begun <= t /\ t <= x.begun + Timeout
  /\ x.pc \in {"token", "history"} => x.snap \in 0..s
  /\ x.pc \in {"list", "rules"} \cup LoopPCs =>
       /\ x.start >= x.begun - Window
       /\ x.start <= t - Window \/ x.start <= s

Good(x) == GoodTask(x, Arrived, now, lastSync, hid, latestHid)
TaskInv == task \in [Tasks -> TaskType(latestHid)] /\ \A i \in Tasks : Good(task[i])

\* The messages that arrived have ids of their own, and what is saved or about to be
\* saved as the cursor is an id the history goes on from.
MailboxInv ==
  /\ \A m \in Messages : IF m \in Arrived THEN hid[m] \in 1..latestHid /\ received[m] \in 0..now
                                          ELSE hid[m] = 0
  /\ \A m, o \in Arrived : hid[m] = hid[o] => m = o
  /\ \A m \in Arrived : Known(hid[m], hid, latestHid)
  /\ lastSync <= now
  /\ Known(cursor, hid, latestHid)
  /\ renewal # Null => Known(renewal, hid, latestHid)
  /\ \A m \in Messages : handoffs[m] > 0 \/ expires[m] # Null => m \in Arrived

CoreInv == TypeOK /\ TaskInv /\ MailboxInv

LEMMA CoreTypes ==
  ASSUME CoreInv
  PROVE  /\ now \in Nat /\ lastSync \in Nat /\ latestHid \in Nat /\ cursor \in Nat /\ base \in Nat
         /\ Arrived \in SUBSET Messages /\ Known(cursor, hid, latestHid)
         /\ \A m \in Arrived : hid[m] \in 1..latestHid /\ received[m] \in 0..now
         /\ \A m \in Messages : hid[m] \in 0..latestHid /\ handoffs[m] \in Nat
         /\ \A m, o \in Messages : hid[m] = hid[o] /\ hid[m] # 0 => m = o
<1>1. \A m \in Messages : hid[m] # 0 => m \in Arrived
  BY DEF CoreInv, MailboxInv
<1>. QED BY <1>1 DEF CoreInv, MailboxInv, TypeOK, Arrived

LEMMA KnownZero == ASSUME NEW f, NEW L \in Nat PROVE Known(0, f, L)
  BY DEF Known

\* The other fields of a task one of whose fields is set.
LEMMA SetPc ==
  ASSUME NEW L \in Nat, NEW x \in TaskType(L), NEW p \in PCs
  PROVE  LET z == [x EXCEPT !.pc = p]
         IN  /\ z \in TaskType(L) /\ z.pc = p /\ z.todo = x.todo /\ z.begun = x.begun
             /\ z.start = x.start /\ z.snap = x.snap /\ z.cur = x.cur /\ z.latest = x.latest
  BY DEF TaskType

LEMMA SetTodo ==
  ASSUME NEW L \in Nat, NEW x \in TaskType(L), NEW q \in Seq(Messages)
  PROVE  LET z == [x EXCEPT !.todo = q]
         IN  /\ z \in TaskType(L) /\ z.pc = x.pc /\ z.todo = q /\ z.begun = x.begun
             /\ z.start = x.start /\ z.snap = x.snap /\ z.cur = x.cur /\ z.latest = x.latest
  BY DEF TaskType

LEMMA SetLatest ==
  ASSUME NEW L \in Nat, NEW x \in TaskType(L), NEW l \in 0..L
  PROVE  LET z == [x EXCEPT !.latest = l]
         IN  /\ z \in TaskType(L) /\ z.pc = x.pc /\ z.todo = x.todo /\ z.begun = x.begun
             /\ z.start = x.start /\ z.snap = x.snap /\ z.cur = x.cur /\ z.latest = l
  BY DEF TaskType

WindowFrom(x, f)  == [[x EXCEPT !.start = f] EXCEPT !.snap = Null]
Opened(x, b, s, c) == [[[x EXCEPT !.begun = b] EXCEPT !.snap = s] EXCEPT !.cur = c]

\* Tasks no handler runs.
Stopped(x) == x \in {Idle, Finished, Queued} \cup {[Queued EXCEPT !.retried = n] : n \in 0..MaxRetry}

LEMMA StoppedTask ==
  ASSUME NEW x, Stopped(x)
  PROVE  /\ x.pc \in {"none", "queued", "done"} /\ x.todo = <<>> /\ x.cur = 0 /\ x.latest = 0
         /\ \A L \in Nat : x \in TaskType(L)
<1>1. 0 \in 0..MaxRetry
  OBVIOUS
<1>2. Idle.pc = "none" /\ Idle.todo = <<>> /\ Idle.cur = 0 /\ Idle.latest = 0
      /\ \A L \in Nat : Idle \in TaskType(L)
  BY <1>1 DEF Idle, TaskType, PCs
<1>3. ASSUME NEW p \in {"queued", "done"}
      PROVE  LET y == [Idle EXCEPT !.pc = p]
             IN  /\ y.pc = p /\ y.todo = <<>> /\ y.cur = 0 /\ y.latest = 0
                 /\ \A L \in Nat : y \in TaskType(L)
  <2>1. p \in PCs
    BY DEF PCs
  <2>2. Idle \in TaskType(0)
    BY <1>2
  <2>3. \A L \in Nat : [Idle EXCEPT !.pc = p] \in TaskType(L)
    BY <1>2, <2>1, SetPc
  <2>. QED BY <1>2, <2>1, <2>2, <2>3, SetPc
<1>4. ASSUME NEW n \in 0..MaxRetry
      PROVE  LET y == [Queued EXCEPT !.retried = n]
             IN  /\ y.pc = "queued" /\ y.todo = <<>> /\ y.cur = 0 /\ y.latest = 0
                 /\ \A L \in Nat : y \in TaskType(L)
  <2>1. /\ Queued.pc = "queued" /\ Queued.todo = <<>> /\ Queued.cur = 0 /\ Queued.latest = 0
        /\ \A L \in Nat : Queued \in TaskType(L)
    BY <1>3 DEF Queued
  <2>2. Queued \in TaskType(0)
    BY <2>1
  <2>. HIDE DEF Queued
  <2>. QED BY <2>1, <2>2 DEF TaskType
<1>5. CASE x = Finished
  BY <1>3, <1>5 DEF Finished
<1>6. CASE x = Queued
  BY <1>3, <1>6 DEF Queued
<1>7. CASE \E n \in 0..MaxRetry : x = [Queued EXCEPT !.retried = n]
  BY <1>4, <1>7
<1>. QED BY <1>2, <1>5, <1>6, <1>7 DEF Stopped

LEMMA StoppedIsGood ==
  ASSUME NEW x, Stopped(x), NEW A, NEW t, NEW s, NEW f, NEW L \in Nat
  PROVE  GoodTask(x, A, t, s, f, L)
  BY StoppedTask, KnownZero DEF GoodTask, LoopPCs

\* Time, syncs and arrivals do not spoil a task.
LEMMA StillGood ==
  ASSUME NEW x, NEW A, NEW t \in Nat, NEW s \in Nat, NEW f, NEW L \in Nat,
         GoodTask(x, A, t, s, f, L),
         NEW B, NEW u \in Nat, NEW r \in Nat, NEW g, NEW M \in Nat,
         A \subseteq B, t <= u, s <= r, L <= M, \A m \in A : g[m] = f[m],
         \A h : Known(h, f, L) => Known(h, g, M),
         x.pc \notin {"none", "queued", "done"} => u <= x.begun + Timeout
  PROVE  GoodTask(x, B, u, r, g, M)
<1>1. x \in TaskType(L) /\ x.begun \in Nat /\ x.start \in Int
  BY DEF GoodTask, TaskType
<1>2. x \in TaskType(M)
  <2>1. 0..L \subseteq 0..M
    OBVIOUS
  <2>. QED BY <1>1, <2>1 DEF TaskType
<1>3. Known(x.cur, g, M) /\ x.latest \in {0} \cup {g[m] : m \in B}
  BY DEF GoodTask
<1>4. x.pc \notin {"none", "queued", "done"} => x.begun <= u /\ u <= x.begun + Timeout
  BY <1>1 DEF GoodTask
<1>5. x.pc \in {"token", "history"} => x.snap \in 0..r
  BY DEF GoodTask
<1>6. x.pc \in {"list", "rules"} \cup LoopPCs =>
        x.start >= x.begun - Window /\ (x.start <= u - Window \/ x.start <= r)
  BY <1>1 DEF GoodTask
<1>. QED BY <1>2, <1>3, <1>4, <1>5, <1>6 DEF GoodTask

-----------------------------------------------------------------------------
(* What a step makes of its handler's task.                                *)

MovedTo(x, p) == [x EXCEPT !.pc = p]
\* `continue`
Skipped(x)    == [[x EXCEPT !.pc = "dedup"] EXCEPT !.todo = Tail(x.todo)]
ReadUpTo(x, l) == [x EXCEPT !.latest = l]

LEMMA MovedGood ==
  ASSUME CoreInv, NEW x, Good(x), NEW p,
         \/ x.pc = "token" /\ p = "history"
         \/ x.pc \in {"rules"} \cup LoopPCs /\ p = "dedup"
         \/ x.pc \in LoopPCs /\ p \in {"meta", "full", "enqueue"} /\ x.todo # <<>>
  PROVE  LET y == MovedTo(x, p)
         IN  /\ Good(y) /\ y.pc = p /\ y.todo = x.todo /\ y.cur = x.cur /\ y.latest = x.latest
             /\ y.start = x.start
<1>. DEFINE y == MovedTo(x, p)
<1>1. p \in PCs /\ latestHid \in Nat /\ x \in TaskType(latestHid)
  BY CoreTypes DEF PCs, LoopPCs, Good, GoodTask
<1>2. /\ y \in TaskType(latestHid) /\ y.pc = p /\ y.todo = x.todo /\ y.begun = x.begun
      /\ y.start = x.start /\ y.snap = x.snap /\ y.cur = x.cur /\ y.latest = x.latest
  BY <1>1, SetPc DEF MovedTo
<1>. HIDE DEF y
<1>3. GoodTask(y, Arrived, now, lastSync, hid, latestHid)
  BY <1>2 DEF Good, GoodTask, LoopPCs
<1>. QED BY <1>2, <1>3 DEF Good, y

LEMMA SequenceParts ==
  ASSUME NEW q \in Seq(Messages), q # <<>>
  PROVE  /\ Tail(q) \in Seq(Messages) /\ Head(q) \in Messages
         /\ Elements(q) = {Head(q)} \cup Elements(Tail(q))
<1>1. /\ Len(q) \in Nat /\ Len(q) > 0 /\ DOMAIN q = 1..Len(q)
      /\ Len(Tail(q)) = Len(q) - 1 /\ DOMAIN Tail(q) = 1..(Len(q) - 1)
      /\ \A k \in 1..(Len(q) - 1) : Tail(q)[k] = q[k + 1]
      /\ Head(q) = q[1] /\ Tail(q) \in Seq(Messages)
  OBVIOUS
<1>2. ASSUME NEW k \in 1..Len(q), k # 1
      PROVE  k - 1 \in 1..(Len(q) - 1) /\ q[k] = Tail(q)[k - 1]
  BY <1>1, <1>2
<1>3. \A k \in 1..(Len(q) - 1) : k + 1 \in 1..Len(q)
  BY <1>1
<1>4. 1 \in 1..Len(q)
  BY <1>1
<1>. DEFINE t == Tail(q)
            h == Head(q)
            n == Len(q)
<1>5. /\ DOMAIN q = 1..n /\ DOMAIN t = 1..(n - 1) /\ h = q[1] /\ 1 \in 1..n
      /\ \A k \in 1..n : k = 1 \/ (k - 1 \in 1..(n - 1) /\ q[k] = t[k - 1])
      /\ \A k \in 1..(n - 1) : k + 1 \in 1..n /\ t[k] = q[k + 1]
  BY <1>1, <1>2, <1>3, <1>4
<1>. HIDE DEF t, h, n
<1>6. Elements(q) \subseteq {h} \cup Elements(t)
  BY <1>5 DEF Elements
<1>7. {h} \cup Elements(t) \subseteq Elements(q)
  BY <1>5 DEF Elements
<1>8. Elements(q) = {h} \cup Elements(t)
  BY <1>6, <1>7
<1>. QED BY <1>1, <1>4, <1>8 DEF t, h

LEMMA SkippedGood ==
  ASSUME CoreInv, NEW x, Good(x), x.pc \in LoopPCs, x.todo # <<>>
  PROVE  LET y == Skipped(x)
         IN  /\ Good(y) /\ y.pc = "dedup" /\ y.todo = Tail(x.todo) /\ y.cur = x.cur
             /\ y.latest = x.latest /\ y.start = x.start
<1>. DEFINE y == MovedTo(x, "dedup")
            q == Tail(x.todo)
            z == [y EXCEPT !.todo = q]
<1>1. /\ Good(y) /\ y.pc = "dedup" /\ y.todo = x.todo /\ y.cur = x.cur
      /\ y.latest = x.latest /\ y.start = x.start
  BY MovedGood
<1>2. x.todo \in Seq(Messages) /\ Elements(x.todo) \subseteq Arrived
  BY SMTT(40) DEF Good, GoodTask, TaskType, Elements
<1>3. q \in Seq(Messages) /\ \A k \in 1..Len(q) : q[k] \in Arrived
  <2>1. q \in Seq(Messages) /\ Elements(q) \subseteq Arrived
    BY <1>2, SequenceParts
  <2>. HIDE DEF q
  <2>. QED BY <2>1 DEF Elements
<1>. HIDE DEF y, q
<1>4. latestHid \in Nat /\ y \in TaskType(latestHid)
  BY <1>1, CoreTypes DEF Good, GoodTask
<1>5. /\ z \in TaskType(latestHid) /\ z.pc = "dedup" /\ z.todo = q /\ z.begun = y.begun
      /\ z.start = y.start /\ z.snap = y.snap /\ z.cur = y.cur /\ z.latest = y.latest
  BY <1>1, <1>3, <1>4, SetTodo
<1>6. Skipped(x) = z
  BY DEF Skipped, MovedTo, y, q
<1>. HIDE DEF z
<1>7. GoodTask(z, Arrived, now, lastSync, hid, latestHid)
  BY <1>1, <1>3, <1>5 DEF Good, GoodTask, LoopPCs
<1>. QED BY <1>1, <1>5, <1>6, <1>7 DEF Good, q

LEMMA ReadGood ==
  ASSUME CoreInv, NEW x, Good(x), NEW l \in {0, x.latest} \cup {hid[m] : m \in Arrived}
  PROVE  LET y == ReadUpTo(x, l)
         IN  /\ Good(y) /\ y.pc = x.pc /\ y.todo = x.todo /\ y.cur = x.cur
             /\ y.latest = l /\ y.start = x.start
<1>. DEFINE y == ReadUpTo(x, l)
<1>1. latestHid \in Nat /\ x \in TaskType(latestHid)
  BY CoreTypes DEF Good, GoodTask
<1>2. l \in 0..latestHid /\ l \in {0} \cup {hid[m] : m \in Arrived}
  BY <1>1, CoreTypes, SMTT(40) DEF Good, GoodTask, TaskType
<1>3. /\ y \in TaskType(latestHid) /\ y.pc = x.pc /\ y.todo = x.todo /\ y.begun = x.begun
      /\ y.start = x.start /\ y.snap = x.snap /\ y.cur = x.cur /\ y.latest = l
  BY <1>1, <1>2, SetLatest DEF ReadUpTo
<1>. HIDE DEF y
<1>4. GoodTask(y, Arrived, now, lastSync, hid, latestHid)
  BY <1>2, <1>3 DEF Good, GoodTask, LoopPCs
<1>. QED BY <1>3, <1>4 DEF Good, y

\* The handlers of S stop, and tasks may be queued.
Settles(S) ==
  /\ task' \in [Tasks -> TaskType(latestHid)]
  /\ \A j \in Tasks : /\ j \in S => Stopped(task'[j])
                      /\ j \notin S => task'[j] = task[j] \/ (Free(j) /\ Stopped(task'[j]))

\* The handler of task i is left with y.
Moves(i, y) == task' = [task EXCEPT ![i] = y] /\ Good(y)

LEMMA FailedTask ==
  ASSUME CoreInv, NEW i \in Tasks
  PROVE  Stopped(AfterError(i))
<1>1. task[i].retried \in 0..MaxRetry
  BY DEF CoreInv, TaskInv, TaskType
<1>2. task[i].retried < MaxRetry => task[i].retried + 1 \in 0..MaxRetry
  BY <1>1
<1>. QED BY <1>1, <1>2 DEF AfterError, Stopped

LEMMA SettleOne ==
  ASSUME CoreInv, NEW i \in Tasks, NEW x, Stopped(x), task' = [task EXCEPT ![i] = x]
  PROVE  Settles({i}) /\ (Free(i) => Settles({}))
<1>1. task \in [Tasks -> TaskType(latestHid)] /\ x \in TaskType(latestHid)
  BY StoppedTask, CoreTypes DEF CoreInv, TaskInv
<1>. HIDE DEF Stopped
<1>. QED BY <1>1 DEF Settles, Free, At

LEMMA ReturnSettles ==
  ASSUME CoreInv, NEW i \in Tasks, ReturnErr(i) \/ ReturnNil(i)
  PROVE  Settles({i})
<1>1. Stopped(Finished)
  BY DEF Stopped
<1>. QED BY <1>1, FailedTask, SettleOne DEF ReturnErr, ReturnNil

LEMMA RescheduleSettles ==
  ASSUME CoreInv, NEW i \in Tasks, ~Free(i), Reschedule(i)
  PROVE  Settles({i})
<1>1. CASE ReturnNil(i)
  BY <1>1, ReturnSettles
<1>2. CASE \E j \in Tasks : Free(j) /\ task' = [task EXCEPT ![i] = Finished, ![j] = Queued]
  <2>1. PICK j \in Tasks : Free(j) /\ task' = [task EXCEPT ![i] = Finished, ![j] = Queued]
    BY <1>2
  <2>2. Stopped(Finished) /\ Stopped(Queued)
    BY DEF Stopped
  <2>3. /\ task \in [Tasks -> TaskType(latestHid)]
        /\ Finished \in TaskType(latestHid) /\ Queued \in TaskType(latestHid)
    BY <2>2, StoppedTask, CoreTypes DEF CoreInv, TaskInv
  <2>4. j # i
    BY <2>1
  <2>. HIDE DEF Stopped, Queued, Finished
  <2>. QED BY <2>1, <2>2, <2>3, <2>4 DEF Settles, Free, At
<1>. QED BY <1>1, <1>2 DEF Reschedule

LEMMA GotoMoves ==
  ASSUME CoreInv, NEW i \in Tasks, NEW p, Goto(i, p), LET x == task[i] IN
         \/ x.pc = "token" /\ p = "history"
         \/ x.pc \in {"rules"} \cup LoopPCs /\ p = "dedup"
         \/ x.pc \in LoopPCs /\ p \in {"meta", "full", "enqueue"} /\ x.todo # <<>>
  PROVE  Moves(i, MovedTo(task[i], p))
<1>1. task' = [task EXCEPT ![i] = MovedTo(task[i], p)]
  BY DEF Goto, MovedTo, CoreInv, TaskInv
<1>2. Good(task[i])
  BY DEF CoreInv, TaskInv
<1>. QED BY <1>1, <1>2, MovedGood DEF Moves

LEMMA SkipMoves ==
  ASSUME CoreInv, NEW i \in Tasks, Skip(i), task[i].pc \in LoopPCs, task[i].todo # <<>>
  PROVE  Moves(i, Skipped(task[i]))
<1>1. task' = [task EXCEPT ![i] = Skipped(task[i])]
  BY DEF Skip, Skipped, CoreInv, TaskInv
<1>2. Good(task[i])
  BY DEF CoreInv, TaskInv
<1>. QED BY <1>1, <1>2, SkippedGood DEF Moves

-----------------------------------------------------------------------------
(* The steps of a handler, one by one.                                     *)

LEMMA LookupMoves ==
  ASSUME CoreInv, NEW i \in Tasks, Lookup(i)
  PROVE  \/ Settles({i})
         \/ \E y : Moves(i, y) /\ y.pc = "token" /\ y.cur = cursor
<1>1. CASE ReturnNil(i) \/ ReturnErr(i)
  BY <1>1, ReturnSettles
<1>2. CASE ~(ReturnNil(i) \/ ReturnErr(i))
  <2>. DEFINE x == task[i]
              y == [x EXCEPT !.pc = "token"]
              z == Opened(y, now, lastSync, cursor)
  <2>1. task' = [task EXCEPT ![i] = z]
    BY <1>2 DEF Lookup, CoreInv, TaskInv, Opened
  <2>2. Good(x) /\ "token" \in PCs /\ latestHid \in Nat /\ x \in TaskType(latestHid)
    BY CoreTypes DEF CoreInv, TaskInv, PCs
  <2>. HIDE DEF x
  <2>3. /\ y \in TaskType(latestHid) /\ y.pc = "token" /\ y.todo = x.todo
        /\ y.latest = x.latest
    BY <2>2, SetPc
  <2>. HIDE DEF y
  <2>4. /\ z \in TaskType(latestHid) /\ z.pc = "token" /\ z.todo = x.todo /\ z.begun = now
        /\ z.snap = lastSync /\ z.cur = cursor /\ z.latest = x.latest
    <3>1. now \in Nat /\ lastSync \in Nat /\ cursor \in Nat
      BY CoreTypes
    <3>2. /\ z \in TaskType(latestHid) /\ z.pc = y.pc /\ z.todo = y.todo /\ z.begun = now
          /\ z.start = y.start /\ z.snap = lastSync /\ z.cur = cursor /\ z.latest = y.latest
      <4>. HIDE DEF y
      <4>. QED BY <2>2, <2>3, <3>1 DEF TaskType, Opened
    <3>. QED BY <2>3, <3>2
  <2>. HIDE DEF z
  <2>5. GoodTask(z, Arrived, now, lastSync, hid, latestHid)
    BY <2>2, <2>4, CoreTypes DEF Good, GoodTask, LoopPCs
  <2>. QED BY <2>1, <2>4, <2>5 DEF Moves, Good
<1>. QED BY <1>1, <1>2

LEMMA HistoryMoves ==
  ASSUME CoreInv, NEW i \in Tasks, HistoryList(i)
  PROVE  \/ Settles({i})
         \/ \E y : /\ Moves(i, y) /\ y.cur = task[i].cur
                   /\ y.todo \in {<<>>} \cup (IF y.cur # 0 THEN {Since(y.cur)} ELSE {})
                   /\ y.pc = IF y.todo = <<>> THEN "list" ELSE "rules"
                   /\ y.latest \in {0} \cup Ids(y.todo)
<1>1. CASE Reschedule(i)
  BY <1>1, RescheduleSettles DEF HistoryList, Free, At
<1>2. CASE ~Reschedule(i)
  <2>. DEFINE x == task[i]
              f == FilterStart(i)
  <2>0. PICK q \in {<<>>} \cup (IF x.cur # 0 THEN {Since(x.cur)} ELSE {}) :
          \E l \in Latest(Ids(q)) : task' = [task EXCEPT ![i] =
            [x EXCEPT !.pc = IF q = <<>> THEN "list" ELSE "rules",
                      !.start = f, !.snap = Null, !.todo = q, !.latest = l]]
    BY <1>2 DEF HistoryList, CoreInv, TaskInv
  <2>1. PICK l \in Latest(Ids(q)) : task' = [task EXCEPT ![i] =
            [x EXCEPT !.pc = IF q = <<>> THEN "list" ELSE "rules",
                      !.start = f, !.snap = Null, !.todo = q, !.latest = l]]
    BY <2>0
  <2>. DEFINE p == IF q = <<>> THEN "list" ELSE "rules"
              y1 == [x EXCEPT !.pc = p]
              y2 == WindowFrom(y1, f)
              y3 == [y2 EXCEPT !.todo = q]
              z  == [y3 EXCEPT !.latest = l]
  <2>2. /\ Good(x) /\ p \in PCs /\ p \in {"list", "rules"} /\ latestHid \in Nat
        /\ x \in TaskType(latestHid) /\ x.pc = "history"
    BY CoreTypes DEF CoreInv, TaskInv, PCs, HistoryList, At
  <2>3. x.snap \in 0..lastSync /\ x.begun <= now /\ now <= x.begun + Timeout /\ x.begun \in Nat
        /\ Known(x.cur, hid, latestHid) /\ (\A k \in 1..Len(x.todo) : x.todo[k] \in Arrived)
    BY <2>2 DEF Good, GoodTask, TaskType
  <2>4. f \in Int /\ f >= x.begun - Window /\ (f <= now - Window \/ f <= lastSync)
    BY <2>3, CoreTypes, SMTT(40) DEF FilterStart
  <2>5. /\ q \in Seq(Messages) /\ (\A k \in 1..Len(q) : q[k] \in Arrived)
        /\ Ids(q) \subseteq {hid[m] : m \in Arrived}
    <3>1. CASE q = <<>>
      BY <3>1 DEF Ids
    <3>2. CASE q = Since(x.cur) /\ x.cur # 0
      <4>. DEFINE c == x.cur
      <4>0. /\ Known(c, hid, latestHid) /\ latestHid \in Nat /\ c # 0
            /\ \A m \in Messages : hid[m] \in Nat
            /\ \A m, o \in Messages : hid[m] = hid[o] /\ hid[m] # 0 => m = o
        BY <2>3, <3>2, CoreTypes
      <4>1. /\ Since(c) \in Seq(Messages)
            /\ \E n \in 0..(latestHid - c) :
                 /\ Len(Since(c)) = n
                 /\ \A k \in 1..n : hid[Since(c)[k]] = c + k
        <5>. HIDE DEF c
        <5>. QED BY <4>0, SinceLists
      <4>2. x.cur \in Nat
        BY <2>2 DEF TaskType
      <4>3. q \in Seq(Messages) /\ \A k \in 1..Len(q) : q[k] \in Messages /\ hid[q[k]] # 0
        BY <3>2, <4>1, <4>2
      <4>4. \A k \in 1..Len(q) : q[k] \in Arrived
        BY <4>3 DEF CoreInv, MailboxInv
      <4>. QED BY <4>3, <4>4 DEF Ids
    <3>. QED BY <2>0, <3>1, <3>2
  <2>6. l \in {0} \cup Ids(q) /\ l \in 0..latestHid
    <3>1. l \in {0} \cup Ids(q)
      BY <2>1 DEF Latest
    <3>. QED BY <3>1, <2>5, CoreTypes
  <2>. HIDE DEF x, f, p
  <2>7. /\ y1 \in TaskType(latestHid) /\ y1.pc = p /\ y1.begun = x.begun /\ y1.cur = x.cur
    BY <2>2, SetPc
  <2>. HIDE DEF y1
  <2>8. /\ y2 \in TaskType(latestHid) /\ y2.pc = p /\ y2.begun = x.begun /\ y2.cur = x.cur
        /\ y2.start = f
    <3>1. /\ y2 \in TaskType(latestHid) /\ y2.pc = y1.pc /\ y2.begun = y1.begun
          /\ y2.cur = y1.cur /\ y2.start = f
      BY <2>2, <2>4, <2>7 DEF TaskType, WindowFrom
    <3>. QED BY <2>7, <3>1
  <2>. HIDE DEF y2
  <2>9. /\ y3 \in TaskType(latestHid) /\ y3.pc = p /\ y3.begun = x.begun /\ y3.cur = x.cur
        /\ y3.start = f /\ y3.todo = q
    BY <2>2, <2>5, <2>8, SetTodo
  <2>. HIDE DEF y3
  <2>10. /\ z \in TaskType(latestHid) /\ z.pc = p /\ z.begun = x.begun /\ z.cur = x.cur
         /\ z.start = f /\ z.todo = q /\ z.latest = l
    BY <2>2, <2>6, <2>9, SetLatest
  <2>11. task' = [task EXCEPT ![i] = z]
    BY <2>1 DEF x, p, y1, y2, y3, WindowFrom
  <2>. HIDE DEF z
  <2>12. GoodTask(z, Arrived, now, lastSync, hid, latestHid)
    BY <2>2, <2>3, <2>4, <2>5, <2>6, <2>10 DEF GoodTask, LoopPCs
  <2>. QED BY <2>0, <2>6, <2>10, <2>11, <2>12 DEF Moves, Good, x, p
<1>. QED BY <1>1, <1>2

LEMMA ListMoves ==
  ASSUME CoreInv, NEW i \in Tasks, MessagesList(i)
  PROVE  \/ Settles({i})
         \/ \E y : /\ Moves(i, y) /\ y.cur = task[i].cur /\ y.pc = "rules" /\ y.todo = Listed(i)
                   /\ y.latest = task[i].latest
                   /\ crowded' = crowded \cup (InWindow(i) \ Elements(Listed(i)))
<1>1. CASE Reschedule(i) \/ ReturnErr(i) \/ ReturnNil(i)
  BY <1>1, RescheduleSettles, ReturnSettles DEF MessagesList, Free, At
<1>2. CASE ~(Reschedule(i) \/ ReturnErr(i) \/ ReturnNil(i))
  <2>. DEFINE x == task[i]
              q == Listed(i)
              y == [x EXCEPT !.pc = "rules"]
              z == [y EXCEPT !.todo = q]
  <2>1. /\ task' = [task EXCEPT ![i] = z] /\ x.pc = "list"
        /\ crowded' = crowded \cup (InWindow(i) \ Elements(Listed(i)))
    BY <1>2 DEF MessagesList, CoreInv, TaskInv, At
  <2>2. Good(x) /\ "rules" \in PCs /\ latestHid \in Nat /\ x \in TaskType(latestHid)
    BY CoreTypes DEF CoreInv, TaskInv, PCs
  <2>3. q \in Seq(Messages) /\ \A k \in 1..Len(q) : q[k] \in Arrived
    <3>1. \A m \in Arrived : hid[m] \in Nat
      BY CoreTypes
    <3>2. \A m, o \in Arrived : hid[m] = hid[o] => m = o
      BY DEF CoreInv, MailboxInv
    <3>. QED BY <3>1, <3>2, ListedTyped
  <2>. HIDE DEF x, q
  <2>4. /\ y \in TaskType(latestHid) /\ y.pc = "rules" /\ y.begun = x.begun /\ y.cur = x.cur
        /\ y.latest = x.latest /\ y.start = x.start
    BY <2>2, SetPc
  <2>. HIDE DEF y
  <2>5. /\ z \in TaskType(latestHid) /\ z.pc = "rules" /\ z.begun = x.begun /\ z.cur = x.cur
        /\ z.latest = x.latest /\ z.start = x.start /\ z.todo = q
    BY <2>2, <2>3, <2>4, SetTodo
  <2>. HIDE DEF z
  <2>6. GoodTask(z, Arrived, now, lastSync, hid, latestHid)
    BY <2>1, <2>2, <2>3, <2>5 DEF Good, GoodTask, LoopPCs
  <2>. QED BY <2>1, <2>5, <2>6 DEF Moves, Good, x, q
<1>. QED BY <1>1, <1>2

\* A message a handler loops over has arrived.
LEMMA HeadArrived ==
  ASSUME CoreInv, NEW i \in Tasks, task[i].todo # <<>>
  PROVE  /\ Msg(i) \in Arrived /\ Msg(i) \in Messages /\ Msg(i) \in Elements(task[i].todo)
         /\ Elements(task[i].todo) = {Msg(i)} \cup Elements(Tail(task[i].todo))
         /\ Elements(task[i].todo) \subseteq Arrived
<1>1. task[i].todo \in Seq(Messages) /\ (\A k \in 1..Len(task[i].todo) : task[i].todo[k] \in Arrived)
  BY DEF CoreInv, TaskInv, Good, GoodTask, TaskType
<1>2. Elements(task[i].todo) \subseteq Arrived
  BY <1>1 DEF Elements
<1>. QED BY <1>1, <1>2, SequenceParts DEF Msg

LEMMA FaultMoves ==
  ASSUME CoreInv, NEW i \in Tasks, task[i].pc \in LoopPCs, task[i].todo # <<>>, LoopFault(i)
  PROVE  \/ Settles({i}) /\ Msg(i) \in throttled' \cup harmed'
         \/ Moves(i, Skipped(task[i])) /\ Msg(i) \in harmed'
<1>1. Msg(i) \in Arrived
  BY HeadArrived
<1>. QED BY <1>1, RescheduleSettles, ReturnSettles, SkipMoves DEF LoopFault, Throttled, Free, At, LoopPCs

LEMMA MetadataMoves ==
  ASSUME CoreInv, NEW i \in Tasks, Metadata(i), ~LoopFault(i)
  PROVE  LET x == task[i] IN
         \/ received[Msg(i)] < x.start /\ Moves(i, Skipped(x))
         \/ /\ received[Msg(i)] >= x.start
            /\ \E l \in {0, x.latest, hid[Msg(i)]} :
                 LET y == ReadUpTo(x, l) IN
                 /\ Good(y) /\ y.pc = x.pc /\ y.todo = x.todo /\ y.cur = x.cur
                 /\ y.latest = l /\ y.start = x.start
                 /\ \/ Msg(i) \in Matching /\ Moves(i, MovedTo(y, "full"))
                    \/ Msg(i) \notin Matching /\ Moves(i, Skipped(y))
<1>. DEFINE x == task[i]
<1>1. Good(x) /\ x.pc = "meta" /\ x.todo # <<>> /\ task \in [Tasks -> TaskType(latestHid)]
  BY DEF Metadata, InLoop, At, CoreInv, TaskInv
<1>2. CASE received[Msg(i)] < x.start /\ Skip(i)
  BY <1>1, <1>2, SkipMoves DEF LoopPCs
<1>3. CASE ~(received[Msg(i)] < x.start /\ Skip(i))
  <2>1. PICK l \in Latest({x.latest, hid[Msg(i)]}) :
          /\ received[Msg(i)] >= x.start
          /\ IF Msg(i) \in Matching
               THEN task' = [task EXCEPT ![i].latest = l, ![i].pc = "full"]
               ELSE task' = [task EXCEPT ![i].latest = l, ![i].pc = "dedup", ![i].todo = Tail(@)]
    BY <1>3 DEF Metadata
  <2>. DEFINE y == ReadUpTo(x, l)
  <2>2. l \in {0, x.latest, hid[Msg(i)]} /\ l \in {0, x.latest} \cup {hid[m] : m \in Arrived}
    BY <1>1, <2>1, HeadArrived DEF Latest
  <2>3. /\ Good(y) /\ y.pc = x.pc /\ y.todo = x.todo /\ y.cur = x.cur
        /\ y.latest = l /\ y.start = x.start
    BY <1>1, <2>2, ReadGood
  <2>4. CASE Msg(i) \in Matching
    <3>1. task' = [task EXCEPT ![i] = MovedTo(y, "full")]
      BY <1>1, <2>1, <2>4 DEF MovedTo, ReadUpTo
    <3>2. Good(MovedTo(y, "full"))
      <4>. HIDE DEF y
      <4>. QED BY <1>1, <2>3, MovedGood DEF LoopPCs
    <3>. QED BY <2>1, <2>2, <2>3, <2>4, <3>1, <3>2 DEF Moves
  <2>5. CASE Msg(i) \notin Matching
    <3>1. task' = [task EXCEPT ![i] = Skipped(y)]
      <4>1. task' = [task EXCEPT ![i] = [[y EXCEPT !.pc = "dedup"] EXCEPT !.todo = Tail(x.todo)]]
        BY <1>1, <2>1, <2>5 DEF ReadUpTo
      <4>. HIDE DEF y
      <4>. QED BY <2>3, <4>1 DEF Skipped
    <3>2. Good(Skipped(y))
      <4>. HIDE DEF y
      <4>. QED BY <1>1, <2>3, SkippedGood DEF LoopPCs
    <3>. QED BY <2>1, <2>2, <2>3, <2>5, <3>1, <3>2 DEF Moves
  <2>. QED BY <2>4, <2>5
<1>. QED BY <1>2, <1>3, <1>1

LEMMA WorkerMoves ==
  ASSUME CoreInv, NEW i \in Tasks, Worker(i)
  PROVE  Settles({i}) \/ \E y : Moves(i, y)
<1>1. CASE Lookup(i) \/ HistoryList(i) \/ MessagesList(i)
  BY <1>1, LookupMoves, HistoryMoves, ListMoves
<1>2. CASE Token(i) \/ Rules(i)
  BY <1>2, ReturnSettles, GotoMoves DEF Token, Rules, At
<1>3. CASE Dedup(i)
  BY <1>3, GotoMoves, SkipMoves DEF Dedup, InLoop, At, LoopPCs
<1>4. CASE Metadata(i)
  <2>1. task[i].pc \in LoopPCs /\ task[i].todo # <<>>
    BY <1>4 DEF Metadata, InLoop, At, LoopPCs
  <2>. QED BY <1>4, <2>1, FaultMoves, MetadataMoves
<1>5. CASE FullBody(i)
  <2>1. task[i].pc \in LoopPCs /\ task[i].todo # <<>>
    BY <1>5 DEF FullBody, InLoop, At, LoopPCs
  <2>. QED BY <1>5, <2>1, FaultMoves, GotoMoves DEF FullBody
<1>6. CASE Enqueue(i)
  BY <1>6, SkipMoves DEF Enqueue, InLoop, At, LoopPCs
<1>7. CASE SaveCursor(i)
  BY <1>7, ReturnSettles DEF SaveCursor
<1>8. CASE Ack(i)
  <2>1. Stopped(Idle)
    BY DEF Stopped
  <2>. QED BY <1>8, <2>1, SettleOne DEF Ack
<1>. QED BY <1>1, <1>2, <1>3, <1>4, <1>5, <1>6, <1>7, <1>8 DEF Worker, Fetch, Loop

LEMMA WorkerFrame ==
  ASSUME NEW i \in Tasks, Worker(i)
  PROVE  UNCHANGED <<now, received, hid, latestHid, notices, lastSync, project, owner, crashes,
                     base, renewal, leapt>>
  BY DEF Worker, Fetch, Loop, Lookup, Token, HistoryList, MessagesList, Rules, Dedup, Metadata,
         FullBody, Enqueue, SaveCursor, Ack, LoopFault, Reauth, Save, HarmIfArchived, Harm,
         mailbox, account, bounds, excuses, renewer

\* The variables but the tasks.
RestOK ==
  /\ now \in 0..MaxTime
  /\ received \in [Messages -> (0..MaxTime) \cup {Null}] /\ hid \in [Messages -> Nat]
  /\ latestHid \in Nat /\ notices \in Nat
  /\ status \in {"ACTIVE", "REAUTH_REQUIRED", "DISCONNECTED"} /\ lastSync \in 0..MaxTime
  /\ cursor \in 0..latestHid /\ project \in BOOLEAN
  /\ expires \in [Messages -> Nat \cup {Null}]
  /\ handoffs \in [Messages -> Nat]
  /\ renewal \in Nat \cup {Null}
  /\ owner \in 0..MaxOwner /\ faults \in 0..MaxFaults /\ crashes \in 0..MaxCrashes
  /\ base \in Nat
  /\ bypassed \subseteq Messages /\ harmed \subseteq Messages /\ throttled \subseteq Messages
  /\ crowded \subseteq Messages /\ leapt \subseteq Messages

LEMMA CoreParts == CoreInv <=> RestOK /\ TaskInv /\ MailboxInv
<1>1. TypeOK <=> RestOK /\ task \in [Tasks -> TaskType(latestHid)]
  BY DEF TypeOK, RestOK, TaskType
<1>. QED BY <1>1 DEF CoreInv, TaskInv

LEMMA FaultTyped == faults \in 0..MaxFaults /\ (Fault \/ UNCHANGED faults) => faults' \in 0..MaxFaults
  BY DEF Fault

LEMMA OwnerTyped == owner \in 0..MaxOwner /\ Owner => owner' \in 0..MaxOwner
  BY DEF Owner

\* A handler saves as the cursor what it read of the row, or the id of a message.
LEMMA SavedKnown ==
  ASSUME CoreInv, NEW i \in Tasks
  PROVE  /\ Known(task[i].cur, hid, latestHid) /\ Known(task[i].latest, hid, latestHid)
<1>1. Good(task[i])
  BY DEF CoreInv, TaskInv
<1>2. \A m \in Arrived : Known(hid[m], hid, latestHid)
  BY DEF CoreInv, MailboxInv
<1>3. Known(0, hid, latestHid)
  BY KnownZero, CoreTypes
<1>. QED BY <1>1, <1>2, <1>3 DEF Good, GoodTask

LEMMA WorkerRest ==
  ASSUME CoreInv, NEW i \in Tasks, Worker(i)
  PROVE  /\ RestOK' /\ Known(cursor', hid, latestHid)
         /\ \A m \in Messages : handoffs'[m] > 0 \/ expires'[m] # Null => m \in Arrived
<1>0. RestOK /\ Known(cursor, hid, latestHid)
      /\ \A m \in Messages : handoffs[m] > 0 \/ expires[m] # Null => m \in Arrived
  BY CoreParts DEF MailboxInv
<1>1. UNCHANGED <<now, received, hid, latestHid, notices, lastSync, project, owner, crashes,
                  base, renewal, leapt>>
  BY WorkerFrame
<1>2. Arrived \in SUBSET Messages
  BY CoreTypes
<1>3. task[i].todo # <<>> => Msg(i) \in Arrived /\ Msg(i) \in Messages
  BY HeadArrived
<1>4. /\ status' \in {"ACTIVE", "REAUTH_REQUIRED", "DISCONNECTED"}
      /\ cursor' \in {cursor, task[i].cur, task[i].latest}
  BY <1>0 DEF Worker, Fetch, Loop, Lookup, Token, HistoryList, MessagesList, Rules, Dedup, Metadata,
         FullBody, Enqueue, SaveCursor, Ack, LoopFault, Reauth, Save, account, RestOK
<1>5. Known(cursor', hid, latestHid) /\ cursor' \in 0..latestHid
  BY <1>0, <1>4, SavedKnown DEF Known
<1>6. faults' \in 0..MaxFaults
  BY <1>0, FaultTyped DEF RestOK, Worker, Fetch, Loop, Lookup, Token, HistoryList, MessagesList, Rules,
         Dedup, Metadata, FullBody, Enqueue, SaveCursor, Ack, LoopFault, bounds
<1>7. /\ expires' \in [Messages -> Nat \cup {Null}] /\ bypassed' \subseteq Messages
      /\ \A m \in Messages : expires'[m] # Null => m \in Arrived
  <2>1. CASE Dedup(i)
    <3>1. Msg(i) \in Arrived /\ Msg(i) \in Messages
      BY <2>1, <1>3 DEF Dedup, InLoop
    <3>2. expires' = expires \/ expires' = [expires EXCEPT ![Msg(i)] = now + KeyTTL]
      BY <2>1 DEF Dedup
    <3>3. bypassed' = bypassed \/ bypassed' = bypassed \cup {Msg(i)}
      BY <2>1 DEF Dedup
    <3>4. now + KeyTTL \in Nat
      BY <1>0 DEF RestOK
    <3>. QED BY <1>0, <3>1, <3>2, <3>3, <3>4 DEF RestOK
  <2>2. CASE ~Dedup(i)
    <3>1. UNCHANGED <<expires, bypassed>>
      BY <2>2 DEF Worker, Fetch, Loop, Lookup, Token, HistoryList, MessagesList, Rules, Metadata,
         FullBody, Enqueue, SaveCursor, Ack
    <3>. QED BY <1>0, <3>1 DEF RestOK
  <2>. QED BY <2>1, <2>2
<1>8. /\ handoffs' \in [Messages -> Nat]
      /\ \A m \in Messages : handoffs'[m] > 0 => m \in Arrived
  <2>1. CASE Enqueue(i)
    <3>1. Msg(i) \in Arrived /\ Msg(i) \in Messages
      BY <2>1, <1>3 DEF Enqueue, InLoop
    <3>2. handoffs' = handoffs \/ handoffs' = [handoffs EXCEPT ![Msg(i)] = @ + 1]
      BY <2>1 DEF Enqueue
    <3>. QED BY <1>0, <3>1, <3>2 DEF RestOK
  <2>2. CASE ~Enqueue(i)
    <3>1. UNCHANGED handoffs
      BY <2>2 DEF Worker, Fetch, Loop, Lookup, Token, HistoryList, MessagesList, Rules, Metadata,
         FullBody, Dedup, SaveCursor, Ack
    <3>. QED BY <1>0, <3>1 DEF RestOK
  <2>. QED BY <2>1, <2>2
<1>9. harmed' \subseteq Messages /\ throttled' \subseteq Messages /\ crowded' \subseteq Messages
  <2>1. CASE Enqueue(i) \/ FullBody(i) \/ Metadata(i)
    <3>1. Msg(i) \in Messages
      BY <2>1, <1>3 DEF Enqueue, FullBody, Metadata, InLoop
    <3>. QED BY <1>0, <1>2, <2>1, <3>1 DEF RestOK, Enqueue, FullBody, Metadata, LoopFault, Throttled,
                                           Reschedule, Harm, excuses
  <2>2. CASE Fetch(i)
    <3>1. InWindow(i) \in SUBSET Messages
      BY <1>2 DEF InWindow
    <3>. QED BY <1>0, <1>2, <2>2, <3>1 DEF RestOK, Fetch, Lookup, Token, HistoryList, MessagesList,
                              Rules, Reschedule, HarmIfArchived, Harm, excuses
  <2>3. CASE Dedup(i) \/ SaveCursor(i) \/ Ack(i)
    BY <1>0, <2>3 DEF RestOK, Dedup, SaveCursor, Ack, excuses
  <2>. QED BY <2>1, <2>2, <2>3 DEF Worker, Loop
<1>. QED BY <1>0, <1>1, <1>4, <1>5, <1>6, <1>7, <1>8, <1>9 DEF RestOK

\* A step that stops tasks at most keeps them good, when time, syncs and arrivals go on.
LEMMA TasksStay ==
  ASSUME CoreInv, task' = [j \in Tasks |-> task'[j]],
         \A j \in Tasks : task'[j] = task[j] \/ Stopped(task'[j]),
         now' \in Nat, lastSync' \in Nat, latestHid' \in Nat,
         now <= now', lastSync <= lastSync', latestHid <= latestHid',
         Arrived \subseteq Arrived', \A m \in Arrived : hid'[m] = hid[m],
         \A h : Known(h, hid, latestHid) => Known(h, hid', latestHid'),
         \A j \in Tasks : task[j].pc \notin {"none", "queued", "done"} => now' <= task[j].begun + Timeout
  PROVE  TaskInv'
<1>1. ASSUME NEW j \in Tasks PROVE GoodTask(task'[j], Arrived', now', lastSync', hid', latestHid')
  <2>1. GoodTask(task[j], Arrived, now, lastSync, hid, latestHid)
    BY DEF CoreInv, TaskInv, Good
  <2>2. now \in Nat /\ lastSync \in Nat /\ latestHid \in Nat
    BY CoreTypes
  <2>3. GoodTask(task[j], Arrived', now', lastSync', hid', latestHid')
    BY <2>1, <2>2, StillGood
  <2>4. Stopped(task'[j]) => GoodTask(task'[j], Arrived', now', lastSync', hid', latestHid')
    BY StoppedIsGood
  <2>. QED BY <2>3, <2>4
<1>2. \A j \in Tasks : task'[j] \in TaskType(latestHid')
  BY <1>1 DEF GoodTask
<1>. QED BY <1>1, <1>2 DEF TaskInv, Good

\* The same for the steps that leave the mailbox, the clock and the last sync alone.
LEMMA TasksSettle ==
  ASSUME CoreInv, UNCHANGED <<now, received, hid, latestHid, lastSync>>, NEW S, Settles(S)
  PROVE  TaskInv'
<1>1. /\ task' = [j \in Tasks |-> task'[j]]
      /\ \A j \in Tasks : task'[j] = task[j] \/ Stopped(task'[j])
  BY DEF Settles
<1>2. Arrived' = Arrived
  BY DEF Arrived
<1>3. \A j \in Tasks : task[j].pc \notin {"none", "queued", "done"} => now <= task[j].begun + Timeout
  BY DEF CoreInv, TaskInv, Good, GoodTask
<1>. QED BY <1>1, <1>2, <1>3, CoreTypes, TasksStay

LEMMA TaskMoved ==
  ASSUME CoreInv, UNCHANGED <<now, received, hid, latestHid, lastSync>>,
         NEW i \in Tasks, NEW y, Moves(i, y)
  PROVE  TaskInv'
<1>1. Arrived' = Arrived
  BY DEF Arrived
<1>2. y \in TaskType(latestHid) /\ GoodTask(y, Arrived, now, lastSync, hid, latestHid)
  BY DEF Moves, Good, GoodTask
<1>3. \A j \in Tasks : GoodTask(task[j], Arrived, now, lastSync, hid, latestHid)
  BY DEF CoreInv, TaskInv, Good
<1>4. task' = [task EXCEPT ![i] = y] /\ task \in [Tasks -> TaskType(latestHid)]
  BY DEF Moves, CoreInv, TaskInv
<1>. QED BY <1>1, <1>2, <1>3, <1>4 DEF TaskInv, Good

LEMMA SettleNone == ASSUME CoreInv, UNCHANGED task PROVE Settles({})
  BY DEF Settles, CoreInv, TaskInv

LEMMA ArriveMailbox ==
  ASSUME CoreInv, NEW m \in Messages, Arrive(m)
  PROVE  /\ Arrived' = Arrived \cup {m} /\ m \notin Arrived
         /\ \A o \in Arrived : hid'[o] = hid[o] /\ received'[o] = received[o]
         /\ hid'[m] = latestHid + 1 /\ received'[m] = now /\ latestHid' = latestHid + 1
         /\ \A h : Known(h, hid, latestHid) => Known(h, hid', latestHid')
         /\ MailboxInv' /\ RestOK' /\ TaskInv'
<1>0. RestOK /\ MailboxInv
  BY CoreParts
<1>1. /\ hid' = [hid EXCEPT ![m] = latestHid + 1] /\ received' = [received EXCEPT ![m] = now]
      /\ latestHid' = latestHid + 1 /\ received[m] = Null
      /\ UNCHANGED <<now, cursor, lastSync, renewal, handoffs, expires, task, base>>
  BY DEF Arrive, account, renewer
<1>2. now \in Nat /\ latestHid \in Nat /\ lastSync \in Nat
  BY CoreTypes
<1>3. hid'[m] = latestHid + 1 /\ received'[m] = now /\ now # Null /\ m \notin Arrived
  BY <1>0, <1>1, <1>2 DEF RestOK, Arrived
<1>4. \A o \in Messages : o # m => hid'[o] = hid[o] /\ received'[o] = received[o]
  BY <1>0, <1>1 DEF RestOK
<1>5. Arrived' = Arrived \cup {m}
  BY <1>3, <1>4 DEF Arrived
<1>6. \A o \in Arrived : hid'[o] = hid[o] /\ received'[o] = received[o]
  BY <1>3, <1>4 DEF Arrived
<1>7. hid[m] = 0
  BY <1>0, <1>3 DEF MailboxInv
<1>8. ASSUME NEW h, Known(h, hid, latestHid) PROVE Known(h, hid', latestHid')
  <2>1. h \in 0..latestHid
    BY <1>8 DEF Known
  <2>2. ASSUME h # 0, NEW k \in (h + 1)..(latestHid + 1) PROVE \E o \in Messages : hid'[o] = k
    <3>1. CASE k = latestHid + 1
      BY <1>3, <3>1
    <3>2. CASE k # latestHid + 1
      <4>1. k \in (h + 1)..latestHid /\ k # 0
        BY <1>2, <2>1, <2>2, <3>2
      <4>2. PICK o \in Messages : hid[o] = k
        BY <1>8, <2>2, <4>1 DEF Known
      <4>. QED BY <1>4, <1>7, <4>1, <4>2
    <3>. QED BY <3>1, <3>2
  <2>. QED BY <1>1, <1>2, <2>1, <2>2 DEF Known
<1>9. Known(latestHid + 1, hid', latestHid + 1)
  BY <1>2 DEF Known
<1>10. MailboxInv'
  <2>1. \A o \in Messages : IF o \in Arrived'
                              THEN hid'[o] \in 1..latestHid' /\ received'[o] \in 0..now'
                              ELSE hid'[o] = 0
    BY <1>0, <1>1, <1>2, <1>3, <1>4, <1>5 DEF MailboxInv
  <2>2. \A o, u \in Arrived' : hid'[o] = hid'[u] => o = u
    <3>1. \A o \in Arrived : hid'[o] # latestHid + 1
      BY <1>2, <1>6, CoreTypes
    <3>. QED BY <1>0, <1>3, <1>5, <1>6, <3>1 DEF MailboxInv
  <2>3. \A o \in Arrived' : Known(hid'[o], hid', latestHid')
    BY <1>0, <1>1, <1>3, <1>5, <1>6, <1>8, <1>9 DEF MailboxInv
  <2>4. /\ lastSync' <= now' /\ Known(cursor', hid', latestHid')
        /\ renewal' # Null => Known(renewal', hid', latestHid')
        /\ \A o \in Messages : handoffs'[o] > 0 \/ expires'[o] # Null => o \in Arrived'
    BY <1>0, <1>1, <1>5, <1>8 DEF MailboxInv
  <2>. QED BY <2>1, <2>2, <2>3, <2>4 DEF MailboxInv
<1>11. RestOK'
  <2>1. received' \in [Messages -> (0..MaxTime) \cup {Null}] /\ hid' \in [Messages -> Nat]
    BY <1>0, <1>1, <1>2 DEF RestOK
  <2>2. notices' \in Nat
    BY <1>0 DEF RestOK, Arrive
  <2>3. cursor' \in 0..latestHid'
    BY <1>0, <1>1, <1>2 DEF RestOK
  <2>. QED BY <1>0, <1>1, <1>2, <2>1, <2>2, <2>3 DEF RestOK, Arrive, account, bounds, excuses, renewer
<1>12. TaskInv'
  <2>1. /\ task' = [j \in Tasks |-> task'[j]]
        /\ \A j \in Tasks : task'[j] = task[j] \/ Stopped(task'[j])
    BY <1>1 DEF CoreInv, TaskInv
  <2>2. \A j \in Tasks : task[j].pc \notin {"none", "queued", "done"} => now <= task[j].begun + Timeout
    BY DEF CoreInv, TaskInv, Good, GoodTask
  <2>3. Arrived \subseteq Arrived'
    BY <1>5
  <2>4. now' \in Nat /\ lastSync' \in Nat /\ latestHid' \in Nat /\ now <= now'
        /\ lastSync <= lastSync' /\ latestHid <= latestHid'
    BY <1>1, <1>2
  <2>. QED BY <1>1, <1>6, <1>8, <2>1, <2>2, <2>3, <2>4, TasksStay
<1>. QED BY <1>1, <1>3, <1>5, <1>6, <1>8, <1>10, <1>11, <1>12

\* What the steps of the environment do to the clock, the mailbox and the last sync.
LEMMA OtherFrame ==
  ASSUME CoreInv, \/ Reconnect \/ Disconnect \/ RenewWatch \/ RenewSave \/ Crash \/ Webhook
                  \/ \E i \in Tasks : Expire(i)
  PROVE  /\ UNCHANGED <<now, received, hid, latestHid, expires, handoffs>> /\ Arrived' = Arrived
         /\ Reconnect \/ UNCHANGED <<base, lastSync>>
         /\ \E S \in SUBSET Tasks : Settles(S)
<1>1. /\ UNCHANGED <<now, received, hid, latestHid, expires, handoffs>>
      /\ Reconnect \/ UNCHANGED <<base, lastSync>>
  BY DEF Reconnect, Disconnect, RenewWatch, RenewSave, Crash, Webhook, Expire, mailbox, account
<1>2. ASSUME UNCHANGED task PROVE \E S \in SUBSET Tasks : Settles(S)
  BY <1>2, SettleNone
<1>3. ASSUME \E i \in Tasks : ReturnErr(i) PROVE \E S \in SUBSET Tasks : Settles(S)
  BY <1>3, ReturnSettles
<1>4. ASSUME Crash PROVE \E S \in SUBSET Tasks : Settles(S)
  <2>1. task' = [i \in Tasks |-> IF i \in Active THEN AfterError(i) ELSE task[i]]
    BY <1>4 DEF Crash
  <2>2. \A i \in Tasks : Stopped(AfterError(i)) /\ AfterError(i) \in TaskType(latestHid)
    BY FailedTask, StoppedTask, CoreTypes
  <2>3. Settles(Active)
    BY <2>1, <2>2 DEF Settles, CoreInv, TaskInv
  <2>4. Active \in SUBSET Tasks
    BY DEF Active
  <2>. QED BY <2>3, <2>4
<1>5. ASSUME Webhook, ~UNCHANGED task PROVE \E S \in SUBSET Tasks : Settles(S)
  <2>1. PICK i \in Tasks : Free(i) /\ task' = [task EXCEPT ![i] = Queued]
    BY <1>5 DEF Webhook
  <2>2. Stopped(Queued)
    BY DEF Stopped
  <2>3. Settles({})
    BY <2>1, <2>2, SettleOne
  <2>. QED BY <2>3
<1>6. Arrived' = Arrived
  BY <1>1 DEF Arrived
<1>. QED BY <1>1, <1>2, <1>3, <1>4, <1>5, <1>6
       DEF Reconnect, Disconnect, RenewWatch, RenewSave, Expire

LEMMA OtherRest ==
  ASSUME CoreInv, \/ Reconnect \/ Disconnect \/ RenewWatch \/ RenewSave \/ Crash \/ Webhook
                  \/ \E i \in Tasks : Expire(i)
  PROVE  RestOK'
<1>0. RestOK /\ Arrived \in SUBSET Messages /\ (renewal # Null => renewal \in 0..latestHid)
  BY CoreParts, CoreTypes DEF MailboxInv, Known
<1>1. CASE Reconnect
  BY <1>0, <1>1, OwnerTyped DEF RestOK, Reconnect, mailbox, excuses, renewer
<1>2. CASE Disconnect
  <2>1. cursor' \in 0..latestHid' /\ latestHid' \in Nat
    BY <1>0, <1>2 DEF RestOK, Disconnect, mailbox
  <2>. QED BY <1>0, <1>2, <2>1, OwnerTyped DEF RestOK, Disconnect, mailbox, excuses, renewer
<1>3. CASE RenewWatch
  BY <1>0, <1>3, OwnerTyped DEF RestOK, RenewWatch, mailbox, account, excuses
<1>4. CASE RenewSave
  BY <1>0, <1>4, FaultTyped DEF RestOK, RenewSave, mailbox, account, excuses
<1>5. CASE Crash
  BY <1>0, <1>5 DEF RestOK, Crash, Harm, mailbox, account, renewer
<1>6. CASE Webhook
  <2>1. notices \in Nat /\ notices > 0 /\ notices' \in {notices, notices - 1}
    BY <1>0, <1>6 DEF Webhook, AckedOnFailure, RestOK
  <2>. QED BY <1>0, <1>6, <2>1, FaultTyped DEF RestOK, Webhook, mailbox, account, excuses, renewer
<1>7. CASE \E i \in Tasks : Expire(i)
  BY <1>0, <1>7 DEF RestOK, Expire, Harm, mailbox, account, bounds, renewer
<1>. QED BY <1>1, <1>2, <1>3, <1>4, <1>5, <1>6, <1>7

LEMMA CoreStep == CoreInv /\ [Next]_vars => CoreInv'
<1>. SUFFICES ASSUME CoreInv, [Next]_vars PROVE CoreInv'
  OBVIOUS
<1>. SUFFICES RestOK' /\ TaskInv' /\ MailboxInv'
  BY CoreParts, PTL
<1>0. RestOK /\ TaskInv /\ MailboxInv
  BY CoreParts
<1>t. \A j \in Tasks : task[j].pc \notin {"none", "queued", "done"} => now <= task[j].begun + Timeout
  BY DEF CoreInv, TaskInv, Good, GoodTask
<1>1. CASE Tick
  <2>1. /\ now' = now + 1 /\ now' \in 0..MaxTime
        /\ UNCHANGED <<received, hid, latestHid, notices, status, lastSync, cursor, project,
                       expires, task, handoffs, renewal, base>>
    BY <1>0, <1>1 DEF Tick, mailbox, account, renewer, RestOK
  <2>2. Arrived' = Arrived
    BY <2>1 DEF Arrived
  <2>3. ASSUME NEW j \in Tasks, task[j].pc \notin {"none", "queued", "done"}
        PROVE  now' <= task[j].begun + Timeout
    <3>1. now < task[j].begun + Timeout
      BY <1>1, <2>3 DEF Tick, Active, Free, At, InTime
    <3>2. task[j].begun \in Nat /\ now \in Nat
      BY <1>0, CoreTypes DEF TaskInv, TaskType
    <3>. QED BY <2>1, <3>1, <3>2
  <2>4. TaskInv'
    <3>1. task' = [j \in Tasks |-> task'[j]]
      BY <1>0, <2>1 DEF TaskInv
    <3>2. now' \in Nat /\ lastSync' \in Nat /\ latestHid' \in Nat /\ now <= now'
          /\ lastSync <= lastSync' /\ latestHid <= latestHid'
      BY <2>1, CoreTypes
    <3>. QED BY <2>1, <2>2, <2>3, <3>1, <3>2, TasksStay
  <2>5. MailboxInv'
    <3>1. 0..now \subseteq 0..now' /\ lastSync' <= now'
      BY <1>0, <2>1, CoreTypes DEF MailboxInv
    <3>. QED BY <1>0, <2>1, <2>2, <3>1 DEF MailboxInv
  <2>6. RestOK'
    BY <1>0, <1>1, <2>1 DEF RestOK, Tick, bounds, excuses, renewer
  <2>. QED BY <2>4, <2>5, <2>6
<1>2. ASSUME NEW m \in Messages, Arrive(m) PROVE RestOK' /\ TaskInv' /\ MailboxInv'
  BY <1>2, ArriveMailbox
<1>3. ASSUME NEW m \in Messages, Process(m) PROVE RestOK' /\ TaskInv' /\ MailboxInv'
  <2>1. /\ handoffs[m] > 0 /\ lastSync < received[m] /\ lastSync' = received[m]
        /\ UNCHANGED <<now, received, hid, latestHid, notices, status, cursor, project,
                       expires, task, handoffs, renewal, base>>
    BY <1>3 DEF Process, mailbox, renewer
  <2>2. Arrived' = Arrived /\ received[m] \in 0..now
    BY <1>0, <2>1 DEF Arrived, MailboxInv
  <2>3. TaskInv'
    <3>1. task' = [j \in Tasks |-> task'[j]]
      BY <1>0, <2>1 DEF TaskInv
    <3>2. now' \in Nat /\ lastSync' \in Nat /\ latestHid' \in Nat /\ now <= now'
          /\ lastSync <= lastSync' /\ latestHid <= latestHid'
      BY <2>1, <2>2, CoreTypes
    <3>. QED BY <1>t, <2>1, <2>2, <3>1, <3>2, TasksStay
  <2>4. MailboxInv'
    <3>1. lastSync' <= now'
      BY <2>1, <2>2, CoreTypes
    <3>. QED BY <1>0, <2>1, <2>2, <3>1 DEF MailboxInv
  <2>5. lastSync' \in 0..MaxTime
    BY <1>0, <2>1, <2>2 DEF RestOK
  <2>6. RestOK'
    BY <1>0, <1>3, <2>1, <2>5 DEF RestOK, Process, bounds, excuses, renewer
  <2>. QED BY <2>3, <2>4, <2>6
<1>4. ASSUME NEW i \in Tasks, Worker(i) PROVE RestOK' /\ TaskInv' /\ MailboxInv'
  <2>1. /\ UNCHANGED <<now, received, hid, latestHid, lastSync, renewal>> /\ Arrived' = Arrived
    BY <1>4, WorkerFrame DEF Arrived
  <2>2. /\ RestOK' /\ Known(cursor', hid, latestHid)
        /\ \A m \in Messages : handoffs'[m] > 0 \/ expires'[m] # Null => m \in Arrived
    BY <1>4, WorkerRest
  <2>3. TaskInv'
    BY <1>4, <2>1, WorkerMoves, TasksSettle, TaskMoved
  <2>4. MailboxInv'
    BY <1>0, <2>1, <2>2 DEF MailboxInv
  <2>. QED BY <2>2, <2>3, <2>4
<1>5. CASE \/ Reconnect \/ Disconnect \/ RenewWatch \/ RenewSave \/ Crash \/ Webhook
           \/ \E i \in Tasks : Expire(i)
  <2>1. /\ UNCHANGED <<now, received, hid, latestHid, expires, handoffs>> /\ Arrived' = Arrived
        /\ Reconnect \/ UNCHANGED <<base, lastSync>>
    BY <1>5, OtherFrame
  <2>2. PICK S \in SUBSET Tasks : Settles(S)
    BY <1>5, OtherFrame
  <2>3. lastSync' \in {lastSync, now}
    BY <2>1 DEF Reconnect
  <2>4. TaskInv'
    <3>1. /\ task' = [j \in Tasks |-> task'[j]]
          /\ \A j \in Tasks : task'[j] = task[j] \/ Stopped(task'[j])
      BY <2>2 DEF Settles
    <3>2. now' \in Nat /\ lastSync' \in Nat /\ latestHid' \in Nat /\ now <= now'
          /\ lastSync <= lastSync' /\ latestHid <= latestHid'
      BY <1>0, <2>1, <2>3, CoreTypes DEF MailboxInv
    <3>. QED BY <1>t, <2>1, <3>1, <3>2, TasksStay
  <2>5. Known(latestHid, hid, latestHid) /\ Known(0, hid, latestHid)
    BY CoreTypes DEF Known
  <2>6. /\ cursor' \in {cursor, latestHid, 0} \/ (renewal # Null /\ cursor' = renewal)
        /\ renewal' \in {renewal, Null, latestHid}
    BY <1>5 DEF Reconnect, Disconnect, RenewWatch, RenewSave, Crash, Webhook, Expire, account, renewer
  <2>7. lastSync' <= now'
    BY <1>0, <2>1, <2>3, CoreTypes DEF MailboxInv
  <2>8. MailboxInv'
    BY <1>0, <2>1, <2>5, <2>6, <2>7 DEF MailboxInv
  <2>9. RestOK'
    BY <1>5, OtherRest
  <2>. QED BY <2>4, <2>8, <2>9
<1>6. CASE UNCHANGED vars
  <2>1. UNCHANGED <<now, received, hid, latestHid, lastSync, task, cursor, renewal, handoffs, expires>>
    BY <1>6 DEF vars, mailbox, account, renewer
  <2>2. Arrived' = Arrived
    BY <2>1 DEF Arrived
  <2>3. TaskInv'
    BY <2>1, SettleNone, TasksSettle
  <2>4. MailboxInv'
    BY <1>0, <2>1, <2>2 DEF MailboxInv
  <2>5. RestOK'
    BY <1>0, <1>6 DEF RestOK, vars, mailbox, account, bounds, excuses, renewer
  <2>. QED BY <2>3, <2>4, <2>5
<1>. QED BY <1>1, <1>2, <1>3, <1>4, <1>5, <1>6 DEF Next, Environment

LEMMA InitCore == Init => CoreInv
<1>. SUFFICES ASSUME Init PROVE CoreInv
  OBVIOUS
<1>1. RestOK
  BY DEF Init, RestOK
<1>2. Arrived = {}
  BY DEF Init, Arrived
<1>3. base \in Nat /\ latestHid = base /\ cursor = base /\ lastSync = 0 /\ now = 0
  BY DEF Init
<1>4. MailboxInv
  BY <1>2, <1>3 DEF Init, MailboxInv, Known
<1>5. TaskInv
  <2>1. Stopped(Idle)
    BY DEF Stopped
  <2>2. Good(Idle) /\ Idle \in TaskType(latestHid)
    BY <1>3, <2>1, StoppedIsGood, StoppedTask DEF Good
  <2>. QED BY <2>2 DEF Init, TaskInv
<1>. QED BY <1>1, <1>4, <1>5, CoreParts

LEMMA CoreCorrect == Spec => []CoreInv
  BY InitCore, CoreStep, PTL DEF Spec

\* TypeOK holds in every reachable state.  More than a type is in it that the history can
\* be listed from whatever the cursor, a handler or a renewal holds, and that the pages of
\* both calls are sequences of messages.
THEOREM TypeCorrect == Spec => []TypeOK
<1>1. CoreInv => TypeOK
  BY DEF CoreInv
<1>. QED BY <1>1, CoreCorrect, PTL

-----------------------------------------------------------------------------
(* The cursor passes no message.                                           *)

TakenCare(m) == handoffs[m] > 0 \/ Excused(m) \/ \E i \in Tasks : Holding(i, m)

\* Messages that arrived since the connection and that nobody has taken care of.
Neglected == {m \in Arrived : base < hid[m] /\ ~TakenCare(m)}

\* Neglected messages (N, with the ids f) lie beyond the id a handler lists the history
\* from, and beyond every id it has read or is going to, unless it is going to look at them.
GoodCare(x, N, f) ==
  /\ \A m \in N : f[m] > x.cur
  /\ x.pc \in {"rules"} \cup LoopPCs =>
       \A m \in N \ Elements(x.todo) :
         f[m] > x.latest /\ \A o \in Elements(x.todo) : f[m] > f[o]

CareInv ==
  /\ \A m \in Neglected : hid[m] > cursor /\ expires[m] = Null
  /\ \A i \in Tasks : GoodCare(task[i], Neglected, hid)

LEMMA CareMeansSkipsNothing == ASSUME CoreInv, CareInv PROVE CursorSkipsNothing
<1>. SUFFICES ASSUME NEW m \in Arrived, base < hid[m], hid[m] <= cursor, ~TakenCare(m) PROVE FALSE
  BY DEF CursorSkipsNothing, TakenCare
<1>1. m \in Neglected
  BY DEF Neglected
<1>2. hid[m] > cursor /\ hid[m] \in Nat /\ cursor \in Nat
  BY <1>1, CoreTypes DEF CareInv
<1>. QED BY <1>2

\* Time, syncs, hand-offs and the reasons that excuse a message only grow.
LEMMA HistoryGrows ==
  ASSUME CoreInv, [Next]_vars
  PROVE  /\ now' \in Nat /\ lastSync' \in Nat /\ now <= now' /\ lastSync <= lastSync'
         /\ harmed \subseteq harmed' /\ throttled \subseteq throttled'
         /\ crowded \subseteq crowded' /\ leapt \subseteq leapt'
         /\ \A m \in Arrived : m \in Arrived' /\ received'[m] = received[m] /\ hid'[m] = hid[m]
         /\ \A m \in Messages : handoffs[m] <= handoffs'[m]
<1>1. CoreInv'
  BY CoreStep
<1>2. now' \in Nat /\ lastSync' \in Nat
  BY <1>1 DEF CoreInv, TypeOK
<1>3. now \in Nat /\ lastSync \in Nat /\ lastSync <= now /\ \A m \in Messages : handoffs[m] \in Nat
  BY CoreTypes DEF CoreInv, MailboxInv
<1>4. CASE Tick
  BY <1>2, <1>3, <1>4 DEF Tick, Arrived, mailbox, account, excuses, renewer
<1>5. ASSUME NEW m \in Messages, Arrive(m)
      PROVE  /\ now <= now' /\ lastSync <= lastSync'
             /\ harmed \subseteq harmed' /\ throttled \subseteq throttled'
             /\ crowded \subseteq crowded' /\ leapt \subseteq leapt'
             /\ \A o \in Arrived : o \in Arrived' /\ received'[o] = received[o] /\ hid'[o] = hid[o]
             /\ \A o \in Messages : handoffs[o] <= handoffs'[o]
  <2>1. UNCHANGED <<now, lastSync, harmed, throttled, crowded, leapt, handoffs>>
    BY <1>5 DEF Arrive, account, excuses, renewer
  <2>2. \A o \in Arrived : o \in Arrived' /\ received'[o] = received[o] /\ hid'[o] = hid[o]
    BY <1>5, ArriveMailbox
  <2>. QED BY <1>3, <2>1, <2>2
<1>6. ASSUME NEW m \in Messages, Process(m)
      PROVE  /\ now <= now' /\ lastSync <= lastSync'
             /\ UNCHANGED <<received, hid, handoffs, harmed, throttled, crowded, leapt>>
  BY <1>2, <1>3, <1>6 DEF Process, mailbox, excuses, renewer
<1>7. ASSUME NEW i \in Tasks, Worker(i)
      PROVE  /\ UNCHANGED <<now, lastSync, received, hid, leapt>>
             /\ harmed \subseteq harmed' /\ throttled \subseteq throttled'
             /\ crowded \subseteq crowded'
             /\ \A m \in Messages : handoffs[m] <= handoffs'[m]
  <2>1. UNCHANGED <<now, lastSync, received, hid, leapt>>
    BY <1>7, WorkerFrame
  <2>2. handoffs' = handoffs \/ handoffs' = [handoffs EXCEPT ![Msg(i)] = @ + 1]
    BY <1>7 DEF Worker, Fetch, Loop, Lookup, Token, HistoryList, MessagesList, Rules, Dedup, Metadata,
         FullBody, Enqueue, SaveCursor, Ack
  <2>3. handoffs \in [Messages -> Nat]
    BY DEF CoreInv, TypeOK
  <2>4. harmed \subseteq harmed' /\ throttled \subseteq throttled' /\ crowded \subseteq crowded'
    BY <1>7 DEF Worker, Fetch, Loop, Lookup, Token, HistoryList, MessagesList, Rules, Dedup, Metadata,
         FullBody, Enqueue, SaveCursor, Ack, LoopFault, Throttled, Reschedule, HarmIfArchived, Harm, excuses
  <2>. QED BY <2>1, <2>2, <2>3, <2>4
<1>8. ASSUME \/ Reconnect \/ Disconnect \/ RenewWatch \/ RenewSave \/ Crash \/ Webhook
             \/ \E i \in Tasks : Expire(i)
      PROVE  /\ UNCHANGED <<now, received, hid, handoffs>> /\ lastSync <= lastSync'
             /\ harmed \subseteq harmed' /\ throttled \subseteq throttled'
             /\ crowded \subseteq crowded' /\ leapt \subseteq leapt'
  <2>1. UNCHANGED <<now, received, hid, handoffs>> /\ (Reconnect \/ UNCHANGED lastSync)
    BY <1>8, OtherFrame
  <2>2. lastSync <= lastSync'
    BY <1>3, <2>1 DEF Reconnect
  <2>3. harmed \subseteq harmed' /\ throttled \subseteq throttled'
        /\ crowded \subseteq crowded' /\ leapt \subseteq leapt'
    BY <1>8 DEF Reconnect, Disconnect, RenewWatch, RenewSave, Crash, Webhook, Expire, Harm, excuses, renewer
  <2>. QED BY <2>1, <2>2, <2>3
<1>9. UNCHANGED vars => UNCHANGED <<now, lastSync, received, hid, handoffs, harmed, throttled, crowded, leapt>>
  BY DEF vars, mailbox, account, excuses, renewer
<1>10. ASSUME UNCHANGED <<received, hid>>
       PROVE  \A o \in Arrived : o \in Arrived' /\ received'[o] = received[o] /\ hid'[o] = hid[o]
  BY <1>10 DEF Arrived
<1>. QED BY <1>2, <1>3, <1>4, <1>5, <1>6, <1>7, <1>8, <1>9, <1>10 DEF Next, Environment

LEMMA ExcusesStay ==
  ASSUME CoreInv, [Next]_vars, NEW m \in Arrived, Excused(m)
  PROVE  Excused(m)'
<1>1. received[m] \in Nat /\ now \in Nat /\ lastSync \in Nat
  BY CoreTypes
<1>2. Old(m) => Old(m)'
  BY <1>1, HistoryGrows DEF Old
<1>. QED BY <1>2, HistoryGrows DEF Excused

\* A handler lets go of a message when it is handed off, or excused.
LEMMA HolderCares ==
  ASSUME CoreInv, NEW i \in Tasks, Worker(i), NEW m \in Arrived, Holding(i, m)
  PROVE  Holding(i, m)' \/ handoffs'[m] > 0 \/ Excused(m)'
<1>. DEFINE x == task[i]
<1>0. /\ x.pc \in LoopPCs /\ x.pc \in {"meta", "full", "enqueue"} /\ x.todo # <<>> /\ Msg(i) = m
      /\ task \in [Tasks -> TaskType(latestHid)] /\ Good(x) /\ m \in Messages /\ m \in Arrived'
  BY WorkerFrame DEF Holding, LoopPCs, CoreInv, TaskInv, Arrived
<1>1. CASE LoopFault(i)
  <2>1. m \in throttled' \cup harmed'
    BY <1>0, <1>1, FaultMoves
  <2>. QED BY <2>1 DEF Excused
<1>2. CASE Metadata(i) /\ ~LoopFault(i)
  <2>1. CASE received[m] < x.start
    <3>1. x.start <= now - Window \/ x.start <= lastSync
      BY <1>0 DEF Good, GoodTask
    <3>2. x.start \in Int /\ received[m] \in Nat /\ now \in Nat /\ lastSync \in Nat
      BY <1>0, CoreTypes, SMTT(40) DEF Good, GoodTask, TaskType
    <3>3. UNCHANGED <<now, lastSync, received>>
      BY <1>2, WorkerFrame
    <3>4. Old(m)'
      BY <1>0, <2>1, <3>1, <3>2, <3>3 DEF Old
    <3>. QED BY <3>4 DEF Excused
  <2>2. CASE m \notin Matching
    BY <2>2 DEF Excused
  <2>3. CASE ~(received[m] < x.start) /\ m \in Matching
    <3>1. PICK l : LET y == ReadUpTo(x, l) IN
                   /\ Good(y) /\ y.pc = x.pc /\ y.todo = x.todo /\ Moves(i, MovedTo(y, "full"))
      BY <1>0, <1>2, <2>3, MetadataMoves
    <3>. DEFINE y == ReadUpTo(x, l)
                z == MovedTo(y, "full")
    <3>2. z.pc = "full" /\ z.todo = x.todo
      <4>1. Good(y) /\ y.pc \in LoopPCs /\ y.todo = x.todo /\ y.todo # <<>>
        BY <1>0, <3>1
      <4>. HIDE DEF y
      <4>. QED BY <4>1, MovedGood
    <3>3. task'[i] = z
      BY <1>0, <3>1 DEF Moves
    <3>. QED BY <1>0, <3>2, <3>3 DEF Holding, Msg
  <2>. QED BY <2>1, <2>2, <2>3
<1>3. CASE FullBody(i) /\ ~LoopFault(i)
  <2>1. Moves(i, MovedTo(x, "enqueue"))
    BY <1>0, <1>3, GotoMoves DEF FullBody
  <2>2. MovedTo(x, "enqueue").pc = "enqueue" /\ MovedTo(x, "enqueue").todo = x.todo
    BY <1>0, MovedGood
  <2>3. task'[i] = MovedTo(x, "enqueue")
    BY <1>0, <2>1 DEF Moves
  <2>. QED BY <1>0, <2>2, <2>3 DEF Holding, Msg
<1>4. CASE Enqueue(i)
  <2>1. handoffs' = [handoffs EXCEPT ![m] = @ + 1] \/ harmed' = harmed \cup {m}
    BY <1>0, <1>4 DEF Enqueue, Harm
  <2>2. handoffs \in [Messages -> Nat]
    BY DEF CoreInv, TypeOK
  <2>. QED BY <1>0, <2>1, <2>2 DEF Excused
<1>. QED BY <1>0, <1>1, <1>2, <1>3, <1>4
       DEF Worker, Fetch, Loop, Lookup, Token, HistoryList, MessagesList, Rules, Dedup, Metadata, FullBody,
           SaveCursor, Ack, InLoop, At

\* Once a message is taken care of it is for good.
LEMMA CareStays ==
  ASSUME CoreInv, [Next]_vars, NEW m \in Arrived, TakenCare(m)
  PROVE  TakenCare(m)'
<1>0. m \in Messages /\ m \in Arrived'
  BY CoreTypes, HistoryGrows
<1>1. CASE handoffs[m] > 0
  <2>1. CoreInv'
    BY CoreStep
  <2>2. handoffs[m] \in Nat /\ handoffs'[m] \in Nat /\ handoffs[m] <= handoffs'[m]
    BY <1>0, <2>1, HistoryGrows DEF CoreInv, TypeOK
  <2>. QED BY <1>1, <2>2 DEF TakenCare
<1>2. CASE Excused(m)
  BY <1>2, ExcusesStay DEF TakenCare
<1>3. ASSUME NEW j \in Tasks, Holding(j, m) PROVE TakenCare(m)'
  <2>0. ~Free(j) /\ j \in Active
    BY <1>3 DEF Holding, Free, Active, At
  <2>1. ASSUME task'[j] = task[j] PROVE TakenCare(m)'
    BY <1>3, <2>1 DEF TakenCare, Holding, Msg
  <2>2. ASSUME m \in harmed' PROVE TakenCare(m)'
    BY <2>2 DEF TakenCare, Excused
  <2>3. CASE Worker(j)
    BY <1>3, <2>3, HolderCares DEF TakenCare
  <2>4. ASSUME NEW i \in Tasks, i # j, Worker(i) PROVE task'[j] = task[j]
    <3>1. CASE Settles({i})
      BY <2>0, <2>4, <3>1 DEF Settles
    <3>2. ASSUME NEW y, Moves(i, y) PROVE task'[j] = task[j]
      BY <2>4, <3>2 DEF Moves, CoreInv, TaskInv
    <3>. QED BY <2>4, <3>1, <3>2, WorkerMoves
  <2>5. CASE Expire(j)
    BY <1>0, <1>3, <2>2, <2>5 DEF Expire, Harm
  <2>6. ASSUME NEW i \in Tasks, i # j, Expire(i) PROVE task'[j] = task[j]
    <3>1. Settles({i})
      BY <2>6, ReturnSettles DEF Expire
    <3>. QED BY <2>0, <2>6, <3>1 DEF Settles
  <2>7. CASE Crash
    BY <1>0, <1>3, <2>0, <2>2, <2>7 DEF Crash, Harm
  <2>8. CASE Webhook
    <3>1. CASE \E i \in Tasks : Free(i) /\ task' = [task EXCEPT ![i] = Queued]
      BY <2>0, <2>1, <3>1 DEF CoreInv, TaskInv
    <3>. QED BY <2>1, <2>8, <3>1 DEF Webhook
  <2>9. CASE UNCHANGED task
    BY <2>1, <2>9
  <2>. QED BY <2>1, <2>3, <2>4, <2>5, <2>6, <2>7, <2>8, <2>9
         DEF Next, Environment, Tick, Reconnect, Disconnect, RenewWatch, RenewSave, Arrive, Process, vars
<1>. QED BY <1>1, <1>2, <1>3 DEF TakenCare

\* So no message that had arrived becomes neglected.
LEMMA NeglectShrinks ==
  ASSUME CoreInv, [Next]_vars, UNCHANGED <<received, hid, base>>
  PROVE  Neglected' \subseteq Neglected
<1>. SUFFICES ASSUME NEW m \in Neglected' PROVE m \in Neglected
  OBVIOUS
<1>1. m \in Arrived /\ base < hid[m] /\ ~TakenCare(m)'
  BY DEF Neglected, Arrived
<1>2. ~TakenCare(m)
  BY <1>1, CareStays
<1>. QED BY <1>1, <1>2 DEF Neglected

LEMMA StoppedCare ==
  ASSUME CoreInv, NEW x, Stopped(x), NEW N, \A m \in N : m \in Arrived
  PROVE  GoodCare(x, N, hid)
<1>1. \A m \in N : hid[m] > 0
  BY CoreTypes
<1>. QED BY <1>1, StoppedTask DEF GoodCare, LoopPCs

LEMMA LessNeglect ==
  ASSUME NEW x, NEW f, NEW N, GoodCare(x, N, f), NEW M, M \subseteq N
  PROVE  GoodCare(x, M, f)
  BY DEF GoodCare

\* A step that leaves the mailbox and the connection alone.
LEMMA CareStep ==
  ASSUME CoreInv, CareInv, [Next]_vars, UNCHANGED <<received, hid, base>>,
         \A m \in Neglected' : hid[m] > cursor' /\ expires'[m] = Null,
         \A j \in Tasks : task'[j] = task[j] \/ Stopped(task'[j]) \/ GoodCare(task'[j], Neglected', hid)
  PROVE  CareInv'
<1>1. Neglected' \subseteq Neglected /\ \A m \in Neglected' : m \in Arrived
  BY NeglectShrinks DEF Neglected
<1>2. ASSUME NEW j \in Tasks PROVE GoodCare(task'[j], Neglected', hid)
  <2>1. GoodCare(task[j], Neglected', hid)
    BY <1>1, LessNeglect DEF CareInv
  <2>2. Stopped(task'[j]) => GoodCare(task'[j], Neglected', hid)
    BY <1>1, StoppedCare
  <2>. QED BY <2>1, <2>2
<1>. QED BY <1>2 DEF CareInv

\* A handler that goes on with its messages, less some that are not neglected.
LEMMA GoesOn ==
  ASSUME NEW x, NEW y, NEW N, NEW f, GoodCare(x, N, f), x.pc \in {"rules"} \cup LoopPCs,
         y.cur = x.cur, y.latest \in {0, x.latest} \cup {f[o] : o \in Elements(x.todo)},
         Elements(y.todo) \subseteq Elements(x.todo),
         \A m \in N : m \in Elements(x.todo) => m \in Elements(y.todo),
         \A m \in N : f[m] > 0
  PROVE  GoodCare(y, N, f)
  BY DEF GoodCare

\* What all steps of handlers have in common.
LEMMA WorkerCommon ==
  ASSUME CoreInv, CareInv, NEW i \in Tasks, Worker(i)
  PROVE  /\ [Next]_vars /\ UNCHANGED <<received, hid, base>>
         /\ \A m \in Neglected' : /\ m \in Neglected /\ m \in Arrived /\ hid[m] > 0
                                  /\ hid[m] > cursor /\ expires[m] = Null
                                  /\ hid[m] > task[i].cur
         /\ GoodCare(task[i], Neglected', hid)
         /\ \A y : \A j \in Tasks : Moves(i, y) /\ j # i => task'[j] = task[j]
         /\ \A y : Moves(i, y) => task'[i] = y
         /\ Settles({i}) => \A j \in Tasks : task'[j] = task[j] \/ Stopped(task'[j])
<1>1. [Next]_vars /\ UNCHANGED <<received, hid, base>>
  BY WorkerFrame DEF Next
<1>2. Neglected' \subseteq Neglected
  BY <1>1, NeglectShrinks
<1>3. \A m \in Neglected : m \in Arrived /\ hid[m] > 0 /\ hid[m] > cursor /\ expires[m] = Null
  BY CoreTypes DEF Neglected, CareInv
<1>4. GoodCare(task[i], Neglected, hid)
  BY DEF CareInv
<1>5. GoodCare(task[i], Neglected', hid)
  BY <1>2, <1>4, LessNeglect
<1>6. \A m \in Neglected : hid[m] > task[i].cur
  BY <1>4 DEF GoodCare
<1>7. task \in [Tasks -> TaskType(latestHid)]
  BY DEF CoreInv, TaskInv
<1>. QED BY <1>1, <1>2, <1>3, <1>5, <1>6, <1>7 DEF Moves, Settles

\* The step of a handler whose task ends with care for what is still neglected.
LEMMA WorkerCares ==
  ASSUME CoreInv, CareInv, NEW i \in Tasks, Worker(i),
         \A m \in Neglected' : hid[m] > cursor' /\ expires'[m] = Null,
         Settles({i}) \/ \E y : Moves(i, y) /\ GoodCare(y, Neglected', hid)
  PROVE  CareInv'
<1>1. [Next]_vars /\ UNCHANGED <<received, hid, base>>
  BY WorkerCommon
<1>2. CASE Settles({i})
  <2>1. \A j \in Tasks : task'[j] = task[j] \/ Stopped(task'[j])
    BY <1>2, WorkerCommon
  <2>. QED BY <1>1, <2>1, CareStep
<1>3. ASSUME NEW y, Moves(i, y), GoodCare(y, Neglected', hid) PROVE CareInv'
  <2>1. task'[i] = y /\ \A j \in Tasks : j # i => task'[j] = task[j]
    BY <1>3, WorkerCommon
  <2>2. GoodCare(task'[i], Neglected', hid)
    BY <1>3, <2>1
  <2>3. \A j \in Tasks : task'[j] = task[j] \/ GoodCare(task'[j], Neglected', hid)
    BY <2>1, <2>2
  <2>. QED BY <1>1, <2>3, CareStep
<1>. QED BY <1>2, <1>3

\* history.list goes on from an id below every neglected message, and lists all there are
\* up to the last it lists.
LEMMA SinceCare ==
  ASSUME CoreInv, NEW N, N \subseteq Arrived, NEW h, h # 0, Known(h, hid, latestHid),
         \A m \in N : hid[m] > h, NEW m \in N \ Elements(Since(h))
  PROVE  \A o \in Elements(Since(h)) : hid[m] > hid[o]
<1>1. PICK n \in 0..(latestHid - h) :
        /\ Since(h) \in Seq(Messages) /\ Len(Since(h)) = n
        /\ \A k \in 1..n : hid[Since(h)[k]] = h + k
        /\ \A u \in Messages : hid[u] \in (h + 1)..(h + n) => u \in Elements(Since(h))
  <2>1. /\ latestHid \in Nat /\ \A u \in Messages : hid[u] \in Nat
        /\ \A u, v \in Messages : hid[u] = hid[v] /\ hid[u] # 0 => u = v
    BY CoreTypes
  <2>. QED BY <2>1, SinceLists
<1>2. h \in Nat /\ latestHid \in Nat /\ m \in Messages /\ hid[m] \in Nat /\ hid[m] > h
  BY CoreTypes DEF Known
<1>3. hid[m] > h + n
  BY <1>1, <1>2
<1>4. \A o \in Elements(Since(h)) : \E k \in 1..n : hid[o] = h + k
  BY <1>1 DEF Elements
<1>. QED BY <1>1, <1>2, <1>3, <1>4

LEMMA FetchCare ==
  ASSUME CoreInv, CareInv, NEW i \in Tasks, Worker(i), Fetch(i)
  PROVE  CareInv'
<1>. DEFINE x == task[i]
            N == Neglected'
<1>0. /\ [Next]_vars /\ UNCHANGED <<received, hid, base>> /\ GoodCare(x, N, hid)
      /\ \A m \in N : /\ m \in Neglected /\ m \in Arrived /\ hid[m] > 0
                      /\ hid[m] > cursor /\ expires[m] = Null /\ hid[m] > x.cur
  BY WorkerCommon
<1>3. UNCHANGED expires /\ cursor' \in {cursor, x.cur}
  BY DEF Fetch, Lookup, Token, HistoryList, MessagesList, Rules, Reauth, Save, account
<1>4. \A m \in N : hid[m] > cursor' /\ expires'[m] = Null
  BY <1>0, <1>3
<1>. SUFFICES Settles({i}) \/ \E y : Moves(i, y) /\ GoodCare(y, N, hid)
  BY <1>4, WorkerCares
<1>5. CASE Lookup(i)
  <2>1. ASSUME NEW y, y.pc = "token", y.cur = cursor PROVE GoodCare(y, N, hid)
    BY <1>0, <2>1 DEF GoodCare, LoopPCs
  <2>. QED BY <1>5, <2>1, LookupMoves
<1>6. CASE Token(i)
  <2>1. CASE ReturnErr(i)
    BY <2>1, ReturnSettles
  <2>2. CASE Goto(i, "history")
    <3>1. x.pc = "token" /\ Good(x)
      BY <1>6 DEF Token, At, CoreInv, TaskInv
    <3>2. Moves(i, MovedTo(x, "history"))
      BY <2>2, <3>1, GotoMoves
    <3>3. MovedTo(x, "history").pc = "history" /\ MovedTo(x, "history").cur = x.cur
      BY <3>1, MovedGood
    <3>4. GoodCare(MovedTo(x, "history"), N, hid)
      BY <1>0, <3>3 DEF GoodCare, LoopPCs
    <3>. QED BY <3>2, <3>4
  <2>. QED BY <1>6, <2>1, <2>2 DEF Token
<1>7. CASE HistoryList(i)
  <2>1. ASSUME NEW y, Moves(i, y), y.cur = x.cur,
               y.todo \in {<<>>} \cup (IF y.cur # 0 THEN {Since(y.cur)} ELSE {}),
               y.pc = IF y.todo = <<>> THEN "list" ELSE "rules",
               y.latest \in {0} \cup Ids(y.todo)
        PROVE  GoodCare(y, N, hid)
    <3>1. \A m \in N : hid[m] > y.cur
      BY <1>0, <2>1
    <3>2. CASE y.todo = <<>>
      <4>1. y.pc = "list"
        BY <2>1, <3>2
      <4>. QED BY <3>1, <4>1 DEF GoodCare, LoopPCs
    <3>3. CASE y.cur # 0 /\ y.todo = Since(y.cur)
      <4>1. Known(y.cur, hid, latestHid)
        BY <2>1, SavedKnown
      <4>2. \A m \in N \ Elements(y.todo) : \A o \in Elements(y.todo) : hid[m] > hid[o]
        <5>. DEFINE c == y.cur
        <5>1. c # 0 /\ Known(c, hid, latestHid) /\ (\A m \in N : hid[m] > c) /\ N \subseteq Arrived
          BY <1>0, <3>1, <3>3, <4>1
        <5>2. \A m \in N \ Elements(Since(c)) : \A o \in Elements(Since(c)) : hid[m] > hid[o]
          <6>. HIDE DEF c
          <6>. QED BY <5>1, SinceCare
        <5>. QED BY <3>3, <5>2
      <4>3. y.latest = 0 \/ \E o \in Elements(y.todo) : y.latest = hid[o]
        BY <2>1 DEF Ids, Elements
      <4>4. \A m \in N \ Elements(y.todo) : hid[m] > y.latest
        BY <1>0, <4>2, <4>3
      <4>. QED BY <3>1, <4>2, <4>4 DEF GoodCare
    <3>. QED BY <2>1, <3>2, <3>3
  <2>. QED BY <1>7, <2>1, HistoryMoves
<1>8. CASE MessagesList(i)
  <2>1. ASSUME NEW y, y.cur = x.cur, y.todo = Listed(i),
               crowded' = crowded \cup (InWindow(i) \ Elements(Listed(i)))
        PROVE  GoodCare(y, N, hid)
    <3>1. ASSUME NEW m \in N, m \notin Elements(Listed(i)) PROVE FALSE
      <4>1. m \in Arrived /\ ~Excused(m)'
        BY <1>0, <3>1 DEF Neglected, TakenCare
      <4>2. ~Old(m)' /\ m \notin crowded' /\ m \in Arrived'
        BY <1>0, <4>1 DEF Excused, Arrived
      <4>3. UNCHANGED <<now, lastSync, received>>
        BY WorkerFrame
      <4>4. received[m] \in Nat /\ now \in Nat /\ lastSync \in Nat /\ x.start \in Int
        BY <4>1, CoreTypes, SMTT(40) DEF CoreInv, TaskInv, TaskType
      <4>5. received[m] >= now - Window /\ received[m] >= lastSync
        BY <4>2, <4>3, <4>4 DEF Old
      <4>6. x.start <= now - Window \/ x.start <= lastSync
        BY <1>8 DEF MessagesList, At, CoreInv, TaskInv, Good, GoodTask
      <4>7. m \in InWindow(i)
        BY <4>1, <4>4, <4>5, <4>6 DEF InWindow
      <4>. QED BY <2>1, <3>1, <4>2, <4>7
    <3>. QED BY <1>0, <2>1, <3>1 DEF GoodCare
  <2>. QED BY <1>8, <2>1, ListMoves
<1>9. CASE Rules(i)
  <2>1. CASE ReturnErr(i)
    BY <2>1, ReturnSettles
  <2>2. CASE Goto(i, "dedup")
    <3>. DEFINE y == MovedTo(x, "dedup")
    <3>1. x.pc = "rules" /\ Good(x)
      BY <1>9 DEF Rules, At, CoreInv, TaskInv
    <3>2. Moves(i, y)
      BY <2>2, <3>1, GotoMoves
    <3>3. y.cur = x.cur /\ y.latest = x.latest /\ y.todo = x.todo
      BY <3>1, MovedGood
    <3>. HIDE DEF y
    <3>4. GoodCare(y, N, hid)
      BY <1>0, <3>1, <3>3, GoesOn, SMTT(40)
    <3>. QED BY <3>2, <3>4
  <2>. QED BY <1>9, <2>1, <2>2 DEF Rules
<1>. QED BY <1>5, <1>6, <1>7, <1>8, <1>9 DEF Fetch

\* What the loop does to a task: it goes on with the same messages, or less the first.
LEMMA LoopMoves ==
  ASSUME CoreInv, NEW i \in Tasks, Dedup(i) \/ Metadata(i) \/ FullBody(i) \/ Enqueue(i)
  PROVE  /\ task[i].todo # <<>> /\ task[i].pc \in LoopPCs
         /\ \/ Settles({i})
            \/ \E y : /\ Moves(i, y) /\ y.cur = task[i].cur
                      /\ y.latest \in {0, task[i].latest, hid[Msg(i)]}
                      /\ y.todo \in {task[i].todo, Tail(task[i].todo)}
<1>. DEFINE x == task[i]
            Goal == \/ Settles({i})
                    \/ \E y : /\ Moves(i, y) /\ y.cur = x.cur
                              /\ y.latest \in {0, x.latest, hid[Msg(i)]}
                              /\ y.todo \in {x.todo, Tail(x.todo)}
<1>1. x.todo # <<>> /\ x.pc \in LoopPCs /\ Good(x)
  BY DEF Dedup, Metadata, FullBody, Enqueue, InLoop, At, LoopPCs, CoreInv, TaskInv
<1>2. ASSUME Skip(i) PROVE Goal
  <2>1. Moves(i, Skipped(x))
    BY <1>1, <1>2, SkipMoves
  <2>2. /\ Skipped(x).cur = x.cur /\ Skipped(x).latest = x.latest
        /\ Skipped(x).todo = Tail(x.todo)
    BY <1>1, SkippedGood
  <2>. QED BY <2>1, <2>2
<1>3. ASSUME NEW p \in {"meta", "enqueue"}, Goto(i, p) PROVE Goal
  <2>1. Moves(i, MovedTo(x, p))
    BY <1>1, <1>3, GotoMoves
  <2>2. /\ MovedTo(x, p).cur = x.cur /\ MovedTo(x, p).latest = x.latest
        /\ MovedTo(x, p).todo = x.todo
    BY <1>1, <1>3, MovedGood
  <2>. QED BY <2>1, <2>2
<1>4. ASSUME LoopFault(i) PROVE Goal
  <2>1. /\ Skipped(x).cur = x.cur /\ Skipped(x).latest = x.latest
        /\ Skipped(x).todo = Tail(x.todo)
    BY <1>1, SkippedGood
  <2>. QED BY <1>1, <1>4, <2>1, FaultMoves
<1>5. ASSUME Metadata(i), ~LoopFault(i) PROVE Goal
  <2>1. CASE Moves(i, Skipped(x))
    <3>1. /\ Skipped(x).cur = x.cur /\ Skipped(x).latest = x.latest
          /\ Skipped(x).todo = Tail(x.todo)
      BY <1>1, SkippedGood
    <3>. QED BY <2>1, <3>1
  <2>2. CASE ~Moves(i, Skipped(x))
    <3>1. PICK l \in {0, x.latest, hid[Msg(i)]} :
            LET y == ReadUpTo(x, l) IN
            /\ Good(y) /\ y.pc = x.pc /\ y.todo = x.todo /\ y.cur = x.cur /\ y.latest = l
            /\ Moves(i, MovedTo(y, "full")) \/ Moves(i, Skipped(y))
      BY <1>5, <2>2, MetadataMoves
    <3>. DEFINE y == ReadUpTo(x, l)
    <3>2. /\ Good(y) /\ y.pc \in LoopPCs /\ y.todo = x.todo /\ y.todo # <<>> /\ y.cur = x.cur
          /\ y.latest = l /\ (Moves(i, MovedTo(y, "full")) \/ Moves(i, Skipped(y)))
      BY <1>1, <3>1
    <3>. HIDE DEF y
    <3>3. /\ MovedTo(y, "full").cur = x.cur /\ MovedTo(y, "full").latest = l
          /\ MovedTo(y, "full").todo = x.todo
      BY <3>2, MovedGood
    <3>4. Skipped(y).cur = x.cur /\ Skipped(y).latest = l /\ Skipped(y).todo = Tail(x.todo)
      BY <3>2, SkippedGood
    <3>. QED BY <3>1, <3>2, <3>3, <3>4
  <2>. QED BY <2>1, <2>2
<1>. QED BY <1>1, <1>2, <1>3, <1>4, <1>5 DEF Dedup, FullBody, Enqueue, Metadata

\* Nobody neglects the message a handler has at the head of its list.
LEMMA HeadCares ==
  ASSUME CoreInv, CareInv, NEW i \in Tasks, Dedup(i) \/ Metadata(i) \/ FullBody(i) \/ Enqueue(i)
  PROVE  Msg(i) \notin Neglected'
<1>. DEFINE x == task[i]
<1>. SUFFICES ASSUME NEW m, m = Msg(i), m \in Neglected' PROVE FALSE
  OBVIOUS
<1>0. /\ Worker(i) /\ x.todo # <<>> /\ m \in Arrived /\ m \in Messages
      /\ x \in TaskType(latestHid) /\ Good(x) /\ task \in [Tasks -> TaskType(latestHid)]
  BY LoopMoves, HeadArrived DEF Worker, Loop, CoreInv, TaskInv
<1>1. ~TakenCare(m)' /\ m \in Neglected /\ expires[m] = Null
  BY <1>0, WorkerCommon DEF Neglected
<1>2. CASE Dedup(i)
  <2>1. CASE Goto(i, "meta")
    <3>1. task'[i] = MovedTo(x, "meta")
      BY <1>0, <2>1 DEF Goto, MovedTo
    <3>2. x.pc \in LoopPCs
      BY <1>2, LoopMoves
    <3>3. MovedTo(x, "meta").pc = "meta" /\ MovedTo(x, "meta").todo = x.todo
      BY <1>0, <3>2, MovedGood
    <3>4. Holding(i, m)'
      BY <1>0, <3>1, <3>3 DEF Holding, Msg
    <3>. QED BY <1>1, <3>4 DEF TakenCare
  <2>2. CASE KeyLive(m)
    BY <1>1, <2>2 DEF KeyLive
  <2>. QED BY <1>2, <2>1, <2>2 DEF Dedup
<1>3. CASE Metadata(i) \/ FullBody(i) \/ Enqueue(i)
  <2>1. Holding(i, m)
    BY <1>0, <1>3 DEF Metadata, FullBody, Enqueue, InLoop, At, Holding
  <2>2. Holding(i, m)' \/ handoffs'[m] > 0 \/ Excused(m)'
    BY <1>0, <2>1, HolderCares
  <2>. QED BY <1>1, <2>2 DEF TakenCare
<1>. QED BY <1>2, <1>3

LEMMA LoopCare ==
  ASSUME CoreInv, CareInv, NEW i \in Tasks, Loop(i) \/ Ack(i)
  PROVE  CareInv'
<1>. DEFINE x == task[i]
            N == Neglected'
<1>0. /\ Worker(i) /\ GoodCare(x, N, hid)
      /\ \A m \in N : /\ m \in Neglected /\ m \in Arrived /\ hid[m] > 0
                      /\ hid[m] > cursor /\ expires[m] = Null /\ hid[m] > x.cur
  <2>1. Worker(i)
    BY DEF Worker
  <2>. QED BY <2>1, WorkerCommon
<1>1. CASE Dedup(i) \/ Metadata(i) \/ FullBody(i) \/ Enqueue(i)
  <2>1. Msg(i) \notin N /\ x.todo # <<>> /\ x.pc \in LoopPCs
    BY <1>1, HeadCares, LoopMoves
  <2>2. /\ Msg(i) \in Messages /\ Msg(i) \in Elements(x.todo)
        /\ Elements(x.todo) = {Msg(i)} \cup Elements(Tail(x.todo))
    BY <2>1, HeadArrived
  <2>3. \A m \in N : hid[m] > cursor' /\ expires'[m] = Null
    <3>1. cursor' = cursor
      BY <1>1 DEF Dedup, Metadata, FullBody, Enqueue, LoopFault, Reauth, account
    <3>2. \A m \in Messages : m # Msg(i) => expires'[m] = expires[m]
      BY <1>1 DEF Dedup, Metadata, FullBody, Enqueue, CoreInv, TypeOK
    <3>3. N \subseteq Messages
      BY <1>0, CoreTypes
    <3>. QED BY <1>0, <2>1, <3>1, <3>2, <3>3
  <2>4. ASSUME NEW y, y.cur = x.cur, y.latest \in {0, x.latest, hid[Msg(i)]},
               y.todo \in {x.todo, Tail(x.todo)}
        PROVE  GoodCare(y, N, hid)
    <3>1. y.latest \in {0, x.latest} \cup {hid[o] : o \in Elements(x.todo)}
      BY <2>2, <2>4
    <3>2. /\ Elements(y.todo) \subseteq Elements(x.todo)
          /\ \A m \in N : m \in Elements(x.todo) => m \in Elements(y.todo)
      BY <2>1, <2>2, <2>4
    <3>. HIDE DEF x, N
    <3>. QED BY <1>0, <2>1, <2>4, <3>1, <3>2, GoesOn
  <2>5. Settles({i}) \/ \E y : Moves(i, y) /\ GoodCare(y, N, hid)
    BY <1>1, <2>4, LoopMoves
  <2>. QED BY <1>0, <2>3, <2>5, WorkerCares
<1>2. CASE SaveCursor(i)
  <2>1. x.pc = "dedup" /\ x.todo = <<>> /\ ReturnNil(i) /\ UNCHANGED expires
        /\ cursor' \in {cursor, x.latest}
    BY <1>2 DEF SaveCursor, At, Save, account
  <2>2. Elements(x.todo) = {}
    BY <2>1 DEF Elements
  <2>3. \A m \in N : hid[m] > x.latest
    BY <1>0, <2>1, <2>2 DEF GoodCare, LoopPCs
  <2>4. \A m \in N : hid[m] > cursor' /\ expires'[m] = Null
    BY <1>0, <2>1, <2>3
  <2>. QED BY <1>0, <2>1, <2>4, ReturnSettles, WorkerCares
<1>3. CASE Ack(i)
  <2>1. Stopped(Idle) /\ UNCHANGED <<cursor, expires>>
    BY <1>3 DEF Stopped, Ack, account
  <2>2. Settles({i})
    BY <1>3, <2>1, SettleOne DEF Ack
  <2>. QED BY <1>0, <2>1, <2>2, WorkerCares
<1>. QED BY <1>1, <1>2, <1>3 DEF Loop

\* A message that arrives lies beyond every id anybody has read.
LEMMA ArriveCare ==
  ASSUME CoreInv, CareInv, NEW m \in Messages, Arrive(m)
  PROVE  CareInv'
<1>. DEFINE N == Neglected'
<1>0. /\ Arrived' = Arrived \cup {m} /\ m \notin Arrived
      /\ \A o \in Arrived : hid'[o] = hid[o]
      /\ hid'[m] = latestHid + 1
      /\ UNCHANGED <<base, cursor, expires, task>>
  BY ArriveMailbox DEF Arrive, account
<1>1. latestHid \in Nat /\ cursor \in 0..latestHid
      /\ \A o \in Arrived : hid[o] \in 1..latestHid
  BY CoreTypes DEF CoreInv, TypeOK
<1>2. expires[m] = Null
  BY <1>0 DEF CoreInv, MailboxInv
<1>3. \A o \in N : o = m \/ (o \in Neglected /\ o \in Arrived)
  <2>1. ASSUME NEW o \in N, o # m PROVE o \in Neglected /\ o \in Arrived
    <3>1. o \in Arrived /\ base < hid[o] /\ ~TakenCare(o)'
      BY <1>0, <2>1 DEF Neglected
    <3>2. [Next]_vars
      BY DEF Next, Environment
    <3>3. ~TakenCare(o)
      BY <3>1, <3>2, CareStays
    <3>. QED BY <3>1, <3>3 DEF Neglected
  <2>. QED BY <2>1
<1>4. \A o \in N : hid'[o] > cursor' /\ expires'[o] = Null
  BY <1>0, <1>1, <1>2, <1>3 DEF CareInv
<1>5. ASSUME NEW j \in Tasks PROVE GoodCare(task'[j], N, hid')
  <2>. DEFINE x == task[j]
  <2>1. /\ GoodCare(x, Neglected, hid) /\ x.cur \in 0..latestHid /\ x.latest \in 0..latestHid
        /\ Elements(x.todo) \subseteq Arrived
    <3>1. Good(x) /\ x \in TaskType(latestHid) /\ GoodCare(x, Neglected, hid)
      BY DEF CareInv, CoreInv, TaskInv
    <3>2. x.todo \in Seq(Messages) /\ \A k \in 1..Len(x.todo) : x.todo[k] \in Arrived
      BY <3>1 DEF Good, GoodTask, TaskType
    <3>3. x.cur \in 0..latestHid /\ x.latest \in 0..latestHid
      BY <3>1 DEF Good, GoodTask, TaskType, Known
    <3>4. Elements(x.todo) \subseteq Arrived
      <4>. HIDE DEF x
      <4>. QED BY <3>2 DEF Elements
    <3>. QED BY <3>1, <3>3, <3>4
  <2>2. task'[j] = x
    BY <1>0
  <2>. HIDE DEF x, N
  <2>3. \A o \in Elements(x.todo) : hid'[o] = hid[o] /\ hid[o] \in 1..latestHid
    BY <1>0, <1>1, <2>1
  <2>4. \A o \in N : hid'[o] > x.cur
    BY <1>0, <1>1, <1>3, <2>1 DEF GoodCare
  <2>5. ASSUME x.pc \in {"rules"} \cup LoopPCs, NEW o \in N \ Elements(x.todo)
        PROVE  hid'[o] > x.latest /\ \A u \in Elements(x.todo) : hid'[o] > hid'[u]
    <3>1. CASE o = m
      BY <1>0, <1>1, <2>1, <2>3, <3>1
    <3>2. CASE o # m
      <4>1. o \in Neglected \ Elements(x.todo) /\ hid'[o] = hid[o]
        BY <1>0, <1>3, <2>5, <3>2
      <4>. QED BY <2>1, <2>3, <2>5, <4>1 DEF GoodCare
    <3>. QED BY <3>1, <3>2
  <2>. QED BY <2>2, <2>4, <2>5 DEF GoodCare
<1>. QED BY <1>4, <1>5 DEF CareInv

\* Since a new connection, nothing has arrived.
LEMMA ReconnectCare ==
  ASSUME CoreInv, CareInv, Reconnect
  PROVE  CareInv'
<1>1. base' = latestHid /\ hid' = hid /\ Arrived' = Arrived
  BY OtherFrame DEF Reconnect
<1>2. \A m \in Arrived : hid[m] \in 1..latestHid /\ latestHid \in Nat
  BY CoreTypes
<1>3. Neglected' = {}
  BY <1>1, <1>2 DEF Neglected
<1>. QED BY <1>3 DEF CareInv, GoodCare

LEMMA OtherCare ==
  ASSUME CoreInv, CareInv, [Next]_vars,
         \/ Tick \/ Disconnect \/ RenewWatch \/ RenewSave \/ Crash \/ Webhook \/ UNCHANGED vars
         \/ \E i \in Tasks : Expire(i)
         \/ \E m \in Messages : Process(m)
  PROVE  CareInv'
<1>1. UNCHANGED <<received, hid, base, expires>>
  BY DEF Tick, Disconnect, RenewWatch, RenewSave, Crash, Webhook, Expire, Process, vars, mailbox
<1>2. \A j \in Tasks : task'[j] = task[j] \/ Stopped(task'[j])
  <2>1. CASE UNCHANGED task
    BY <2>1
  <2>2. CASE Crash \/ Webhook \/ \E i \in Tasks : Expire(i)
    BY <2>2, OtherFrame DEF Settles
  <2>. QED BY <2>1, <2>2 DEF Tick, Disconnect, RenewWatch, RenewSave, Process, vars
<1>3. \A m \in Neglected' : m \in Neglected /\ m \in Arrived /\ ~Excused(m)'
  BY <1>1, NeglectShrinks DEF Neglected, TakenCare
<1>4. \A m \in Neglected' : hid[m] > cursor' /\ expires'[m] = Null
  <2>1. \A m \in Neglected' : hid[m] > cursor /\ expires[m] = Null
    BY <1>3 DEF CareInv
  <2>2. CASE UNCHANGED cursor
    BY <1>1, <2>1, <2>2
  <2>3. CASE Disconnect
    <3>1. cursor' = 0 /\ \A m \in Arrived : hid[m] \in 1..latestHid
      BY <2>3, CoreTypes DEF Disconnect
    <3>2. latestHid \in Nat
      BY CoreTypes
    <3>. QED BY <1>1, <1>3, <2>1, <3>1, <3>2
  <2>4. CASE RenewSave /\ ~UNCHANGED cursor
    <3>1. /\ cursor' = renewal /\ renewal # Null
          /\ leapt' = leapt \cup {m \in Arrived : hid[m] > cursor /\ hid[m] <= renewal}
      BY <2>4 DEF RenewSave, account
    <3>2. /\ renewal \in 0..latestHid /\ latestHid \in Nat
          /\ \A m \in Arrived : hid[m] \in 1..latestHid
      BY <3>1, CoreTypes DEF CoreInv, MailboxInv, Known
    <3>3. ASSUME NEW m \in Neglected', ~(hid[m] > renewal) PROVE FALSE
      <4>1. m \in Arrived /\ hid[m] > cursor /\ hid[m] <= renewal
        BY <1>3, <2>1, <3>2, <3>3
      <4>2. m \in leapt'
        BY <3>1, <4>1
      <4>. QED BY <1>3, <4>2 DEF Excused
    <3>. QED BY <1>1, <2>1, <3>1, <3>3
  <2>. QED BY <2>2, <2>3, <2>4 DEF Tick, RenewWatch, Crash, Webhook, Expire, Process, vars, account
<1>. QED BY <1>1, <1>2, <1>4, CareStep

LEMMA CareInvStep == CoreInv /\ CareInv /\ [Next]_vars => CareInv'
<1>. SUFFICES ASSUME CoreInv, CareInv, [Next]_vars PROVE CareInv'
  OBVIOUS
<1>1. ASSUME NEW i \in Tasks, Worker(i) PROVE CareInv'
  BY <1>1, FetchCare, LoopCare DEF Worker
<1>2. ASSUME NEW m \in Messages, Arrive(m) PROVE CareInv'
  BY <1>2, ArriveCare
<1>. QED BY <1>1, <1>2, ReconnectCare, OtherCare DEF Next, Environment

LEMMA CareCorrect == Spec => [](CoreInv /\ CareInv)
<1>1. Init => CareInv
  <2>. SUFFICES ASSUME Init PROVE CareInv
    OBVIOUS
  <2>1. Neglected = {}
    BY DEF Init, Neglected, Arrived
  <2>. QED BY <2>1 DEF CareInv, GoodCare
<1>. QED BY <1>1, InitCore, CoreStep, CareInvStep, PTL DEF Spec

\* CursorSkipsNothing: whichever handlers, reconnections and renewals write the cursor,
\* and however late, it never passes a message that nobody has handed off or holds, but
\* for one the renewal of the watch leapt over or a failure hit.
THEOREM CursorPassesNothing == Spec => []CursorSkipsNothing
<1>1. CoreInv /\ CareInv => CursorSkipsNothing
  BY CareMeansSkipsNothing
<1>. QED BY <1>1, CareCorrect, PTL

-----------------------------------------------------------------------------
(* GmailFetch implements Handoff.                                          *)

\* The key of a message outlives its arrival by a key's lifetime.
KeyInv == \A m \in Messages : expires[m] # Null => expires[m] >= received[m] + KeyTTL

\* A task is going to hand m off: it holds m, and does not drop it for its date (r).
Accepting(x, m, r) == /\ x.pc \in {"meta", "full", "enqueue"} /\ x.todo # <<>> /\ Head(x.todo) = m
                      /\ x.pc \in {"full", "enqueue"} \/ r[m] >= x.start
Accepts(i, m) == Accepting(task[i], m, received)

\* Of a message whose dedup check never failed: its key was set before a task accepted it,
\* at most one task has, and that one has not handed it off yet.
OnceInv ==
  \A m \in Messages \ bypassed :
    /\ handoffs[m] > 0 => expires[m] # Null
    /\ \A i \in Tasks : Accepts(i, m) =>
         /\ expires[m] # Null /\ handoffs[m] = 0
         /\ \A j \in Tasks : Accepts(j, m) => i = j

HandoffInv == KeyInv /\ OnceInv

\* After such a step nobody accepts what he did not accept.
NoNewAccept == \A i \in Tasks, m \in Messages : Accepts(i, m)' => Accepts(i, m)

LEMMA QuietStep ==
  ASSUME CoreInv, HandoffInv, NoNewAccept, UNCHANGED <<bypassed, expires, handoffs>>,
         \A m \in Arrived : received'[m] = received[m]
  PROVE  HandoffInv'
<1>1. KeyInv'
  BY DEF HandoffInv, KeyInv, CoreInv, MailboxInv
<1>2. OnceInv'
  BY DEF HandoffInv, OnceInv, NoNewAccept
<1>. QED BY <1>1, <1>2 DEF HandoffInv

LEMMA SettlesAccepts ==
  ASSUME CoreInv, UNCHANGED received, NEW S, Settles(S)
  PROVE  NoNewAccept
<1>1. \A j \in Tasks : task'[j] = task[j] \/ task'[j].todo = <<>>
  BY StoppedTask DEF Settles
<1>. QED BY <1>1 DEF NoNewAccept, Accepts, Accepting

LEMMA MovesAccepts ==
  ASSUME CoreInv, UNCHANGED received, NEW i \in Tasks, NEW y, Moves(i, y)
  PROVE  /\ (\A m \in Messages : Accepting(y, m, received) => Accepts(i, m)) => NoNewAccept
         /\ \A m \in Messages : Accepts(i, m)' <=> Accepting(y, m, received)
         /\ \A j \in Tasks \ {i} : \A m \in Messages : Accepts(j, m)' <=> Accepts(j, m)
<1>1. task'[i] = y /\ \A j \in Tasks : j # i => task'[j] = task[j]
  BY DEF Moves, CoreInv, TaskInv
<1>. QED BY <1>1 DEF NoNewAccept, Accepts

\* Only a dedup check makes a handler accept a message.
LEMMA WorkerAccepts ==
  ASSUME CoreInv, NEW i \in Tasks, Worker(i), ~Dedup(i)
  PROVE  NoNewAccept
<1>. DEFINE x == task[i]
<1>0. UNCHANGED received /\ Good(x)
  BY WorkerFrame DEF CoreInv, TaskInv
<1>1. ASSUME NEW S, Settles(S) PROVE NoNewAccept
  BY <1>0, <1>1, SettlesAccepts
<1>2. ASSUME NEW y, Moves(i, y), y.pc \notin {"meta", "full", "enqueue"} PROVE NoNewAccept
  BY <1>0, <1>2, MovesAccepts DEF Accepting
<1>3. CASE Lookup(i) \/ HistoryList(i) \/ MessagesList(i)
  <2>1. Settles({i}) \/ \E y : Moves(i, y) /\ y.pc \in {"token", "list", "rules"}
    BY <1>3, LookupMoves, HistoryMoves, ListMoves
  <2>. QED BY <1>1, <1>2, <2>1
<1>4. CASE Token(i) \/ Rules(i)
  <2>1. CASE ReturnErr(i)
    BY <1>1, <2>1, ReturnSettles
  <2>2. ASSUME NEW p, Goto(i, p),
               \/ x.pc = "token" /\ p = "history"
               \/ x.pc = "rules" /\ p = "dedup"
        PROVE  NoNewAccept
    <3>1. Moves(i, MovedTo(x, p)) /\ MovedTo(x, p).pc = p
      BY <1>0, <2>2, GotoMoves, MovedGood
    <3>. QED BY <1>2, <2>2, <3>1
  <2>3. CASE Token(i)
    BY <2>1, <2>2, <2>3 DEF Token, At
  <2>4. CASE Rules(i)
    BY <2>1, <2>2, <2>4 DEF Rules, At
  <2>. QED BY <1>4, <2>3, <2>4
<1>5. ASSUME x.pc \in LoopPCs, x.todo # <<>>, Moves(i, Skipped(x)) PROVE NoNewAccept
  <2>1. Skipped(x).pc = "dedup"
    BY <1>0, <1>5, SkippedGood
  <2>. QED BY <1>2, <1>5, <2>1
<1>6. CASE Metadata(i) \/ FullBody(i) \/ Enqueue(i)
  <2>0. x.todo # <<>> /\ x.pc \in LoopPCs
    BY <1>6, LoopMoves
  <2>1. CASE LoopFault(i)
    BY <1>1, <1>5, <2>0, <2>1, FaultMoves
  <2>2. CASE Metadata(i) /\ ~LoopFault(i)
    <3>0. x.pc = "meta"
      BY <2>2 DEF Metadata, InLoop, At
    <3>1. CASE Moves(i, Skipped(x))
      BY <1>5, <2>0, <3>1
    <3>2. CASE ~Moves(i, Skipped(x))
      <4>1. PICK l \in {0, x.latest, hid[Msg(i)]} :
              LET y == ReadUpTo(x, l) IN
              /\ received[Msg(i)] >= x.start /\ Good(y) /\ y.pc = x.pc /\ y.todo = x.todo
              /\ Moves(i, MovedTo(y, "full")) \/ Moves(i, Skipped(y))
        BY <2>2, <3>2, MetadataMoves
      <4>. DEFINE y == ReadUpTo(x, l)
      <4>2. /\ Good(y) /\ y.pc \in LoopPCs /\ y.todo = x.todo /\ y.todo # <<>>
            /\ received[Msg(i)] >= x.start
            /\ Moves(i, MovedTo(y, "full")) \/ Moves(i, Skipped(y))
        BY <2>0, <4>1
      <4>. HIDE DEF y
      <4>3. MovedTo(y, "full").pc = "full" /\ MovedTo(y, "full").todo = x.todo
        BY <4>2, MovedGood
      <4>4. Skipped(y).pc = "dedup"
        BY <4>2, SkippedGood
      <4>5. \A m \in Messages : Accepting(MovedTo(y, "full"), m, received) => Accepts(i, m)
        BY <3>0, <4>2, <4>3 DEF Accepts, Accepting, Msg
      <4>. QED BY <1>0, <1>2, <4>2, <4>4, <4>5, MovesAccepts
    <3>. QED BY <3>1, <3>2
  <2>3. CASE FullBody(i) /\ ~LoopFault(i)
    <3>1. x.pc = "full" /\ Moves(i, MovedTo(x, "enqueue"))
      BY <2>0, <2>3, GotoMoves DEF FullBody, InLoop, At
    <3>2. MovedTo(x, "enqueue").pc = "enqueue" /\ MovedTo(x, "enqueue").todo = x.todo
      BY <1>0, <2>0, MovedGood
    <3>3. \A m \in Messages : Accepting(MovedTo(x, "enqueue"), m, received) => Accepts(i, m)
      BY <3>1, <3>2 DEF Accepts, Accepting
    <3>. QED BY <1>0, <3>1, <3>3, MovesAccepts
  <2>4. CASE Enqueue(i)
    BY <1>5, <2>0, <2>4, SkipMoves DEF Enqueue
  <2>. QED BY <1>6, <2>1, <2>2, <2>3, <2>4
<1>7. CASE SaveCursor(i)
  BY <1>1, <1>7, ReturnSettles DEF SaveCursor
<1>8. CASE Ack(i)
  <2>1. Stopped(Idle)
    BY DEF Stopped
  <2>. QED BY <1>1, <1>8, <2>1, SettleOne DEF Ack
<1>. QED BY <1>3, <1>4, <1>6, <1>7, <1>8 DEF Worker, Fetch, Loop

\* A message whose key was set before, and may be claimed again, is too old for every
\* handler that runs: the key outlived the window and the time a task has.
LEMMA ClaimedIsOld ==
  ASSUME CoreInv, KeyInv, NEW i \in Tasks, At(i, "dedup"), task[i].todo # <<>>,
         expires[Msg(i)] # Null, ~KeyLive(Msg(i))
  PROVE  received[Msg(i)] < task[i].start
<1>. DEFINE m == Msg(i)
            x == task[i]
<1>1. m \in Messages /\ m \in Arrived
  BY HeadArrived
<1>2. received[m] \in Nat /\ expires[m] \in Nat /\ now \in Nat
  <2>1. expires \in [Messages -> Nat \cup {Null}]
    BY DEF CoreInv, TypeOK
  <2>2. received[m] \in 0..now /\ now \in Nat
    BY <1>1, CoreTypes
  <2>. QED BY <1>1, <2>1, <2>2
<1>3. received[m] + KeyTTL <= expires[m] /\ expires[m] <= now
  BY <1>1, <1>2 DEF KeyInv, KeyLive
<1>4. /\ x.begun \in Nat /\ x.start \in Int /\ now <= x.begun + Timeout
      /\ x.start >= x.begun - Window
  BY DEF CoreInv, TaskInv, Good, GoodTask, TaskType, At, LoopPCs
<1>. HIDE DEF m, x
<1>5. received[m] < x.start
  BY <1>2, <1>3, <1>4
<1>. QED BY <1>5 DEF m, x

LEMMA DedupKeeps ==
  ASSUME CoreInv, HandoffInv, NEW i \in Tasks, Dedup(i)
  PROVE  HandoffInv'
<1>. DEFINE x == task[i]
<1>. SUFFICES ASSUME NEW m, m = Msg(i) PROVE HandoffInv'
  OBVIOUS
<1>0. /\ At(i, "dedup") /\ x.todo # <<>> /\ x.pc \in LoopPCs /\ Good(x)
      /\ m \in Messages /\ m \in Arrived /\ m = Head(x.todo)
      /\ UNCHANGED <<received, handoffs, now>>
  BY HeadArrived DEF Dedup, InLoop, At, LoopPCs, CoreInv, TaskInv, Msg, mailbox
<1>1. \A o \in Messages : ~Accepts(i, o)
  BY <1>0 DEF Accepts, Accepting, At
<1>2. CASE Skip(i) /\ UNCHANGED <<expires, bypassed>>
  <2>1. Moves(i, Skipped(x)) /\ Skipped(x).pc = "dedup"
    BY <1>0, <1>2, SkipMoves, SkippedGood
  <2>2. NoNewAccept
    BY <1>0, <2>1, MovesAccepts DEF Accepting
  <2>. QED BY <1>0, <1>2, <2>2, QuietStep
<1>3. CASE Goto(i, "meta")
  <2>. DEFINE y == MovedTo(x, "meta")
  <2>1. Moves(i, y) /\ y.pc = "meta" /\ y.todo = x.todo /\ y.start = x.start
    BY <1>0, <1>3, GotoMoves, MovedGood
  <2>. HIDE DEF y
  <2>2. \A o \in Messages : Accepts(i, o)' => o = m /\ received[m] >= x.start
    BY <1>0, <2>1, MovesAccepts DEF Accepting
  <2>3. \A j \in Tasks \ {i} : \A o \in Messages : Accepts(j, o)' <=> Accepts(j, o)
    BY <1>0, <2>1, MovesAccepts
  <2>4. \/ expires' = expires /\ bypassed' = bypassed \cup {m}
        \/ /\ ~KeyLive(m) /\ expires' = [expires EXCEPT ![m] = now + KeyTTL]
           /\ bypassed' \in {bypassed, bypassed \cup {m}}
        \/ Skip(i) /\ UNCHANGED <<expires, bypassed>>
    BY <1>0 DEF Dedup
  <2>5. CASE Skip(i) /\ UNCHANGED <<expires, bypassed>>
    BY <1>2, <2>5
  <2>6. CASE ~(Skip(i) /\ UNCHANGED <<expires, bypassed>>)
    <3>1. /\ \A o \in Messages : expires'[o] = expires[o] \/ (o = m /\ expires'[o] = now + KeyTTL)
          /\ now + KeyTTL \in Nat /\ now + KeyTTL # Null
      BY <2>4, <2>6 DEF CoreInv, TypeOK
    <3>2. KeyInv'
      <4>1. received[m] \in Nat /\ received[m] <= now /\ now \in Nat
        BY <1>0, CoreTypes
      <4>2. now + KeyTTL >= received[m] + KeyTTL
        BY <4>1
      <4>. QED BY <1>0, <3>1, <4>2 DEF HandoffInv, KeyInv
    <3>3. \A o : o \notin bypassed' => o \notin bypassed
      BY <2>4, <2>6
    <3>4. ASSUME NEW o \in Messages \ bypassed'
          PROVE  /\ handoffs[o] > 0 => expires'[o] # Null
                 /\ expires[o] # Null => expires'[o] # Null
      BY <3>1, <3>3, <3>4 DEF HandoffInv, OnceInv
    <3>5. ASSUME m \notin bypassed', received[m] >= x.start
          PROVE  /\ expires'[m] # Null /\ handoffs[m] = 0
                 /\ \A j \in Tasks : ~Accepts(j, m)
      <4>1. ~KeyLive(m) /\ expires' = [expires EXCEPT ![m] = now + KeyTTL]
        BY <2>4, <2>6, <3>5
      <4>2. expires[m] = Null
        <5>1. received[m] \in Nat /\ x.start \in Int
          BY <1>0, CoreTypes, SMTT(40) DEF Good, GoodTask, TaskType
        <5>2. ASSUME expires[m] # Null PROVE received[m] < x.start
          BY <1>0, <4>1, <5>2, ClaimedIsOld DEF HandoffInv
        <5>. QED BY <3>5, <5>1, <5>2
      <4>3. handoffs[m] \in Nat /\ ~(handoffs[m] > 0) /\ \A j \in Tasks : ~Accepts(j, m)
        BY <1>0, <3>3, <3>5, <4>2 DEF HandoffInv, OnceInv, CoreInv, TypeOK
      <4>4. expires'[m] = now + KeyTTL
        BY <1>0, <4>1 DEF CoreInv, TypeOK
      <4>. QED BY <3>1, <4>3, <4>4
    <3>6. ASSUME NEW o \in Messages \ bypassed', NEW j \in Tasks, Accepts(j, o)'
          PROVE  /\ expires'[o] # Null /\ handoffs[o] = 0
                 /\ \A k \in Tasks : Accepts(k, o)' => j = k
      <4>1. CASE \E k \in Tasks : k = i /\ Accepts(k, o)'
        <5>1. o = m /\ received[m] >= x.start
          BY <2>2, <4>1
        <5>. QED BY <2>3, <3>5, <3>6, <5>1
      <4>2. CASE ~\E k \in Tasks : k = i /\ Accepts(k, o)'
        <5>1. j # i /\ Accepts(j, o) /\ \A k \in Tasks : Accepts(k, o)' => k # i /\ Accepts(k, o)
          BY <2>3, <3>6, <4>2
        <5>. QED BY <3>3, <3>4, <3>6, <5>1 DEF HandoffInv, OnceInv
      <4>. QED BY <4>1, <4>2
    <3>7. OnceInv'
      BY <1>0, <3>4, <3>6 DEF OnceInv
    <3>. QED BY <3>2, <3>7 DEF HandoffInv
  <2>. QED BY <2>5, <2>6
<1>. QED BY <1>2, <1>3 DEF Dedup

LEMMA EnqueueKeeps ==
  ASSUME CoreInv, HandoffInv, NEW i \in Tasks, Enqueue(i)
  PROVE  HandoffInv'
<1>. DEFINE x == task[i]
<1>. SUFFICES ASSUME NEW m, m = Msg(i) PROVE HandoffInv'
  OBVIOUS
<1>0. /\ x.pc = "enqueue" /\ x.todo # <<>> /\ Skip(i) /\ Good(x)
      /\ m \in Messages /\ m \in Arrived /\ m = Head(x.todo)
      /\ UNCHANGED <<received, expires, bypassed>>
  BY HeadArrived DEF Enqueue, InLoop, At, CoreInv, TaskInv, Msg, mailbox
<1>1. Accepts(i, m)
  BY <1>0 DEF Accepts, Accepting
<1>2. Moves(i, Skipped(x)) /\ Skipped(x).pc = "dedup"
  BY <1>0, SkipMoves, SkippedGood DEF LoopPCs
<1>3. (\A o \in Messages : ~Accepts(i, o)') /\ NoNewAccept
  BY <1>0, <1>2, MovesAccepts DEF Accepting
<1>4. \A o \in Messages : handoffs'[o] = handoffs[o] \/ o = m
  BY <1>0 DEF Enqueue, CoreInv, TypeOK
<1>5. KeyInv'
  BY <1>0 DEF HandoffInv, KeyInv
<1>6. OnceInv'
  <2>1. ASSUME NEW o \in Messages \ bypassed
        PROVE  handoffs'[o] > 0 => expires[o] # Null
    BY <1>0, <1>1, <1>4, <2>1 DEF HandoffInv, OnceInv
  <2>2. ASSUME NEW o \in Messages \ bypassed, NEW j \in Tasks, Accepts(j, o)'
        PROVE  /\ expires[o] # Null /\ handoffs'[o] = 0
               /\ \A k \in Tasks : Accepts(k, o)' => j = k
    <3>1. Accepts(j, o) /\ j # i
      BY <1>3, <2>2 DEF NoNewAccept
    <3>2. o # m
      BY <1>1, <2>2, <3>1 DEF HandoffInv, OnceInv
    <3>3. \A k \in Tasks : Accepts(k, o)' => Accepts(k, o)
      BY <1>3 DEF NoNewAccept
    <3>. QED BY <1>4, <2>2, <3>1, <3>2, <3>3 DEF HandoffInv, OnceInv
  <2>. QED BY <1>0, <2>1, <2>2 DEF OnceInv
<1>. QED BY <1>5, <1>6 DEF HandoffInv

LEMMA ArriveKeeps ==
  ASSUME CoreInv, HandoffInv, NEW m \in Messages, Arrive(m)
  PROVE  HandoffInv'
<1>1. /\ UNCHANGED <<task, bypassed, expires, handoffs>> /\ m \notin Arrived
      /\ \A o \in Arrived : received'[o] = received[o]
  BY ArriveMailbox DEF Arrive
<1>2. ASSUME NEW j \in Tasks, NEW o \in Messages, Accepts(j, o)' PROVE Accepts(j, o)
  <2>1. task'[j] = task[j] /\ task[j].todo # <<>> /\ o = Msg(j)
    BY <1>1, <1>2 DEF Accepts, Accepting, Msg
  <2>2. o \in Arrived
    BY <2>1, HeadArrived
  <2>. QED BY <1>1, <1>2, <2>1, <2>2 DEF Accepts, Accepting
<1>3. NoNewAccept
  BY <1>2 DEF NoNewAccept
<1>. QED BY <1>1, <1>3, QuietStep

\* A step that is neither claims nothing and hands nothing off.
LEMMA NeitherFrame ==
  ASSUME NEW i \in Tasks, Worker(i), ~Dedup(i), ~Enqueue(i)
  PROVE  UNCHANGED <<received, bypassed, expires, handoffs>>
<1>. SUFFICES UNCHANGED <<bypassed, expires, handoffs>>
  BY WorkerFrame
<1>1. CASE Lookup(i) \/ Token(i)
  BY <1>1 DEF Lookup, Token
<1>2. CASE HistoryList(i) \/ MessagesList(i) \/ Rules(i)
  BY <1>2 DEF HistoryList, MessagesList, Rules
<1>3. CASE Metadata(i) \/ FullBody(i)
  BY <1>3 DEF Metadata, FullBody
<1>4. CASE SaveCursor(i) \/ Ack(i)
  BY <1>4 DEF SaveCursor, Ack
<1>. QED BY <1>1, <1>2, <1>3, <1>4 DEF Worker, Fetch, Loop

LEMMA HandoffInvStep == CoreInv /\ HandoffInv /\ [Next]_vars => HandoffInv'
<1>. SUFFICES ASSUME CoreInv, HandoffInv, [Next]_vars PROVE HandoffInv'
  OBVIOUS
<1>1. ASSUME NEW i \in Tasks, Worker(i) PROVE HandoffInv'
  <2>1. CASE Dedup(i) \/ Enqueue(i)
    BY <2>1, DedupKeeps, EnqueueKeeps
  <2>2. CASE ~Dedup(i) /\ ~Enqueue(i)
    <3>1. UNCHANGED <<received, bypassed, expires, handoffs>>
      BY <1>1, <2>2, NeitherFrame
    <3>. QED BY <1>1, <2>2, <3>1, WorkerAccepts, QuietStep, SMTT(40)
  <2>. QED BY <2>1, <2>2
<1>2. ASSUME NEW m \in Messages, Arrive(m) PROVE HandoffInv'
  BY <1>2, ArriveKeeps
<1>3. CASE \/ Reconnect \/ Disconnect \/ RenewWatch \/ RenewSave \/ Crash \/ Webhook
           \/ \E i \in Tasks : Expire(i)
  <2>1. UNCHANGED <<received, expires, handoffs, bypassed>>
    BY <1>3, OtherFrame DEF Reconnect, Disconnect, RenewWatch, RenewSave, Crash, Webhook, Expire
  <2>2. NoNewAccept
    BY <1>3, <2>1, OtherFrame, SettlesAccepts
  <2>. QED BY <2>1, <2>2, QuietStep
<1>4. CASE Tick \/ (\E m \in Messages : Process(m)) \/ UNCHANGED vars
  <2>1. UNCHANGED <<received, expires, handoffs, bypassed, task>>
    BY <1>4 DEF Tick, Process, vars, mailbox
  <2>2. NoNewAccept
    BY <2>1 DEF NoNewAccept, Accepts
  <2>. QED BY <2>1, <2>2, QuietStep
<1>. QED BY <1>1, <1>2, <1>3, <1>4 DEF Next, Environment

LEMMA HandoffCorrect == Spec => [](CoreInv /\ HandoffInv)
<1>1. Init => HandoffInv
  BY DEF Init, HandoffInv, KeyInv, OnceInv, Accepts, Accepting, Idle
<1>. QED BY <1>1, InitCore, CoreStep, HandoffInvStep, PTL DEF Spec

\* Every step is one of Handoff, or leaves arrivals, hand-offs and exemptions alone.
LEMMA StepRefines ==
  ASSUME CoreInv, HandoffInv, [Next]_vars
  PROVE  [H!Next]_H!vars
<1>1. ASSUME UNCHANGED <<received, handoffs, bypassed>> PROVE UNCHANGED H!vars
  BY <1>1 DEF H!vars, Arrived
<1>2. ASSUME NEW m \in Messages, Arrive(m) PROVE H!Arrive(m)
  <2>1. Arrived' = Arrived \cup {m} /\ m \notin Arrived
    BY <1>2, ArriveMailbox
  <2>2. UNCHANGED <<handoffs, bypassed>>
    BY <1>2 DEF Arrive
  <2>. QED BY <2>1, <2>2 DEF H!Arrive
<1>3. ASSUME NEW i \in Tasks, Dedup(i) PROVE [H!Next]_H!vars
  <2>1. Msg(i) \in Messages /\ Msg(i) \in Arrived
    BY <1>3, HeadArrived DEF Dedup, InLoop
  <2>2. /\ UNCHANGED <<received, handoffs>>
        /\ bypassed' \in {bypassed, bypassed \cup {Msg(i)}}
    BY <1>3 DEF Dedup, mailbox
  <2>3. Arrived' = Arrived
    BY <2>2 DEF Arrived
  <2>4. CASE bypassed' = bypassed
    BY <1>1, <2>2, <2>4
  <2>5. CASE bypassed' = bypassed \cup {Msg(i)}
    <3>1. H!Exempt(Msg(i))
      BY <2>1, <2>2, <2>3, <2>5 DEF H!Exempt
    <3>. QED BY <2>1, <3>1 DEF H!Next
  <2>. QED BY <2>2, <2>4, <2>5
<1>4. ASSUME NEW i \in Tasks, Enqueue(i) PROVE [H!Next]_H!vars
  <2>1. task[i].todo # <<>> /\ task[i].pc = "enqueue" /\ UNCHANGED <<received, bypassed>>
    BY <1>4 DEF Enqueue, InLoop, At, mailbox
  <2>2. Msg(i) \in Messages /\ Msg(i) \in Arrived /\ Arrived' = Arrived
    BY <2>1, HeadArrived DEF Arrived
  <2>3. Accepts(i, Msg(i))
    BY <2>1 DEF Accepts, Accepting, Msg
  <2>4. handoffs[Msg(i)] = 0 \/ Msg(i) \in bypassed
    BY <2>2, <2>3 DEF HandoffInv, OnceInv
  <2>5. CASE handoffs' = handoffs
    BY <1>1, <2>1, <2>5
  <2>6. CASE handoffs' = [handoffs EXCEPT ![Msg(i)] = @ + 1]
    <3>1. H!HandOff(Msg(i))
      BY <2>1, <2>2, <2>4, <2>6 DEF H!HandOff
    <3>. QED BY <2>2, <3>1 DEF H!Next
  <2>. QED BY <1>4, <2>5, <2>6 DEF Enqueue
<1>5. ASSUME NEW i \in Tasks, Worker(i) PROVE [H!Next]_H!vars
  <2>1. CASE Dedup(i) \/ Enqueue(i)
    BY <2>1, <1>3, <1>4
  <2>2. CASE ~Dedup(i) /\ ~Enqueue(i)
    <3>1. UNCHANGED <<received, handoffs, bypassed>>
      BY <1>5, <2>2, NeitherFrame
    <3>. QED BY <1>1, <3>1, SMTT(40)
  <2>. QED BY <2>1, <2>2
<1>6. CASE \/ Tick \/ Reconnect \/ Disconnect \/ RenewWatch \/ RenewSave \/ Crash \/ Webhook
           \/ UNCHANGED vars \/ (\E m \in Messages : Process(m)) \/ (\E i \in Tasks : Expire(i))
  <2>1. UNCHANGED <<received, handoffs, bypassed>>
    BY <1>6 DEF Tick, Reconnect, Disconnect, RenewWatch, RenewSave, Crash, Webhook, Process, Expire,
         vars, mailbox
  <2>. QED BY <1>1, <2>1
<1>. QED BY <1>2, <1>5, <1>6 DEF Next, Environment, H!Next

\* ImplementsHandoff: however many handlers scan the history from old cursors, or list the
\* messages instead, with failures and crashes between them, a message is handed off at
\* most once - unless Redis failed a dedup check of it.
THEOREM GmailImplementsHandoff == Spec => ImplementsHandoff
<1>1. Init => H!Init
  BY DEF Init, H!Init, Arrived
<1>2. CoreInv /\ HandoffInv /\ [Next]_vars => [H!Next]_H!vars
  BY StepRefines
<1>. QED BY <1>1, <1>2, HandoffCorrect, PTL DEF Spec, ImplementsHandoff, H!Spec
=============================================================================
