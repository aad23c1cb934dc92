--------------------------- MODULE ImapPoolProofs ---------------------------
(* Theorems of ImapPool, for any number of accounts, supervisors, failures   *)
(* and ticks.                                                                *)
EXTENDS ImapPool, TLAPS

USE PoolAssumption DEF PoolAssumption

Pcs == {"ended", "check", "dial", "idle", "noop", "stuck", "backoff"}

\* What the invariants below need of a step: supervisors change one at a time, to
\* well typed ones of the same account that are no less cancelled - or they end.
Follows(x, y) ==
  /\ y \in Supervisor
  /\ y.pc # "ended" => /\ x.pc # "ended" /\ y.acc = x.acc
                       /\ x.cancelled => y.cancelled

\* An update of one field keeps a supervisor well typed, and its other fields.
LEMMA SetPc ==
  ASSUME NEW x \in Supervisor, NEW p \in Pcs
  PROVE  LET y == [x EXCEPT !.pc = p]
         IN  y \in Supervisor /\ y.acc = x.acc /\ y.cancelled = x.cancelled /\ y.pc = p
  BY DEF Supervisor, Pcs
LEMMA SetAcc ==
  ASSUME NEW x \in Supervisor, NEW a \in Accounts
  PROVE  [x EXCEPT !.acc = a] \in Supervisor /\ [x EXCEPT !.acc = a].acc = a
  BY DEF Supervisor
LEMMA SetCancelled ==
  ASSUME NEW x \in Supervisor
  PROVE  LET y == [x EXCEPT !.cancelled = TRUE]
         IN  y \in Supervisor /\ y.acc = x.acc /\ y.cancelled /\ y.pc = x.pc
  BY DEF Supervisor
LEMMA SetFails ==
  ASSUME NEW x \in Supervisor, NEW n \in 0..FailLimit
  PROVE  LET y == [x EXCEPT !.fails = n]
         IN  y \in Supervisor /\ y.acc = x.acc /\ y.cancelled = x.cancelled /\ y.pc = x.pc
  BY DEF Supervisor
LEMMA SetSince ==
  ASSUME NEW x \in Supervisor, NEW n \in Ages \cup {None}
  PROVE  LET y == [x EXCEPT !.since = n]
         IN  y \in Supervisor /\ y.acc = x.acc /\ y.cancelled = x.cancelled /\ y.pc = x.pc
  BY DEF Supervisor
LEMMA SetBackoff ==
  ASSUME NEW x \in Supervisor, NEW n \in Backoff0..BackoffMax
  PROVE  LET y == [x EXCEPT !.backoff = n]
         IN  y \in Supervisor /\ y.acc = x.acc /\ y.cancelled = x.cancelled /\ y.pc = x.pc
  BY DEF Supervisor
LEMMA SetWait ==
  ASSUME NEW x \in Supervisor, NEW n \in 0..BackoffMax
  PROVE  LET y == [x EXCEPT !.wait = n]
         IN  y \in Supervisor /\ y.acc = x.acc /\ y.cancelled = x.cancelled /\ y.pc = x.pc
  BY DEF Supervisor

LEMMA SetBuffer ==
  ASSUME NEW x \in Supervisor, NEW n \in 0..Capacity, NEW b \in BOOLEAN
  PROVE  LET y == [[x EXCEPT !.buffer = n] EXCEPT !.unheard = b]
         IN  y \in Supervisor /\ y.acc = x.acc /\ y.cancelled = x.cancelled /\ y.pc = x.pc
  BY DEF Supervisor

LEMMA EndedTyped == Ended \in Supervisor /\ Ended.pc = "ended"
  BY DEF Ended, Supervisor, Ages

\* The typing of the goroutines.
SupOK == /\ sup \in [Supervisors -> Supervisor]
         /\ \A s \in Supervisors : sup[s].pc # "ended" => sup[s].acc \in Accounts

\* The updates the actions make follow.
LEMMA GotoFollows ==
  ASSUME NEW x \in Supervisor, x.pc # "ended", NEW p \in Pcs
  PROVE  Follows(x, [x EXCEPT !.pc = p])
  BY SetPc DEF Follows

LEMMA CancelFollows ==
  ASSUME NEW x \in Supervisor, x.pc # "ended"
  PROVE  Follows(x, [x EXCEPT !.cancelled = TRUE]) /\ [x EXCEPT !.cancelled = TRUE].cancelled
  BY SetCancelled DEF Follows

Retried(x, b) == [[x EXCEPT !.pc = "check"] EXCEPT !.backoff = b]
LEMMA RetryFollows ==
  ASSUME NEW x \in Supervisor, x.pc # "ended", NEW b \in Backoff0..BackoffMax
  PROVE  Follows(x, Retried(x, b))
<1>. DEFINE y == [x EXCEPT !.pc = "check"]
<1>1. y \in Supervisor /\ y.acc = x.acc /\ y.cancelled = x.cancelled
  BY SetPc DEF Pcs
<1>2. Follows(x, [y EXCEPT !.backoff = b])
  <2>. HIDE DEF y
  <2>. QED BY <1>1, SetBackoff DEF Follows
<1>. QED BY <1>2 DEF Retried

Buffered(x, n, b) == [[x EXCEPT !.buffer = n] EXCEPT !.unheard = b]
LEMMA BufferFollows ==
  ASSUME NEW x \in Supervisor, x.pc # "ended", NEW n \in 0..Capacity, NEW b \in BOOLEAN
  PROVE  Follows(x, Buffered(x, n, b))
  BY SetBuffer DEF Follows, Buffered

Resumed(x, n) == [[x EXCEPT !.pc = "idle"] EXCEPT !.buffer = n]
LEMMA ResumeFollows ==
  ASSUME NEW x \in Supervisor, x.pc # "ended", NEW n \in 0..Capacity
  PROVE  Follows(x, Resumed(x, n))
<1>. DEFINE y == [x EXCEPT !.pc = "idle"]
<1>1. y \in Supervisor /\ y.acc = x.acc /\ y.cancelled = x.cancelled
  BY SetPc DEF Pcs
<1>2. Follows(x, [y EXCEPT !.buffer = n])
  <2>. HIDE DEF y
  <2>. QED BY <1>1 DEF Follows, Supervisor
<1>. QED BY <1>2 DEF Resumed

Returned(x) == [[[[[[x EXCEPT !.pc = "check"] EXCEPT !.backoff = Backoff0] EXCEPT !.fails = 0]
                  EXCEPT !.since = None] EXCEPT !.buffer = 0] EXCEPT !.unheard = FALSE]
LEMMA ReturnFollows ==
  ASSUME NEW x \in Supervisor, x.pc # "ended"
  PROVE  Follows(x, Returned(x))
<1>. DEFINE y == [x EXCEPT !.pc = "check"]
            z == [y EXCEPT !.backoff = Backoff0]
            w == [z EXCEPT !.fails = 0]
<1>1. y \in Supervisor /\ y.acc = x.acc /\ y.cancelled = x.cancelled
  BY SetPc DEF Pcs
<1>2. z \in Supervisor /\ z.acc = x.acc /\ z.cancelled = x.cancelled
  <2>. HIDE DEF y
  <2>. QED BY <1>1, SetBackoff
<1>3. w \in Supervisor /\ w.acc = x.acc /\ w.cancelled = x.cancelled
  <2>. HIDE DEF z
  <2>. QED BY <1>2, SetFails
<1>. DEFINE v == [w EXCEPT !.since = None]
<1>4. v \in Supervisor /\ v.acc = x.acc /\ v.cancelled = x.cancelled
  <2>. HIDE DEF w
  <2>. QED BY <1>3, SetSince
<1>5. Follows(x, [[v EXCEPT !.buffer = 0] EXCEPT !.unheard = FALSE])
  <2>1. 0 \in 0..Capacity /\ FALSE \in BOOLEAN
    OBVIOUS
  <2>. HIDE DEF v
  <2>. QED BY <2>1, <1>4, SetBuffer DEF Follows
<1>. QED BY <1>5 DEF Returned

Failed(x, n, d, b) == [[[[[[x EXCEPT !.pc = "backoff"] EXCEPT !.fails = n] EXCEPT !.since = d]
                         EXCEPT !.wait = b] EXCEPT !.buffer = 0] EXCEPT !.unheard = FALSE]
LEMMA FailFollows ==
  ASSUME NEW x \in Supervisor, x.pc # "ended",
         NEW n \in 0..FailLimit, NEW d \in Ages \cup {None}, NEW b \in 0..BackoffMax
  PROVE  Follows(x, Failed(x, n, d, b))
<1>. DEFINE y == [x EXCEPT !.pc = "backoff"]
            z == [y EXCEPT !.fails = n]
            w == [z EXCEPT !.since = d]
<1>1. y \in Supervisor /\ y.acc = x.acc /\ y.cancelled = x.cancelled
  BY SetPc DEF Pcs
<1>2. z \in Supervisor /\ z.acc = x.acc /\ z.cancelled = x.cancelled
  <2>. HIDE DEF y
  <2>. QED BY <1>1, SetFails
<1>3. w \in Supervisor /\ w.acc = x.acc /\ w.cancelled = x.cancelled
  <2>. HIDE DEF z
  <2>. QED BY <1>2, SetSince
<1>. DEFINE v == [w EXCEPT !.wait = b]
<1>4. v \in Supervisor /\ v.acc = x.acc /\ v.cancelled = x.cancelled
  <2>. HIDE DEF w
  <2>. QED BY <1>3, SetWait
<1>5. Follows(x, [[v EXCEPT !.buffer = 0] EXCEPT !.unheard = FALSE])
  <2>1. 0 \in 0..Capacity /\ FALSE \in BOOLEAN
    OBVIOUS
  <2>. HIDE DEF v
  <2>. QED BY <2>1, <1>4, SetBuffer DEF Follows
<1>. QED BY <1>5 DEF Failed

\* Every step of a supervisor changes it as Follows says.
LEMMA SuperviseFollows ==
  ASSUME TypeOK, NEW s \in Supervisors, Supervise(s)
  PROVE  \E y : sup' = [sup EXCEPT ![s] = y] /\ Follows(sup[s], y)
<1>. DEFINE x == sup[s]
<1>1. x \in Supervisor
  BY DEF TypeOK
<1>2. CASE Exit(s)
  BY <1>2, EndedTyped DEF Exit, Follows
<1>3. ASSUME NEW p \in Pcs, x.pc # "ended", Goto(s, p)
      PROVE  \E y : sup' = [sup EXCEPT ![s] = y] /\ Follows(x, y)
  <2>1. sup' = [sup EXCEPT ![s] = [x EXCEPT !.pc = p]]
    BY <1>3 DEF Goto, TypeOK
  <2>. HIDE DEF x
  <2>. QED BY <2>1, <1>1, <1>3, GotoFollows
<1>4. CASE LoopHead(s)
  BY <1>2, <1>3, <1>4 DEF LoopHead, Check, At, Pcs
<1>5. CASE Connect(s)
  BY <1>3, <1>5 DEF Connect, At, Pcs
<1>6. CASE ReturnNil(s)
  <2>1. sup' = [sup EXCEPT ![s] = Returned(x)]
    BY <1>6 DEF ReturnNil, Returned, TypeOK
  <2>2. x.pc # "ended"
    BY <1>6 DEF ReturnNil, At
  <2>3. Follows(x, Returned(x))
    <3>. HIDE DEF x
    <3>. QED BY <2>2, <1>1, ReturnFollows
  <2>. QED BY <2>1, <2>3
<1>7. CASE Fail(s)
  <2>1. CASE Exit(s)
    BY <2>1, <1>2
  <2>2. CASE FailCount(s) < FailLimit /\ ~Exit(s)
    <3>. DEFINE d == IF WindowOver(s) THEN 0 ELSE x.since
    <3>1. sup' = [sup EXCEPT ![s] = Failed(x, FailCount(s), d, x.backoff)]
      BY <1>7, <2>2 DEF Fail, Failed, TypeOK
    <3>2. x.pc # "ended"
      BY <1>7 DEF Fail, At
    <3>3. FailCount(s) \in 0..FailLimit /\ d \in Ages \cup {None} /\ x.backoff \in 0..BackoffMax
      BY <1>1, <2>2 DEF FailCount, WindowOver, Supervisor, Ages
    <3>4. Follows(x, Failed(x, FailCount(s), d, x.backoff))
      <4>. HIDE DEF x, d
      <4>. QED BY <3>2, <3>3, <1>1, FailFollows
    <3>. QED BY <3>1, <3>4
  <2>. QED BY <2>1, <2>2, <1>7 DEF Fail
<1>8. CASE Retry(s)
  <2>1. CASE Exit(s)
    BY <2>1, <1>2
  <2>2. CASE ~Exit(s)
    <3>1. sup' = [sup EXCEPT ![s] = Retried(x, Doubled(x.backoff))]
      BY <1>8, <2>2 DEF Retry, Retried, TypeOK
    <3>2. x.pc # "ended" /\ Doubled(x.backoff) \in Backoff0..BackoffMax
      BY <1>1, <1>8 DEF Retry, At, Doubled, Supervisor
    <3>3. Follows(x, Retried(x, Doubled(x.backoff)))
      <4>. HIDE DEF x
      <4>. QED BY <3>2, <1>1, RetryFollows
    <3>. QED BY <3>1, <3>3
  <2>. QED BY <2>1, <2>2
<1>9. CASE Update(s) \/ Hear(s)
  <2>1. x.pc # "ended" /\ x.buffer \in 0..Capacity
    BY <1>1, <1>9 DEF Update, Hear, At, Supervisor
  <2>2. PICK m \in 0..Capacity, c \in BOOLEAN : sup' = [sup EXCEPT ![s] = Buffered(x, m, c)]
    <3>1. CASE Update(s)
      <4>1. sup' = [sup EXCEPT ![s] = Buffered(x, x.buffer + 1, TRUE)]
        BY <3>1 DEF Update, Buffered, TypeOK
      <4>2. x.buffer + 1 \in 0..Capacity
        BY <3>1, <2>1 DEF Update
      <4>. HIDE DEF x
      <4>. QED BY <4>1, <4>2
    <3>2. CASE Hear(s)
      <4>1. sup' = [sup EXCEPT ![s] = Buffered(x, x.buffer - 1, FALSE)]
        BY <3>2 DEF Hear, Buffered, TypeOK
      <4>2. x.buffer - 1 \in 0..Capacity
        BY <3>2, <2>1 DEF Hear
      <4>. HIDE DEF x
      <4>. QED BY <4>1, <4>2
    <3>. QED BY <3>1, <3>2, <1>9
  <2>3. Follows(x, Buffered(x, m, c))
    <3>. HIDE DEF x
    <3>. QED BY <2>1, <1>1, BufferFollows
  <2>. QED BY <2>2, <2>3
<1>10. CASE NoopDone(s)
  <2>1. sup' = [sup EXCEPT ![s] = Resumed(x, x.buffer)]
    BY <1>10 DEF NoopDone, LeftOver, Resumed, TypeOK
  <2>2. x.pc # "ended" /\ x.buffer \in 0..Capacity
    BY <1>1, <1>10 DEF NoopDone, At, Supervisor
  <2>3. Follows(x, Resumed(x, x.buffer))
    <3>. HIDE DEF x
    <3>. QED BY <2>2, <1>1, ResumeFollows
  <2>. QED BY <2>1, <2>3
<1>11. CASE Block(s) \/ Heartbeat(s)
  BY <1>3, <1>11 DEF Block, Heartbeat, At, Pcs
<1>. QED BY <1>4, <1>5, <1>6, <1>7, <1>8, <1>9, <1>10, <1>11 DEF Supervise, Connected

LEMMA FollowsTyped ==
  ASSUME TypeOK, NEW s \in Supervisors, NEW y, Follows(sup[s], y),
         sup' = [sup EXCEPT ![s] = y]
  PROVE  SupOK'
  BY DEF TypeOK, Follows, SupOK, Running

LEMMA CancelledFollows ==
  ASSUME TypeOK, NEW S, sup' = Cancelled(S)
  PROVE  /\ \A s \in Supervisors : sup[s].pc # "ended" => Follows(sup[s], sup'[s])
         /\ \A s \in Supervisors : sup[s].pc = "ended" => sup'[s] = sup[s]
         /\ \A s \in S \cap Supervisors : sup'[s].pc # "ended" => sup'[s].cancelled
         /\ SupOK'
<1>1. ASSUME NEW s \in Supervisors, sup[s].pc # "ended"
      PROVE  Follows(sup[s], sup'[s]) /\ (s \in S => sup'[s].cancelled)
  <2>. DEFINE x == sup[s]
  <2>1. x \in Supervisor /\ Follows(x, x)
    BY DEF TypeOK, Follows
  <2>2. Follows(x, [x EXCEPT !.cancelled = TRUE]) /\ [x EXCEPT !.cancelled = TRUE].cancelled
    <3>1. x.pc # "ended"
      BY <1>1
    <3>. HIDE DEF x
    <3>. QED BY <3>1, <2>1, CancelFollows
  <2>3. sup'[s] = IF s \in S THEN [x EXCEPT !.cancelled = TRUE] ELSE x
    BY <1>1 DEF Cancelled, Running
  <2>. QED BY <2>1, <2>2, <2>3
<1>2. ASSUME NEW s \in Supervisors, sup[s].pc = "ended" PROVE sup'[s] = sup[s]
  BY <1>2 DEF Cancelled, Running
<1>3. \A s \in Supervisors : sup'[s] \in Supervisor
  BY <1>1, <1>2 DEF Follows, TypeOK
<1>4. sup' = [s \in Supervisors |-> sup'[s]]
  BY DEF Cancelled
<1>. QED
  BY <1>1, <1>2, <1>3, <1>4 DEF SupOK, TypeOK, Follows, Running

\* What the goroutines look like after a reconciliation.
LEMMA SyncedSupervisors ==
  ASSUME TypeOK, SyncApply
  PROVE  /\ SupOK'
         /\ \A s \in Supervisors :
              \/ sup'[s] = sup[s]
              \/ /\ Unused(s)
                 /\ sup'[s].pc # "ended" =>
                      /\ sup'[s].acc \in Missing
                      /\ cancelFuncs'[sup'[s].acc] = s
         /\ \A a \in Accounts : a \notin Missing => cancelFuncs'[a] = cancelFuncs[a]
<1>1. PICK f \in Injection(Missing, {s \in Supervisors : Unused(s)}) :
        /\ cancelFuncs' = [a \in Accounts |-> IF a \in Missing THEN f[a] ELSE cancelFuncs[a]]
        /\ sup' = [s \in Supervisors |-> IF \E a \in Missing : f[a] = s
                                           THEN Started(CHOOSE a \in Missing : f[a] = s)
                                           ELSE sup[s]]
  BY Zenon DEF SyncApply
<1>2. Missing \subseteq Accounts
  BY DEF SyncApply, Missing, TypeOK
<1>3. f \in [Missing -> {s \in Supervisors : Unused(s)}]
  BY Zenon DEF Injection
<1>4. ASSUME NEW a \in Accounts
      PROVE  /\ Started(a) \in Supervisor
             /\ Started(a).acc = a
  <2>. DEFINE x == [Ended EXCEPT !.acc = a]
            p == IF a \in Malformed THEN "ended" ELSE "check"
  <2>1. x \in Supervisor /\ x.acc = a /\ p \in Pcs
    BY EndedTyped, SetAcc DEF Pcs
  <2>2. LET y == [x EXCEPT !.pc = p] IN y \in Supervisor /\ y.acc = a
    <3>. HIDE DEF x, p
    <3>. QED BY <2>1, SetPc
  <2>. QED BY <2>2 DEF Started
<1>5. ASSUME NEW s \in Supervisors, NEW b \in Missing, f[b] = s
      PROVE  /\ sup'[s] \in Supervisor
             /\ Unused(s)
             /\ sup'[s].acc \in Missing
             /\ cancelFuncs'[sup'[s].acc] = s
  <2>. DEFINE a == CHOOSE a \in Missing : f[a] = s
  <2>1. a \in Missing /\ f[a] = s
    BY <1>5
  <2>2. sup'[s] = Started(a)
    BY <1>1, <1>5
  <2>. HIDE DEF a
  <2>. QED BY <1>1, <1>2, <1>3, <1>4, <2>1, <2>2
<1>6. ASSUME NEW s \in Supervisors, \A b \in Missing : f[b] # s
      PROVE  sup'[s] = sup[s]
  BY <1>1, <1>6
<1>7. SupOK'
  <2>1. \A s \in Supervisors : sup'[s] \in Supervisor
    BY <1>5, <1>6 DEF TypeOK
  <2>2. sup' = [s \in Supervisors |-> sup'[s]]
    BY <1>1
  <2>3. \A s \in Supervisors : sup'[s].pc # "ended" => sup'[s].acc \in Accounts
    BY <1>2, <1>5, <1>6 DEF TypeOK, Running
  <2>. QED BY <2>1, <2>2, <2>3 DEF SupOK
<1>. QED BY <1>1, <1>5, <1>6, <1>7

LEMMA TickedSupervisors ==
  ASSUME TypeOK, Tick
  PROVE  /\ SupOK'
         /\ recent' \in [Supervisors -> Seq(Ages)]
         /\ \A s \in Supervisors : /\ sup'[s].pc = sup[s].pc /\ sup'[s].acc = sup[s].acc
                                   /\ sup'[s].cancelled = sup[s].cancelled
<1>1. ASSUME NEW s \in Supervisors
      PROVE  /\ sup'[s] \in Supervisor
             /\ sup'[s].pc = sup[s].pc /\ sup'[s].acc = sup[s].acc
             /\ sup'[s].cancelled = sup[s].cancelled
  <2>. DEFINE x == sup[s]
            w == IF x.wait > 0 THEN x.wait - 1 ELSE 0
            d == IF x.since = None THEN None ELSE Older(x.since)
            y == [x EXCEPT !.wait = w]
  <2>1. x \in Supervisor
    BY DEF TypeOK
  <2>2. w \in 0..BackoffMax /\ d \in Ages \cup {None}
    BY <2>1 DEF Supervisor, Older, Ages
  <2>3. y \in Supervisor /\ y.pc = x.pc /\ y.acc = x.acc /\ y.cancelled = x.cancelled
    <3>. HIDE DEF x, w
    <3>. QED BY <2>1, <2>2, SetWait
  <2>4. LET z == [y EXCEPT !.since = d]
        IN  z \in Supervisor /\ z.pc = x.pc /\ z.acc = x.acc /\ z.cancelled = x.cancelled
    <3>. HIDE DEF x, y, d
    <3>. QED BY <2>2, <2>3, SetSince
  <2>5. sup'[s] = [y EXCEPT !.since = d]
    BY DEF Tick
  <2>. QED BY <2>4, <2>5
<1>2. sup' = [s \in Supervisors |-> sup'[s]]
  BY DEF Tick
<1>3. ASSUME NEW s \in Supervisors
      PROVE  [k \in DOMAIN recent[s] |-> Older(recent[s][k])] \in Seq(Ages)
  <2>1. recent[s] \in Seq(Ages)
    BY DEF TypeOK
  <2>2. \A k \in DOMAIN recent[s] : Older(recent[s][k]) \in Ages
    BY <2>1 DEF Older, Ages
  <2>. QED BY <2>1, <2>2
<1>4. recent' \in [Supervisors -> Seq(Ages)]
  BY <1>3 DEF Tick
<1>. QED BY <1>1, <1>2, <1>4 DEF SupOK, TypeOK, Running

LEMMA RecentTyped ==
  ASSUME TypeOK, NEW s \in Supervisors, Supervise(s)
  PROVE  recent' \in [Supervisors -> Seq(Ages)]
<1>1. CASE recent' = [recent EXCEPT ![s] = <<>>]
  BY <1>1 DEF TypeOK
<1>2. CASE Remember(s)
  <2>1. recent[s] \in Seq(Ages) /\ 0 \in Ages
    BY DEF TypeOK, Ages
  <2>2. (IF Len(recent[s]) < FailLimit - 1 THEN recent[s] ELSE Tail(recent[s])) \in Seq(Ages)
    BY <2>1
  <2>3. Append(IF Len(recent[s]) < FailLimit - 1 THEN recent[s] ELSE Tail(recent[s]), 0)
          \in Seq(Ages)
    BY <2>1, <2>2
  <2>. QED BY <1>2, <2>3 DEF Remember, TypeOK
<1>3. CASE UNCHANGED recent
  BY <1>3 DEF TypeOK
<1>. QED BY <1>1, <1>2, <1>3 DEF Supervise, Connected, LoopHead, Connect, Update, Block, Hear, Heartbeat, NoopDone,
        ReturnNil, Fail, Retry, Check, Goto, Exit

\* TypeOK is kept by every step of the monolith, the reconciliation, the listener and
\* the supervisors.
LEMMA TypeStep == TypeOK /\ [Next]_vars => TypeOK'
<1>. SUFFICES ASSUME TypeOK, [Next]_vars PROVE TypeOK'
  OBVIOUS
<1>1. ASSUME NEW a \in Accounts, Activate(a) \/ Leave(a) \/ DisconnectTask(a) \/ LoseSignal(a)
      PROVE  TypeOK'
  <2>1. CASE Activate(a)
    BY <2>1, PoolAssumption DEF TypeOK, Activate, Change, pool, Running
  <2>2. CASE Leave(a)
    BY <2>2, PoolAssumption DEF TypeOK, Leave, Change, pool, Running
  <2>3. CASE DisconnectTask(a)
    BY <2>3 DEF TypeOK, DisconnectTask, pool, Running
  <2>4. CASE LoseSignal(a)
    BY <2>4, PoolAssumption DEF TypeOK, LoseSignal, Fault, pool, Running
  <2>. QED BY <1>1, <2>1, <2>2, <2>3, <2>4
<1>2. ASSUME NEW a \in Accounts, RemoveAccount(a) PROVE TypeOK'
  <2>1. SupOK'
    BY <1>2, CancelledFollows DEF RemoveAccount
  <2>2. premature' \subseteq Accounts /\ lost' \subseteq Accounts
    BY <1>2 DEF RemoveAccount, TypeOK
  <2>3. signals' \in [Accounts -> Nat] /\ cancelFuncs' \in [Accounts -> Supervisors \cup {None}]
    BY <1>2 DEF RemoveAccount, TypeOK
  <2>. QED BY <1>2, <2>1, <2>2, <2>3 DEF RemoveAccount, TypeOK, SupOK, Running
<1>3. CASE SyncRead
  BY <1>3 DEF SyncRead, TypeOK, Fault, rows, Running
<1>4. CASE SyncApply
  <2>1. SupOK'
    BY <1>4, SyncedSupervisors
  <2>2. PICK f \in Injection(Missing, {s \in Supervisors : Unused(s)}) :
          /\ cancelFuncs' = [a \in Accounts |-> IF a \in Missing THEN f[a] ELSE cancelFuncs[a]]
          /\ recent' = [s \in Supervisors |-> IF \E a \in Missing : f[a] = s THEN <<>> ELSE recent[s]]
    BY <1>4, Zenon DEF SyncApply
  <2>3. f \in [Missing -> {s \in Supervisors : Unused(s)}]
    BY Zenon DEF Injection
  <2>4. recent' \in [Supervisors -> Seq(Ages)]
    BY <2>2 DEF TypeOK
  <2>5. cancelFuncs' \in [Accounts -> Supervisors \cup {None}]
    BY <2>2, <2>3 DEF TypeOK
  <2>. QED BY <1>4, <2>1, <2>4, <2>5 DEF SyncApply, TypeOK, SupOK, rows, Running
<1>5. CASE Stop
  <2>1. SupOK'
    BY <1>5, CancelledFollows DEF Stop
  <2>. QED BY <1>5, <2>1 DEF Stop, TypeOK, SupOK, Change, rows, Running
<1>6. ASSUME NEW s \in Supervisors, Supervise(s) PROVE TypeOK'
  <2>1. SupOK'
    BY <1>6, SuperviseFollows, FollowsTyped
  <2>2. recent' \in [Supervisors -> Seq(Ages)]
    BY <1>6, RecentTyped
  <2>3. UNCHANGED <<leaving, signals, cancelFuncs, snapshot, changes, premature, lost>>
    BY <1>6 DEF Supervise, Connected, LoopHead, Connect, Update, Block, Hear, Heartbeat, NoopDone,
        ReturnNil, Fail, Retry, rows
  <2>4. faults' \in 0..MaxFaults
    BY <1>6 DEF Supervise, Connected, LoopHead, Connect, Update, Block, Hear, Heartbeat, NoopDone,
        ReturnNil, Fail, Retry, Fault, TypeOK
  <2>5. status' \in [Accounts -> {"ACTIVE", "DISCONNECTED", "CONNECTION_SUSPENDED"}]
    BY <1>6 DEF Supervise, Connected, LoopHead, Connect, Update, Block, Hear, Heartbeat, NoopDone,
        ReturnNil, Fail, Retry, rows, TypeOK
  <2>. QED BY <2>1, <2>2, <2>3, <2>4, <2>5 DEF TypeOK, SupOK, Running
<1>7. CASE Tick
  BY <1>7, TickedSupervisors DEF Tick, TypeOK, SupOK, rows, Running
<1>8. CASE UNCHANGED vars
  BY <1>8 DEF vars, rows, pool, TypeOK, Running
<1>. QED
  BY <1>1, <1>2, <1>3, <1>4, <1>5, <1>6, <1>7, <1>8 DEF Next, Steps, Outside, Sync

LEMMA InitTyped == Init => TypeOK
  BY EndedTyped DEF Init, TypeOK, Running

\* TypeOK holds in every reachable state of the pool.
THEOREM TypeCorrect == Spec => []TypeOK
  BY InitTyped, TypeStep, PTL DEF Spec

-----------------------------------------------------------------------------
\* A supervisor that runs uncancelled after the step ran uncancelled before it, for
\* the same account, and kept its entry.
Kept == \A s \in Supervisors :
          sup'[s].pc # "ended" /\ ~sup'[s].cancelled
            => /\ sup[s].pc # "ended" /\ ~sup[s].cancelled
               /\ sup'[s].acc = sup[s].acc
               /\ cancelFuncs'[sup[s].acc] = cancelFuncs[sup[s].acc]

LEMMA KeptStep ==
  ASSUME TypeOK, EntryNamesSupervisor, [Next]_vars, ~SyncApply PROVE Kept
<1>1. ASSUME NEW a \in Accounts, RemoveAccount(a) PROVE Kept
  <2>1. sup' = Cancelled({cancelFuncs[a]}) /\ cancelFuncs' = [cancelFuncs EXCEPT ![a] = None]
    BY <1>1 DEF RemoveAccount
  <2>2. /\ \A s \in Supervisors : sup[s].pc # "ended" => Follows(sup[s], sup'[s])
        /\ \A s \in Supervisors : sup[s].pc = "ended" => sup'[s] = sup[s]
        /\ \A s \in Supervisors : s = cancelFuncs[a] /\ sup'[s].pc # "ended" => sup'[s].cancelled
    BY <2>1, CancelledFollows
  <2>3. ASSUME NEW s \in Supervisors, sup'[s].pc # "ended", ~sup'[s].cancelled
        PROVE  /\ sup[s].pc # "ended" /\ ~sup[s].cancelled /\ sup'[s].acc = sup[s].acc
               /\ sup[s].acc \in Accounts /\ s = cancelFuncs[sup[s].acc] /\ s # cancelFuncs[a]
    BY <2>2, <2>3 DEF Follows, EntryNamesSupervisor, Running
  <2>. QED BY <2>1, <2>3 DEF Kept, TypeOK
<1>2. CASE Stop
  <2>1. sup' = Cancelled(Range(cancelFuncs))
    BY <1>2 DEF Stop
  <2>2. /\ \A s \in Supervisors : sup[s].pc # "ended" => Follows(sup[s], sup'[s])
        /\ \A s \in Supervisors : sup[s].pc = "ended" => sup'[s] = sup[s]
        /\ \A s \in Range(cancelFuncs) \cap Supervisors : sup'[s].pc # "ended" => sup'[s].cancelled
    BY <2>1, CancelledFollows
  <2>3. \A a \in Accounts : cancelFuncs[a] \in Range(cancelFuncs)
    BY DEF Range, TypeOK
  <2>. QED BY <2>2, <2>3 DEF Kept, Follows, EntryNamesSupervisor, Running
<1>3. ASSUME NEW s \in Supervisors, Supervise(s) PROVE Kept
  <2>1. PICK y : sup' = [sup EXCEPT ![s] = y] /\ Follows(sup[s], y)
    BY <1>3, SuperviseFollows
  <2>2. UNCHANGED cancelFuncs
    BY <1>3 DEF Supervise, Connected, LoopHead, Connect, Update, Block, Hear, Heartbeat, NoopDone,
        ReturnNil, Fail, Retry
  <2>3. sup[s].cancelled \in BOOLEAN /\ (y.pc # "ended" => y.cancelled \in BOOLEAN)
    BY <2>1 DEF TypeOK, Supervisor, Follows
  <2>. QED BY <2>1, <2>2, <2>3 DEF Kept, Follows, TypeOK
<1>4. CASE Tick
  BY <1>4, TickedSupervisors DEF Kept, Tick
<1>5. CASE UNCHANGED <<sup, cancelFuncs>>
  BY <1>5 DEF Kept
<1>. QED
  BY <1>1, <1>2, <1>3, <1>4, <1>5
     DEF Next, Steps, Outside, Sync, vars, pool, Activate, Leave, DisconnectTask, LoseSignal, SyncRead

\* The entry of an account always names its uncancelled supervisor.
LEMMA EntryStep ==
  TypeOK /\ EntryNamesSupervisor /\ [Next]_vars => EntryNamesSupervisor'
<1>. SUFFICES ASSUME TypeOK, EntryNamesSupervisor, [Next]_vars PROVE EntryNamesSupervisor'
  OBVIOUS
<1>1. CASE SyncApply
  BY <1>1, SyncedSupervisors DEF EntryNamesSupervisor, Running, SupOK, Missing
<1>2. CASE ~SyncApply
  <2>1. Kept
    BY <1>2, KeptStep
  <2>. QED BY <2>1 DEF Kept, EntryNamesSupervisor, Running
<1>. QED BY <1>1, <1>2

THEOREM EntryCorrect == Spec => []EntryNamesSupervisor
<1>1. Init => EntryNamesSupervisor
  BY EndedTyped DEF Init, EntryNamesSupervisor, Running
<1>. QED BY <1>1, EntryStep, TypeCorrect, PTL DEF Spec

\* OneSupervisor: no interleaving gives an account two uncancelled supervisors.
THEOREM AtMostOneSupervisor == Spec => []OneSupervisor
<1>1. EntryNamesSupervisor => OneSupervisor
  BY DEF EntryNamesSupervisor, OneSupervisor, Supervises
<1>. QED BY <1>1, EntryCorrect, PTL

-----------------------------------------------------------------------------
\* Nobody gains a supervisor but in a reconciliation.
LEMMA NoneGained ==
  ASSUME TypeOK, EntryNamesSupervisor, [Next]_vars, ~SyncApply, NEW a \in Accounts
  PROVE  Supervised(a)' => Supervised(a) /\ cancelFuncs'[a] = cancelFuncs[a]
  BY KeptStep DEF Kept, Supervised, Supervises, Running

\* GoneInv is kept: the signal is only used up by a removal, and a removal that comes
\* too early is premature.
LEMMA GoneStep == TypeOK /\ EntryNamesSupervisor /\ GoneInv /\ [Next]_vars => GoneInv'
<1>. SUFFICES ASSUME TypeOK, EntryNamesSupervisor, GoneInv, [Next]_vars PROVE GoneInv'
  OBVIOUS
<1>. USE DEF GoneInv
<1>1. ASSUME NEW b \in Accounts, Activate(b) PROVE GoneInv'
  BY <1>1 DEF Activate, pool, TypeOK, Supervised, Supervises, Running
<1>2. ASSUME NEW b \in Accounts, Leave(b) PROVE GoneInv'
  BY <1>2 DEF Leave, pool, TypeOK, Supervised, Supervises, Running
<1>3. ASSUME NEW b \in Accounts, DisconnectTask(b) PROVE GoneInv'
  BY <1>3 DEF DisconnectTask, pool, TypeOK, Supervised, Supervises, Running
<1>4. ASSUME NEW b \in Accounts, LoseSignal(b) PROVE GoneInv'
  BY <1>4 DEF LoseSignal, pool, TypeOK, Supervised, Supervises, Running
<1>5. ASSUME NEW b \in Accounts, RemoveAccount(b) PROVE GoneInv'
  <2>1. ~SyncApply
    BY <1>5 DEF RemoveAccount, SyncApply
  <2>2. ~Supervised(b)'
    <3>. SUFFICES ASSUME Supervised(b)' PROVE FALSE
      OBVIOUS
    <3>1. PICK s \in Supervisors : Supervises(s, b)'
      BY DEF Supervised
    <3>2. cancelFuncs'[b] = s
      BY <3>1, EntryStep DEF EntryNamesSupervisor, Supervises, Running
    <3>. QED BY <1>5, <3>2 DEF RemoveAccount, TypeOK
  <2>3. ASSUME NEW a \in Accounts, a # b
        PROVE  /\ signals'[a] = signals[a]
               /\ a \in premature => a \in premature'
               /\ a \in lost => a \in lost'
               /\ Supervised(a)' => Supervised(a)
    BY <1>5, <2>1, <2>3, NoneGained DEF RemoveAccount, TypeOK
  <2>. QED BY <1>5, <2>2, <2>3 DEF RemoveAccount
<1>6. CASE SyncRead
  <2>1. \A a \in Accounts : Supervised(a)' => Supervised(a)
    BY <1>6 DEF SyncRead, Supervised, Supervises, Running
  <2>2. UNCHANGED snapshot \/ snapshot' = {a \in Accounts : status[a] = "ACTIVE"}
    BY <1>6 DEF SyncRead
  <2>. QED BY <1>6, <2>1, <2>2 DEF SyncRead, rows
<1>7. CASE SyncApply
  <2>1. \A a \in Accounts : Supervised(a)' => Supervised(a) \/ (snapshot # None /\ a \in snapshot)
    <3>1. snapshot # None /\ Missing \subseteq snapshot
      BY <1>7 DEF SyncApply, Missing
    <3>2. ASSUME NEW a \in Accounts, NEW s \in Supervisors, Supervises(s, a)'
          PROVE  Supervises(s, a) \/ a \in snapshot
      <4>1. sup'[s] = sup[s] \/ sup'[s].acc \in Missing
        BY <1>7, <3>2, SyncedSupervisors DEF Supervises, Running
      <4>. QED BY <4>1, <3>1, <3>2 DEF Supervises, Running
    <3>. QED BY <3>1, <3>2 DEF Supervised
  <2>. QED BY <1>7, <2>1 DEF SyncApply, rows
<1>8. CASE Stop
  <2>1. \A a \in Accounts : Supervised(a)' => Supervised(a)
    BY <1>8, NoneGained DEF Stop, SyncApply
  <2>. QED BY <1>8, <2>1 DEF Stop, rows
<1>9. ASSUME NEW s \in Supervisors, Supervise(s) PROVE GoneInv'
  <2>1. UNCHANGED <<leaving, signals, snapshot, premature, lost>>
    BY <1>9 DEF Supervise, Connected, LoopHead, Connect, Update, Block, Hear, Heartbeat, NoopDone,
        ReturnNil, Fail, Retry, rows
  <2>2. \A a \in Accounts : status'[a] = status[a] \/ status'[a] = "CONNECTION_SUSPENDED"
    BY <1>9 DEF Supervise, Connected, LoopHead, Connect, Update, Block, Hear, Heartbeat, NoopDone,
        ReturnNil, Fail, Retry, rows, TypeOK
  <2>3. UNCHANGED cancelFuncs
    BY <1>9 DEF Supervise, Connected, LoopHead, Connect, Update, Block, Hear, Heartbeat, NoopDone,
        ReturnNil, Fail, Retry
  <2>4. PICK y : sup' = [sup EXCEPT ![s] = y] /\ Follows(sup[s], y)
    BY <1>9, SuperviseFollows
  <2>5. sup[s].cancelled \in BOOLEAN /\ (y.pc # "ended" => y.cancelled \in BOOLEAN)
    BY <2>4 DEF TypeOK, Supervisor, Follows
  <2>6. \A a \in Accounts : Supervised(a)' => Supervised(a)
    BY <2>4, <2>5 DEF Supervised, Supervises, Running, Follows, TypeOK
  <2>. QED BY <2>1, <2>2, <2>6
<1>10. CASE Tick
  <2>1. \A a \in Accounts : Supervised(a)' => Supervised(a)
    BY <1>10, TickedSupervisors DEF Supervised, Supervises, Running
  <2>. QED BY <1>10, <2>1 DEF Tick, rows
<1>11. CASE UNCHANGED vars
  BY <1>11 DEF vars, rows, pool, Supervised, Supervises, Running
<1>. QED
  BY <1>1, <1>2, <1>3, <1>4, <1>5, <1>6, <1>7, <1>8, <1>9, <1>10, <1>11
     DEF Next, Steps, Outside, Sync

\* NobodyWatchesTheGone: a disconnected account is watched only while its signal is on
\* the way, was lost, or came before the row and the reconciliation caught up.
THEOREM GoneUnwatched == Spec => []NobodyWatchesTheGone
<1>1. Init => GoneInv
  BY EndedTyped DEF Init, GoneInv, Supervised, Supervises, Running
<1>2. GoneInv => NobodyWatchesTheGone
  BY DEF GoneInv, NobodyWatchesTheGone
<1>. QED BY <1>1, <1>2, GoneStep, TypeCorrect, EntryCorrect, PTL DEF Spec

-----------------------------------------------------------------------------
\* The circuit breaker's count is right: of the failures a supervisor remembers, the
\* last sup[s].fails came since the window began.
Counted(x, r) ==
  /\ Len(r) < FailLimit
  /\ x.since # None =>
       /\ x.fails \in 1..Len(r)
       /\ \A k \in (Len(r) - x.fails + 1)..Len(r) : r[k] <= x.since

BreakerInv == \A s \in Supervisors : Counted(sup[s], recent[s])

\* A goroutine that has nothing to count.
LEMMA NothingCounted ==
  ASSUME NEW x, x.since = None PROVE Counted(x, <<>>)
  BY DEF Counted

\* A step that leaves the count, the window and the memory alone.
LEMMA SameCount ==
  ASSUME NEW x, NEW y, NEW r, Counted(x, r), y.fails = x.fails, y.since = x.since
  PROVE  Counted(y, r)
  BY DEF Counted

\* The breaker's fields survive the update of others.
LEMMA PcKeepsCount ==
  ASSUME NEW x \in Supervisor, NEW p \in Pcs
  PROVE  LET y == [x EXCEPT !.pc = p] IN y.fails = x.fails /\ y.since = x.since
  BY DEF Supervisor, Pcs
LEMMA CancelKeepsCount ==
  ASSUME NEW x \in Supervisor
  PROVE  LET y == [x EXCEPT !.cancelled = TRUE] IN y.fails = x.fails /\ y.since = x.since
  BY DEF Supervisor
LEMMA RetryKeepsCount ==
  ASSUME NEW x \in Supervisor, NEW b
  PROVE  Retried(x, b).fails = x.fails /\ Retried(x, b).since = x.since
  BY DEF Supervisor, Retried
LEMMA BufferKeepsCount ==
  ASSUME NEW x \in Supervisor, NEW n, NEW b
  PROVE  Buffered(x, n, b).fails = x.fails /\ Buffered(x, n, b).since = x.since
  BY DEF Supervisor, Buffered
LEMMA ResumeKeepsCount ==
  ASSUME NEW x \in Supervisor, NEW n
  PROVE  Resumed(x, n).fails = x.fails /\ Resumed(x, n).since = x.since
  BY DEF Supervisor, Resumed
LEMMA ReturnForgets ==
  ASSUME NEW x \in Supervisor PROVE Returned(x).since = None
  BY DEF Supervisor, Returned
LEMMA FailCounts ==
  ASSUME NEW x \in Supervisor, NEW n, NEW d, NEW b
  PROVE  Failed(x, n, d, b).fails = n /\ Failed(x, n, d, b).since = d
  BY DEF Supervisor, Failed

\* One more failure is remembered, at the cost of the oldest.
LEMMA OneMoreFailure ==
  ASSUME NEW x \in Supervisor, NEW r \in Seq(Ages), Counted(x, r),
         NEW n, NEW d \in Ages, NEW y, y.fails = n, y.since = d, n < FailLimit,
         IF x.since = None \/ x.since > FailWindow
           THEN n = 1 /\ d = 0 ELSE n = x.fails + 1 /\ d = x.since
  PROVE  Counted(y, Append(IF Len(r) < FailLimit - 1 THEN r ELSE Tail(r), 0))
<1>. DEFINE q == IF Len(r) < FailLimit - 1 THEN r ELSE Tail(r)
<1>1. /\ Len(r) \in Nat /\ Len(r) < FailLimit
      /\ d \in Nat /\ x.fails \in Nat /\ n \in Nat
  BY DEF Ages, Supervisor, Counted
<1>2. q \in Seq(Ages) /\ 0 \in Ages
  <2>1. 0 \in Ages
    BY DEF Ages
  <2>2. Len(r) >= FailLimit - 1 => Tail(r) \in Seq(Ages)
    <3>. SUFFICES ASSUME Len(r) >= FailLimit - 1 PROVE r # <<>>
      OBVIOUS
    <3>. QED BY <1>1
  <2>. QED BY <2>1, <2>2, <1>1
<1>3. IF Len(r) < FailLimit - 1
        THEN q = r ELSE Len(q) = Len(r) - 1 /\ \A k \in 1..Len(q) : q[k] = r[k + 1]
  BY <1>1
<1>4. Len(Append(q, 0)) = Len(q) + 1
  BY <1>2
<1>5. \A k \in 1..Len(q) : Append(q, 0)[k] = q[k]
  BY <1>2
<1>6. Append(q, 0)[Len(q) + 1] = 0
  BY <1>2
<1>. HIDE DEF q
<1>7. Len(q) \in Nat /\ Len(q) + 1 < FailLimit
  BY <1>1, <1>2, <1>3
<1>8. CASE x.since = None \/ x.since > FailWindow
  BY <1>1, <1>4, <1>6, <1>7, <1>8 DEF Counted
<1>9. CASE ~(x.since = None \/ x.since > FailWindow)
  <2>1. /\ n = x.fails + 1 /\ d = x.since /\ x.fails \in 1..Len(r)
        /\ \A k \in (Len(r) - x.fails + 1)..Len(r) : r[k] <= d
    BY <1>9 DEF Counted
  <2>2. n \in 1..(Len(q) + 1)
    BY <2>1, <1>1, <1>3, <1>7
  <2>3. ASSUME NEW k \in (Len(q) + 1 - n + 1)..(Len(q) + 1)
        PROVE  Append(q, 0)[k] <= d
    <3>1. CASE k = Len(q) + 1
      BY <3>1, <1>1, <1>6
    <3>2. CASE k # Len(q) + 1
      <4>1. k \in 1..Len(q) /\ k >= Len(q) - x.fails + 1
        BY <3>2, <2>1, <2>2, <1>1, <1>7, SMTT(40)
      <4>2. q[k] <= d
        <5>1. CASE Len(r) < FailLimit - 1
          BY <5>1, <4>1, <2>1, <1>1, <1>3
        <5>2. CASE ~(Len(r) < FailLimit - 1)
          <6>1. q[k] = r[k + 1] /\ Len(q) = Len(r) - 1
            BY <5>2, <4>1, <1>3
          <6>2. k + 1 \in (Len(r) - x.fails + 1)..Len(r)
            BY <6>1, <4>1, <2>1, <1>1, SMTT(40)
          <6>. QED BY <6>1, <6>2, <2>1
        <5>. QED BY <5>1, <5>2
      <4>. QED BY <4>1, <4>2, <1>5
    <3>. QED BY <3>1, <3>2
  <2>. DEFINE w == Append(q, 0)
  <2>4. Len(w) = Len(q) + 1
    BY <1>4
  <2>6. \A k \in (Len(q) + 1 - n + 1)..(Len(q) + 1) : w[k] <= d
    BY <2>3
  <2>. HIDE DEF w
  <2>5. Counted(y, w)
    BY <2>2, <2>4, <2>6, <1>7 DEF Counted
  <2>. QED BY <2>5 DEF w, q
<1>. QED BY <1>8, <1>9 DEF q

\* Time passes for the window and for the failures it counts alike.
LEMMA AllOlder ==
  ASSUME NEW x \in Supervisor, NEW r \in Seq(Ages), Counted(x, r),
         NEW y, y.fails = x.fails,
         y.since = IF x.since = None THEN None ELSE Older(x.since)
  PROVE  Counted(y, [k \in DOMAIN r |-> Older(r[k])])
<1>. DEFINE q == [k \in DOMAIN r |-> Older(r[k])]
<1>1. Len(q) = Len(r) /\ \A k \in 1..Len(r) : q[k] = Older(r[k]) /\ r[k] \in Ages
  OBVIOUS
<1>2. \A d, e \in Ages : /\ Older(d) \in Nat
                         /\ d <= e => Older(d) <= Older(e)
  BY DEF Older, Ages
<1>3. Len(r) \in Nat /\ x.since \in Ages \cup {None}
  BY DEF Supervisor
<1>. HIDE DEF q
<1>4. Counted(y, q)
  BY <1>1, <1>2, <1>3 DEF Counted
<1>. QED BY <1>4 DEF q

\* A step of one supervisor.
LEMMA SuperviseCounts ==
  ASSUME TypeOK, NEW s \in Supervisors, Counted(sup[s], recent[s]), Supervise(s)
  PROVE  \E y, r : /\ sup' = [sup EXCEPT ![s] = y] /\ recent' = [recent EXCEPT ![s] = r]
                   /\ Counted(y, r)
<1>. DEFINE x == sup[s]
<1>1. x \in Supervisor /\ recent[s] \in Seq(Ages)
  BY DEF TypeOK
<1>2. CASE Exit(s)
  <2>1. Counted(Ended, <<>>)
    BY NothingCounted DEF Ended
  <2>. QED BY <1>2, <2>1 DEF Exit
<1>3. ASSUME NEW y, sup' = [sup EXCEPT ![s] = y], UNCHANGED recent,
             y.fails = x.fails, y.since = x.since
      PROVE  \E z, r : /\ sup' = [sup EXCEPT ![s] = z] /\ recent' = [recent EXCEPT ![s] = r]
                       /\ Counted(z, r)
  <2>1. recent' = [recent EXCEPT ![s] = recent[s]]
    BY <1>3 DEF TypeOK
  <2>2. Counted(y, recent[s])
    BY <1>3, SameCount
  <2>. QED BY <2>1, <2>2, <1>3
<1>4. ASSUME NEW p \in Pcs, Goto(s, p)
      PROVE  \E y, r : /\ sup' = [sup EXCEPT ![s] = y] /\ recent' = [recent EXCEPT ![s] = r]
                       /\ Counted(y, r)
  <2>. DEFINE y == [x EXCEPT !.pc = p]
  <2>1. sup' = [sup EXCEPT ![s] = y] /\ UNCHANGED recent
    BY <1>4 DEF Goto, TypeOK
  <2>2. y.fails = x.fails /\ y.since = x.since
    <3>. HIDE DEF x
    <3>. QED BY <1>1, PcKeepsCount
  <2>. HIDE DEF y
  <2>. QED BY <2>1, <2>2, <1>3
<1>5. CASE LoopHead(s) \/ Connect(s) \/ Block(s) \/ Heartbeat(s)
  BY <1>2, <1>4, <1>5 DEF LoopHead, Check, Connect, Block, Heartbeat, Pcs
<1>6. CASE ReturnNil(s)
  <2>1. sup' = [sup EXCEPT ![s] = Returned(x)] /\ recent' = [recent EXCEPT ![s] = <<>>]
    BY <1>6 DEF ReturnNil, Returned, TypeOK
  <2>2. Returned(x).since = None
    BY <1>1, ReturnForgets
  <2>3. Counted(Returned(x), <<>>)
    BY <2>2, NothingCounted
  <2>. QED BY <2>1, <2>3
<1>7. CASE Fail(s)
  <2>1. CASE Exit(s)
    BY <2>1, <1>2
  <2>2. CASE FailCount(s) < FailLimit /\ ~Exit(s)
    <3>. DEFINE d == IF WindowOver(s) THEN 0 ELSE x.since
                y == Failed(x, FailCount(s), d, x.backoff)
                r == Append(IF Len(recent[s]) < FailLimit - 1 THEN recent[s]
                                                             ELSE Tail(recent[s]), 0)
    <3>1. sup' = [sup EXCEPT ![s] = y] /\ recent' = [recent EXCEPT ![s] = r]
      BY <1>7, <2>2 DEF Fail, Failed, Remember, TypeOK
    <3>2. y.fails = FailCount(s) /\ y.since = d
      BY <1>1, FailCounts
    <3>3. d \in Ages
      BY <1>1 DEF WindowOver, Supervisor, Ages
    <3>4. IF x.since = None \/ x.since > FailWindow
            THEN FailCount(s) = 1 /\ d = 0 ELSE FailCount(s) = x.fails + 1 /\ d = x.since
      BY DEF WindowOver, FailCount
    <3>5. Counted(y, r)
      <4>. HIDE DEF y, d, x
      <4>. QED BY <3>2, <3>3, <3>4, <1>1, <2>2, OneMoreFailure DEF x
    <3>. QED BY <3>1, <3>5
  <2>. QED BY <2>1, <2>2, <1>7 DEF Fail
<1>8. CASE Retry(s)
  <2>1. CASE Exit(s)
    BY <2>1, <1>2
  <2>2. CASE ~Exit(s)
    <3>1. sup' = [sup EXCEPT ![s] = Retried(x, Doubled(x.backoff))] /\ UNCHANGED recent
      BY <1>8, <2>2 DEF Retry, Retried, TypeOK
    <3>. QED BY <3>1, <1>1, <1>3, RetryKeepsCount
  <2>. QED BY <2>1, <2>2
<1>9. CASE Update(s)
  <2>1. sup' = [sup EXCEPT ![s] = Buffered(x, x.buffer + 1, TRUE)] /\ UNCHANGED recent
    BY <1>9 DEF Update, Buffered, TypeOK
  <2>. QED BY <2>1, <1>1, <1>3, BufferKeepsCount
<1>10. CASE Hear(s)
  <2>1. sup' = [sup EXCEPT ![s] = Buffered(x, x.buffer - 1, FALSE)] /\ UNCHANGED recent
    BY <1>10 DEF Hear, Buffered, TypeOK
  <2>. QED BY <2>1, <1>1, <1>3, BufferKeepsCount
<1>11. CASE NoopDone(s)
  <2>1. sup' = [sup EXCEPT ![s] = Resumed(x, x.buffer)] /\ UNCHANGED recent
    BY <1>11 DEF NoopDone, LeftOver, Resumed, TypeOK
  <2>. QED BY <2>1, <1>1, <1>3, ResumeKeepsCount
<1>. QED BY <1>5, <1>6, <1>7, <1>8, <1>9, <1>10, <1>11 DEF Supervise, Connected

\* BreakerInv is kept: a goroutine that starts or ends has counted nothing, and nobody
\* else touches its count.
LEMMA BreakerStep == TypeOK /\ BreakerInv /\ [Next]_vars => BreakerInv'
<1>. SUFFICES ASSUME TypeOK, BreakerInv, [Next]_vars PROVE BreakerInv'
  OBVIOUS
<1>1. ASSUME NEW S, sup' = Cancelled(S), UNCHANGED recent PROVE BreakerInv'
  <2>. SUFFICES ASSUME NEW s \in Supervisors PROVE Counted(sup'[s], recent[s])
    BY <1>1 DEF BreakerInv
  <2>. DEFINE x == sup[s]
  <2>1. x \in Supervisor /\ Counted(x, recent[s])
    BY DEF TypeOK, BreakerInv
  <2>2. sup'[s] = x \/ sup'[s] = [x EXCEPT !.cancelled = TRUE]
    BY <1>1 DEF Cancelled
  <2>. HIDE DEF x
  <2>. QED BY <2>1, <2>2, CancelKeepsCount, SameCount
<1>2. CASE SyncApply
  <2>1. PICK f \in Injection(Missing, {s \in Supervisors : Unused(s)}) :
          /\ sup' = [s \in Supervisors |-> IF \E a \in Missing : f[a] = s
                                             THEN Started(CHOOSE a \in Missing : f[a] = s)
                                             ELSE sup[s]]
          /\ recent' = [s \in Supervisors |-> IF \E a \in Missing : f[a] = s THEN <<>> ELSE recent[s]]
    BY <1>2, Zenon DEF SyncApply
  <2>2. \A a : Counted(Started(a), <<>>)
    <3>1. ASSUME NEW a PROVE Started(a).since = None
      BY DEF Started, Ended
    <3>. QED BY <3>1, NothingCounted
  <2>3. ASSUME NEW s \in Supervisors PROVE Counted(sup'[s], recent'[s])
    <3>1. CASE \E a \in Missing : f[a] = s
      <4>1. recent'[s] = <<>> /\ sup'[s] = Started(CHOOSE a \in Missing : f[a] = s)
        BY <2>1, <3>1
      <4>. QED BY <4>1, <2>2
    <3>2. CASE ~\E a \in Missing : f[a] = s
      BY <2>1, <3>2 DEF BreakerInv
    <3>. QED BY <3>1, <3>2
  <2>. QED BY <2>3 DEF BreakerInv
<1>3. ASSUME NEW s \in Supervisors, Supervise(s) PROVE BreakerInv'
  <2>1. Counted(sup[s], recent[s])
    BY DEF BreakerInv
  <2>2. PICK y, r : /\ sup' = [sup EXCEPT ![s] = y] /\ recent' = [recent EXCEPT ![s] = r]
                    /\ Counted(y, r)
    BY <2>1, <1>3, SuperviseCounts
  <2>3. ASSUME NEW t \in Supervisors PROVE Counted(sup'[t], recent'[t])
    <3>1. IF t = s THEN sup'[t] = y /\ recent'[t] = r
                   ELSE sup'[t] = sup[t] /\ recent'[t] = recent[t]
      BY <2>2 DEF TypeOK
    <3>. QED BY <3>1, <2>2 DEF BreakerInv
  <2>. QED BY <2>3 DEF BreakerInv
<1>4. CASE Tick
  <2>1. ASSUME NEW s \in Supervisors PROVE Counted(sup'[s], recent'[s])
    <3>. DEFINE x == sup[s]
                y == [x EXCEPT !.wait = IF x.wait > 0 THEN x.wait - 1 ELSE 0]
                z == [y EXCEPT !.since = IF x.since = None THEN None ELSE Older(x.since)]
    <3>1. x \in Supervisor /\ recent[s] \in Seq(Ages) /\ Counted(x, recent[s])
      BY DEF TypeOK, BreakerInv
    <3>2. sup'[s] = z /\ recent'[s] = [k \in DOMAIN recent[s] |-> Older(recent[s][k])]
      BY <1>4 DEF Tick
    <3>3. z.fails = x.fails /\ z.since = IF x.since = None THEN None ELSE Older(x.since)
      <4>. HIDE DEF x
      <4>. QED BY <3>1 DEF Supervisor
    <3>. HIDE DEF x, z
    <3>. QED BY <3>1, <3>2, <3>3, AllOlder
  <2>. QED BY <2>1 DEF BreakerInv
<1>5. CASE UNCHANGED <<sup, recent>>
  BY <1>5 DEF BreakerInv
<1>. QED
  BY <1>1, <1>2, <1>3, <1>4, <1>5
     DEF Next, Steps, Outside, Sync, vars, pool, Activate, Leave, DisconnectTask, LoseSignal,
         RemoveAccount, Stop, SyncRead

LEMMA BreakerCorrect == Spec => []BreakerInv
<1>1. Init => BreakerInv
  <2>1. Counted(Ended, <<>>)
    BY NothingCounted DEF Ended
  <2>. QED BY <2>1 DEF Init, BreakerInv
<1>. QED BY <1>1, BreakerStep, TypeCorrect, PTL DEF Spec

\* The only step that suspends an account is a failure of a supervisor of it that has
\* not been told to stop, past the breaker's limit.
LEMMA OnlyFailSuspends ==
  ASSUME TypeOK, [Next]_vars, NEW a \in Accounts,
         status[a] # status'[a], status'[a] = "CONNECTION_SUSPENDED"
  PROVE  \E s \in Supervisors : Supervises(s, a) /\ FailCount(s) >= FailLimit
<1>1. ASSUME NEW s \in Supervisors, Fail(s)
      PROVE  Supervises(s, a) /\ FailCount(s) >= FailLimit
  <2>1. WriteAllowed(s) /\ FailCount(s) >= FailLimit
        /\ status' = [status EXCEPT ![sup[s].acc] = "CONNECTION_SUSPENDED"]
    BY <1>1 DEF Fail
  <2>2. sup[s].acc = a
    BY <2>1 DEF TypeOK
  <2>. QED BY <1>1, <2>1, <2>2 DEF Fail, At, WriteAllowed, Supervises, Running
<1>2. ASSUME NEW s \in Supervisors, Supervise(s), ~Fail(s) PROVE FALSE
  BY <1>2 DEF Supervise, Connected, LoopHead, Connect, Update, Block, Hear, Heartbeat,
              NoopDone, ReturnNil, Retry, rows
<1>3. ASSUME NEW b \in Accounts, Outside(b) \/ RemoveAccount(b) PROVE FALSE
  BY <1>3 DEF Outside, Activate, Leave, DisconnectTask, LoseSignal, RemoveAccount, TypeOK
<1>4. CASE Sync \/ Stop \/ Tick \/ UNCHANGED vars
  BY <1>4 DEF Sync, SyncRead, SyncApply, Stop, Tick, vars, rows
<1>. QED BY <1>1, <1>2, <1>3, <1>4 DEF Next, Steps

\* SuspensionJustified: whatever connections, cancellations and waits come between, an
\* account is suspended only after FailLimit failures within FailWindow.
THEOREM SuspensionsAreJustified == Spec => SuspensionJustified
<1>. DEFINE A == \A a \in Accounts : status'[a] = "CONNECTION_SUSPENDED" /\ status[a] # status'[a] =>
                   \E s \in Supervisors :
                     /\ Supervises(s, a)
                     /\ Len(recent[s]) = FailLimit - 1
                     /\ \A k \in DOMAIN recent[s] : recent[s][k] <= FailWindow
<1>1. ASSUME TypeOK, BreakerInv, [Next]_vars PROVE A
  <2>. SUFFICES ASSUME NEW a \in Accounts,
                       status'[a] = "CONNECTION_SUSPENDED", status[a] # status'[a]
                PROVE  \E s \in Supervisors :
                         /\ Supervises(s, a)
                         /\ Len(recent[s]) = FailLimit - 1
                         /\ \A k \in DOMAIN recent[s] : recent[s][k] <= FailWindow
    OBVIOUS
  <2>1. PICK s \in Supervisors : Supervises(s, a) /\ FailCount(s) >= FailLimit
    BY <1>1, OnlyFailSuspends
  <2>2. sup[s] \in Supervisor /\ recent[s] \in Seq(Ages) /\ Counted(sup[s], recent[s])
    BY <1>1 DEF TypeOK, BreakerInv
  <2>3. /\ sup[s].since # None /\ sup[s].since <= FailWindow
        /\ sup[s].fails + 1 >= FailLimit
    BY <2>1, <2>2 DEF FailCount, WindowOver, Supervisor, Ages
  <2>4. sup[s].since \in Nat /\ sup[s].fails \in Nat /\ Len(recent[s]) \in Nat
    BY <2>2, <2>3 DEF Supervisor, Ages
  <2>5. sup[s].fails = FailLimit - 1 /\ Len(recent[s]) = FailLimit - 1
    BY <2>2, <2>3, <2>4 DEF Counted
  <2>6. ASSUME NEW k \in DOMAIN recent[s] PROVE recent[s][k] <= FailWindow
    <3>1. k \in 1..Len(recent[s]) /\ recent[s][k] \in Nat
      BY <2>2 DEF Ages
    <3>2. recent[s][k] <= sup[s].since
      BY <3>1, <2>2, <2>3, <2>4, <2>5 DEF Counted
    <3>. QED BY <3>1, <3>2, <2>3, <2>4
  <2>. QED BY <2>1, <2>5, <2>6
<1>2. TypeOK /\ BreakerInv /\ [Next]_vars => [A]_status
  BY <1>1
<1>. QED BY <1>2, BreakerCorrect, TypeCorrect, PTL DEF Spec, SuspensionJustified

\* DisconnectSticks: a supervisor's verdict replaces the owner's only while the signal
\* to stop it is late, lost or was premature.
THEOREM DisconnectionsStick == Spec => DisconnectSticks
<1>. DEFINE A == \A a \in Accounts :
                   status[a] = "DISCONNECTED" /\ status'[a] = "CONNECTION_SUSPENDED"
                     => signals[a] > 0 \/ a \in premature \/ a \in lost
<1>1. ASSUME TypeOK, NobodyWatchesTheGone, [Next]_vars PROVE A
  <2>. SUFFICES ASSUME NEW a \in Accounts,
                       status[a] = "DISCONNECTED", status'[a] = "CONNECTION_SUSPENDED"
                PROVE  signals[a] > 0 \/ a \in premature \/ a \in lost
    OBVIOUS
  <2>1. Supervised(a)
    BY <1>1, OnlyFailSuspends DEF Supervised
  <2>. QED BY <2>1, <1>1 DEF NobodyWatchesTheGone
<1>2. TypeOK /\ NobodyWatchesTheGone /\ [Next]_vars => [A]_status
  BY <1>1
<1>. QED BY <1>2, GoneUnwatched, TypeCorrect, PTL DEF Spec, DisconnectSticks
=============================================================================
