------------------------ MODULE MessagePipelineProofs ------------------------
(* Theorems of MessagePipeline, for every mailbox, clock and number of tasks.  *)
EXTENDS MessagePipeline, FiniteSetTheorems, TLAPS

USE PipelineAssumption DEF PipelineAssumption

\* A freshly queued task has the type of a task.
LEMMA QueuedType ==
  ASSUME NEW k \in {"fetch", "process"}, NEW m \in Messages
  PROVE  /\ Queued(k, m) \in Task
         /\ Queued(k, m).kind = k /\ Queued(k, m).pc = "queued"
         /\ Queued(k, m).msg = m /\ Queued(k, m).retried = 0
BY DEF Queued, Idle, Task, FetchPCs, ProcPCs

LEMMA IdleType == Idle \in Task /\ Idle.kind = "none" /\ Idle.pc = "done"
BY DEF Idle, Task, FetchPCs, ProcPCs

\* What an error leaves of a running task: the same task queued again, or nothing.
LEMMA AfterErrorType ==
  ASSUME task \in [Tasks -> Task], NEW i \in Tasks, ~Free(i), Msg(i) \in Messages
  PROVE  /\ AfterError(i) \in Task
         /\ \/ AfterError(i).kind = "none"
            \/ /\ AfterError(i).kind = task[i].kind /\ AfterError(i).msg = Msg(i)
               /\ AfterError(i).pc = "queued"
<1>1. CASE task[i].retried < MaxRetry
  <2>1. Queued(task[i].kind, Msg(i)) \in Task
    BY QueuedType DEF Task, Free
  <2>2. task[i].retried + 1 \in 0..MaxRetry
    BY <1>1 DEF Task
  <2>. QED BY <1>1, <2>1, <2>2 DEF AfterError, Task, Queued, Idle
<1>2. CASE ~(task[i].retried < MaxRetry)
  BY <1>2, IdleType DEF AfterError
<1>. QED BY <1>1, <1>2

\* The part of TypeOK that is about the tasks, and what each way a handler changes
\* them does to it.
TaskOK == /\ task \in [Tasks -> Task]
          /\ \A i \in Tasks : ~Free(i) => Msg(i) \in Messages /\ received[Msg(i)] # Null

LEMMA UnchangedTaskOK ==
  ASSUME TaskOK, UNCHANGED <<task, received>>
  PROVE  TaskOK'
BY DEF TaskOK, Free, Msg

LEMMA GotoTaskOK ==
  ASSUME TaskOK, NEW i \in Tasks, ~Free(i), NEW p \in FetchPCs \cup ProcPCs,
         Goto(i, p), UNCHANGED received
  PROVE  TaskOK'
BY DEF TaskOK, Goto, Free, Msg, Task

LEMMA ReturnErrTaskOK ==
  ASSUME TaskOK, NEW i \in Tasks, ~Free(i), ReturnErr(i), UNCHANGED received
  PROVE  TaskOK'
<1>1. AfterError(i) \in Task
  BY AfterErrorType DEF TaskOK
<1>2. AfterError(i).kind # "none" => AfterError(i).msg = Msg(i)
  BY AfterErrorType DEF TaskOK
<1>3. task' \in [Tasks -> Task]
  BY <1>1 DEF TaskOK, ReturnErr
<1>4. \A j \in Tasks : ~Free(j)' => Msg(j)' \in Messages /\ received[Msg(j)'] # Null
  BY <1>1, <1>2 DEF TaskOK, ReturnErr, Free, Msg
<1>. QED BY <1>3, <1>4 DEF TaskOK

LEMMA EnqueueTaskOK ==
  ASSUME TaskOK, NEW j \in Tasks, NEW k \in {"fetch", "process"},
         NEW m \in Messages, received[m] # Null,
         task' = [task EXCEPT ![j] = Queued(k, m)], UNCHANGED received
  PROVE  TaskOK'
<1>1. Queued(k, m) \in Task /\ Queued(k, m).msg = m
  BY QueuedType
<1>2. task' \in [Tasks -> Task]
  BY <1>1 DEF TaskOK
<1>. QED BY <1>1, <1>2 DEF TaskOK, Free, Msg

LEMMA ReplaceTwoTaskOK ==
  ASSUME TaskOK, NEW i \in Tasks, ~Free(i), NEW j \in Tasks, i # j,
         NEW t \in Task, t.kind # "none" => t.msg = Msg(i),
         NEW u \in Task, u.msg = Msg(i),
         task' = [task EXCEPT ![i] = t, ![j] = u], UNCHANGED received
  PROVE  TaskOK'
<1>1. task' \in [Tasks -> Task]
  BY DEF TaskOK
<1>2. /\ task'[i] = t /\ task'[j] = u
      /\ \A k \in Tasks \ {i, j} : task'[k] = task[k]
  BY DEF TaskOK
<1>. QED BY <1>1, <1>2 DEF TaskOK, Free, Msg

LEMMA SpawnTaskOK ==
  ASSUME TaskOK, NEW i \in Tasks, ~Free(i), NEW j \in Tasks, Free(j),
         NEW k \in {"fetch", "process"}, UNCHANGED received,
         \/ task' = [task EXCEPT ![i].pc = "done", ![j] = Queued(k, Msg(i))]
         \/ task' = [task EXCEPT ![i] = AfterError(i), ![j] = Queued(k, Msg(i))]
  PROVE  TaskOK'
<1>0. i # j
  OBVIOUS
<1>1. Queued(k, Msg(i)) \in Task /\ Queued(k, Msg(i)).msg = Msg(i)
  BY QueuedType DEF TaskOK
<1>2. CASE task' = [task EXCEPT ![i].pc = "done", ![j] = Queued(k, Msg(i))]
  <2>. DEFINE t == [task[i] EXCEPT !.pc = "done"]
  <2>1. t \in Task /\ t.msg = Msg(i)
    BY DEF TaskOK, Task, FetchPCs, Msg
  <2>2. task' = [task EXCEPT ![i] = t, ![j] = Queued(k, Msg(i))]
    BY <1>2
  <2>. HIDE DEF t
  <2>. QED BY <1>0, <1>1, <2>1, <2>2, ReplaceTwoTaskOK
<1>3. CASE task' = [task EXCEPT ![i] = AfterError(i), ![j] = Queued(k, Msg(i))]
  <2>1. /\ AfterError(i) \in Task
        /\ AfterError(i).kind # "none" => AfterError(i).msg = Msg(i)
    BY AfterErrorType DEF TaskOK
  <2>. QED BY <1>0, <1>1, <1>3, <2>1, ReplaceTwoTaskOK
<1>. QED BY <1>2, <1>3

\* A fault keeps within its bound.
LEMMA FaultType ==
  ASSUME faults \in 0..MaxFaults, Fault
  PROVE  faults' \in 0..MaxFaults
BY DEF Fault

\* TypeOK: every step keeps the types; no task is retried more than MaxRetry times
\* and every queued task is about a message that has arrived.
THEOREM TypeCorrect == Spec => []TypeOK
<1>1. Init => TypeOK
  <2>. SUFFICES ASSUME Init PROVE TypeOK
    OBVIOUS
  <2>1. task \in [Tasks -> Task] /\ \A i \in Tasks : Free(i)
    BY IdleType DEF Init, Free
  <2>2. lastSync \in Int \cup {Null}
    BY DEF Init
  <2>3. /\ received \in [Messages -> Time \cup {Null}]
        /\ expires \in [Messages -> Int \cup {Null}]
    BY DEF Init
  <2>. QED BY <2>1, <2>2, <2>3 DEF Init, TypeOK, Statuses, Time
<1>2. TypeOK /\ [Next]_vars => TypeOK'
  <2>. SUFFICES ASSUME TypeOK, [Next]_vars PROVE TypeOK'
    OBVIOUS
  <2>. USE DEF TypeOK
  <2>0. TaskOK
    BY DEF TaskOK
  <2>1. CASE Tick
    BY <2>1 DEF Tick, provider, account, store, bounds, history, Time, Free, Msg
  <2>2. CASE EditRules
    BY <2>2 DEF EditRules, account, store, bounds, history, Free, Msg
  <2>3. CASE Reconnect
    BY <2>3 DEF Reconnect, provider, store, bounds, history, Free, Msg, Statuses, Time
  <2>4. CASE Disconnect
    BY <2>4 DEF Disconnect, provider, store, bounds, history, Free, Msg, Statuses
  <2>5. CASE Crash
    <3>1. \A i \in Active : /\ AfterError(i) \in Task
                            /\ AfterError(i).kind # "none" => AfterError(i).msg = Msg(i)
      BY AfterErrorType DEF Active
    <3>2. task' \in [Tasks -> Task]
      BY <2>5, <3>1 DEF Crash, Active
    <3>3. \A i \in Tasks : ~Free(i)' => Msg(i)' \in Messages /\ received[Msg(i)'] # Null
      BY <2>5, <3>1 DEF Crash, Active, Free, Msg
    <3>4. harmed' \subseteq Messages
      BY <2>5 DEF Crash, Stranded, Active
    <3>5. crashes' \in 0..MaxCrashes
      BY <2>5 DEF Crash
    <3>. QED
      BY <2>5, <3>2, <3>3, <3>4, <3>5 DEF Crash, provider, account, store
  <2>6. ASSUME NEW m \in Messages, Arrive(m) PROVE TypeOK'
    BY <2>6 DEF Arrive, account, store, bounds, history, Free, Msg, Time
  <2>7. ASSUME NEW m \in Messages, Webhook(m) PROVE TypeOK'
    <3>1. received[m] # Null /\ UNCHANGED received
      BY <2>7 DEF Webhook
    <3>2. TaskOK'
      BY <2>0, <2>7, <3>1, EnqueueTaskOK, UnchangedTaskOK DEF Webhook
    <3>3. /\ notices' \in [Messages -> Nat]
          /\ \A n \in Messages : notices'[n] > 0 => received[n] # Null
      BY <2>7, <3>1 DEF Webhook
    <3>4. faults' \in 0..MaxFaults /\ harmed' \subseteq Messages
      BY <2>7 DEF Webhook, Fault
    <3>. QED
      BY <2>7, <3>1, <3>2, <3>3, <3>4 DEF Webhook, account, store, TaskOK
  <2>8. ASSUME NEW i \in Tasks, Lookup(i) PROVE TypeOK'
    <3>1. ~Free(i) /\ Msg(i) \in Messages /\ received[Msg(i)] # Null /\ UNCHANGED received
      BY <2>8 DEF Lookup, At, Free, provider
    <3>2. ASSUME task' = [task EXCEPT ![i].pc = "dedup", ![i].snap = lastSync]
          PROVE  TaskOK'
      <4>. DEFINE t == [task[i] EXCEPT !.pc = "dedup"]
      <4>0. t \in Task
        BY DEF Task, FetchPCs
      <4>1. [t EXCEPT !.snap = lastSync] \in Task
        <5>. HIDE DEF t
        <5>. QED BY <4>0 DEF Task
      <4>2. task' \in [Tasks -> Task]
        BY <3>2, <4>1
      <4>. QED BY <3>1, <3>2, <4>2 DEF TaskOK, Free, Msg
    <3>3. TaskOK'
      BY <2>0, <2>8, <3>1, <3>2, GotoTaskOK, ReturnErrTaskOK
      DEF Lookup, LookupFailed, ReturnNil, FetchPCs
    <3>. QED
      <4>1. harmed' \subseteq Messages /\ faults' \in 0..MaxFaults
        BY <2>8, <3>1 DEF Lookup, LookupFailed, Harm, HarmIfArchived, Fault
      <4>. QED BY <2>8, <3>1, <3>3, <4>1 DEF Lookup, provider, account, store, TaskOK
  <2>9. ASSUME NEW i \in Tasks, Dedup(i) PROVE TypeOK'
    <3>1. ~Free(i) /\ Msg(i) \in Messages /\ received[Msg(i)] # Null /\ UNCHANGED received
      BY <2>9 DEF Dedup, At, Free, provider
    <3>2. TaskOK'
      BY <2>0, <2>9, <3>1, GotoTaskOK, ReturnErrTaskOK
      DEF Dedup, ReturnNil, AfterDedup, FetchPCs, ProcPCs
    <3>. QED
      BY <2>9, <3>1, <3>2 DEF Dedup, Fault, Time, provider, account, store, TaskOK
  <2>10. ASSUME NEW i \in Tasks, Token(i) PROVE TypeOK'
    <3>1. ~Free(i) /\ Msg(i) \in Messages /\ received[Msg(i)] # Null /\ UNCHANGED received
      BY <2>10 DEF Token, At, Free, provider
    <3>2. TaskOK'
      BY <2>0, <2>10, <3>1, GotoTaskOK, ReturnErrTaskOK
      DEF Token, FetchPCs, ProcPCs
    <3>. QED
      BY <2>10, <3>1, <3>2 DEF Token, Fault, Harm, Reauth, Statuses, account, provider, store, TaskOK
  <2>11. ASSUME NEW i \in Tasks, GetHeader(i) PROVE TypeOK'
    <3>1. ~Free(i) /\ Msg(i) \in Messages /\ received[Msg(i)] # Null /\ UNCHANGED received
      BY <2>11 DEF GetHeader, At, Free, provider
    <3>2. TaskOK'
      BY <2>0, <2>11, <3>1, GotoTaskOK, ReturnErrTaskOK, SpawnTaskOK
      DEF GetHeader, ProviderFault, Throttle, Reschedule, ReturnNil, AfterMatch, FetchPCs
    <3>. QED
      BY <2>11, <3>1, <3>2 DEF GetHeader, ProviderFault, Throttle, Reschedule, Fault, Harm, Reauth, Statuses, account, provider, store, TaskOK
  <2>12. ASSUME NEW i \in Tasks, GetBody(i) PROVE TypeOK'
    <3>1. ~Free(i) /\ Msg(i) \in Messages /\ received[Msg(i)] # Null /\ UNCHANGED received
      BY <2>12 DEF GetBody, At, Free, provider
    <3>2. TaskOK'
      BY <2>0, <2>12, <3>1, GotoTaskOK, ReturnErrTaskOK, SpawnTaskOK
      DEF GetBody, ProviderFault, Throttle, Reschedule, ReturnNil, AfterMatch, FetchPCs
    <3>. QED
      BY <2>12, <3>1, <3>2 DEF GetBody, ProviderFault, Throttle, Reschedule, Fault, Harm, Reauth, Statuses, account, provider, store, TaskOK
  <2>13. ASSUME NEW i \in Tasks, Handoff(i) PROVE TypeOK'
    <3>1. ~Free(i) /\ Msg(i) \in Messages /\ received[Msg(i)] # Null /\ UNCHANGED received
      BY <2>13 DEF Handoff, At, Free, provider
    <3>2. TaskOK'
      BY <2>0, <2>13, <3>1, ReturnErrTaskOK, SpawnTaskOK DEF Handoff
    <3>. QED
      BY <2>13, <3>1, <3>2 DEF Handoff, Fault, Harm, provider, account, store, TaskOK
  <2>14. ASSUME NEW i \in Tasks, Extract(i) PROVE TypeOK'
    <3>1. ~Free(i) /\ Msg(i) \in Messages /\ received[Msg(i)] # Null /\ UNCHANGED received
      BY <2>14 DEF Extract, At, Free, provider
    <3>2. TaskOK'
      BY <2>0, <2>14, <3>1, GotoTaskOK, ReturnErrTaskOK
      DEF Extract, ReturnNil, FetchPCs, ProcPCs
    <3>. QED
      BY <2>14, <3>1, <3>2 DEF Extract, Fault, HarmIfArchived, provider, account, store, TaskOK
  <2>15. ASSUME NEW i \in Tasks, Insert(i) PROVE TypeOK'
    <3>1. ~Free(i) /\ Msg(i) \in Messages /\ received[Msg(i)] # Null /\ UNCHANGED received
      BY <2>15 DEF Insert, At, Free, provider
    <3>2. TaskOK'
      BY <2>0, <2>15, <3>1, GotoTaskOK, ReturnErrTaskOK
      DEF Insert, InsertFailed, FetchPCs, ProcPCs
    <3>. QED
      BY <2>15, <3>1, <3>2 DEF Insert, Fault, InsertFailed, HarmIfArchived, NewRow, provider, account, TaskOK
  <2>16. ASSUME NEW i \in Tasks, UpdateLastSync(i) PROVE TypeOK'
    <3>1. ~Free(i) /\ Msg(i) \in Messages /\ received[Msg(i)] # Null /\ UNCHANGED received
      BY <2>16 DEF UpdateLastSync, At, Free, provider
    <3>2. TaskOK'
      BY <2>0, <2>16, <3>1, GotoTaskOK, ReturnErrTaskOK
      DEF UpdateLastSync, SyncFailed, FetchPCs, ProcPCs
    <3>. QED
      BY <2>16, <3>1, <3>2 DEF UpdateLastSync, Fault, IsNewer, EmailDate, Time, provider, store, history, TaskOK
  <2>17. ASSUME NEW i \in Tasks, Publish(i) PROVE TypeOK'
    <3>1. ~Free(i) /\ Msg(i) \in Messages /\ received[Msg(i)] # Null /\ UNCHANGED received
      BY <2>17 DEF Publish, At, Free, provider
    <3>2. TaskOK'
      BY <2>0, <2>17, <3>1, GotoTaskOK, ReturnErrTaskOK
      DEF Publish, ReturnNil, FetchPCs, ProcPCs
    <3>. QED
      BY <2>17, <3>1, <3>2 DEF Publish, Fault, provider, account, history, TaskOK
  <2>18. ASSUME NEW i \in Tasks, Ack(i) PROVE TypeOK'
    <3>1. ~Free(i) /\ Msg(i) \in Messages /\ received[Msg(i)] # Null /\ UNCHANGED received
      BY <2>18 DEF Ack, At, Free, provider
    <3>2. TaskOK'
      BY <2>0, <2>18, <3>1, IdleType DEF Ack, TaskOK, Free, Msg
    <3>. QED BY <2>18, <3>1, <3>2 DEF Ack, provider, account, store, bounds, history, TaskOK
  <2>19. CASE UNCHANGED vars
    BY <2>19 DEF vars, provider, account, store, bounds, history, Free, Msg
  <2>. QED
    BY <2>1, <2>2, <2>3, <2>4, <2>5, <2>6, <2>7, <2>8, <2>9, <2>10, <2>11, <2>12, <2>13, <2>14, <2>15, <2>16, <2>17, <2>18, <2>19
    DEF Next, Environment, Worker, FetchStep, ProcessStep
<1>. QED BY <1>1, <1>2, PTL DEF Spec

-----------------------------------------------------------------------------
\* What a handler's step does to the tasks: task i goes to one of the places P, is
\* finished or is queued again; another task stays as it is or is newly queued.
StepTo(i, P) ==
  /\ \A j \in Tasks \ {i} : task'[j] = task[j] \/ task'[j].pc = "queued"
  /\ \/ task'[i].pc \in {"queued", "done"}
     \/ /\ task'[i].pc \in P
        /\ task'[i].kind = task[i].kind /\ task'[i].msg = task[i].msg

LEMMA AfterErrorPC == \A i \in Tasks : AfterError(i).pc \in {"queued", "done"}
BY DEF AfterError, Queued, Idle

LEMMA GotoStep ==
  ASSUME TaskOK, NEW i \in Tasks, NEW p, Goto(i, p)
  PROVE  /\ StepTo(i, {p})
         /\ p = "done" => StepTo(i, {})
<1>1. task'[i] = [task[i] EXCEPT !.pc = p]
  BY DEF TaskOK, Goto
<1>2. task[i] \in Task
  BY DEF TaskOK
<1>3. /\ task'[i].pc = p
      /\ task'[i].kind = task[i].kind /\ task'[i].msg = task[i].msg
  BY <1>1, <1>2 DEF Task
<1>4. \A j \in Tasks \ {i} : task'[j] = task[j]
  BY DEF TaskOK, Goto
<1>. QED BY <1>3, <1>4 DEF StepTo

LEMMA ReturnErrStep ==
  ASSUME TaskOK, NEW i \in Tasks, ReturnErr(i)
  PROVE  StepTo(i, {})
BY AfterErrorPC DEF TaskOK, ReturnErr, StepTo

LEMMA SpawnStep ==
  ASSUME TaskOK, NEW i \in Tasks, ~Free(i), NEW j \in Tasks, Free(j), NEW k,
         \/ task' = [task EXCEPT ![i].pc = "done", ![j] = Queued(k, Msg(i))]
         \/ task' = [task EXCEPT ![i] = AfterError(i), ![j] = Queued(k, Msg(i))]
  PROVE  StepTo(i, {})
<1>0. i # j /\ task \in [Tasks -> Task]
  BY DEF TaskOK
<1>1. Queued(k, Msg(i)).pc = "queued"
  BY DEF Queued
<1>2. CASE task' = [task EXCEPT ![i].pc = "done", ![j] = Queued(k, Msg(i))]
  <2>1. task'[i] = [task[i] EXCEPT !.pc = "done"]
    BY <1>0, <1>2
  <2>2. task'[i].pc = "done"
    BY <1>0, <2>1 DEF Task
  <2>3. /\ task'[j] = Queued(k, Msg(i))
        /\ \A l \in Tasks \ {i, j} : task'[l] = task[l]
    BY <1>0, <1>2
  <2>. QED BY <1>1, <2>2, <2>3 DEF StepTo
<1>3. CASE task' = [task EXCEPT ![i] = AfterError(i), ![j] = Queued(k, Msg(i))]
  <2>1. /\ task'[i] = AfterError(i) /\ task'[j] = Queued(k, Msg(i))
        /\ \A l \in Tasks \ {i, j} : task'[l] = task[l]
    BY <1>0, <1>3
  <2>. QED BY <1>1, <2>1, AfterErrorPC DEF StepTo
<1>. QED BY <1>2, <1>3

\* Where each step of a handler takes its task.
LEMMA HandlerSteps ==
  ASSUME TypeOK, NEW i \in Tasks
  PROVE  /\ Lookup(i) => StepTo(i, {"dedup"})
         /\ Dedup(i) => StepTo(i, {"token", "get"})
         /\ Token(i) => StepTo(i, {"get"})
         /\ GetHeader(i) => StepTo(i, {"body", "handoff"})
         /\ GetBody(i) => StepTo(i, {"handoff"})
         /\ Handoff(i) => StepTo(i, {})
         /\ Extract(i) => StepTo(i, {"insert"})
         /\ Insert(i) => StepTo(i, {"sync"})
         /\ UpdateLastSync(i) => StepTo(i, {"publish"})
         /\ Publish(i) => StepTo(i, {})
         /\ Ack(i) => StepTo(i, {})
<1>0. TaskOK
  BY DEF TypeOK, TaskOK
<1>a. ASSUME NEW P, NEW Q, P \subseteq Q, StepTo(i, P) PROVE StepTo(i, Q)
  BY <1>a DEF StepTo
<1>1. ASSUME Lookup(i) PROVE StepTo(i, {"dedup"})
  <2>1. ASSUME task' = [task EXCEPT ![i].pc = "dedup", ![i].snap = lastSync]
        PROVE  StepTo(i, {"dedup"})
    <3>1. task'[i] = [task[i] EXCEPT !.pc = "dedup", !.snap = lastSync] /\ task[i] \in Task
      BY <1>0, <2>1 DEF TaskOK
    <3>2. /\ task'[i].pc = "dedup"
          /\ task'[i].kind = task[i].kind /\ task'[i].msg = task[i].msg
      BY <3>1 DEF Task
    <3>3. \A j \in Tasks \ {i} : task'[j] = task[j]
      BY <1>0, <2>1 DEF TaskOK
    <3>. QED BY <3>2, <3>3 DEF StepTo
  <2>. QED
    BY <1>0, <1>a, <1>1, <2>1, GotoStep, ReturnErrStep DEF Lookup, LookupFailed, ReturnNil
<1>2. ASSUME Dedup(i) PROVE StepTo(i, {"token", "get"})
  <2>1. AfterDedup \in {"token", "get"}
    BY DEF AfterDedup
  <2>2. Goto(i, AfterDedup) \/ Goto(i, "done")
    BY <1>2 DEF Dedup, ReturnNil
  <2>3. StepTo(i, {AfterDedup}) \/ StepTo(i, {})
    BY <1>0, <2>2, GotoStep
  <2>. QED BY <2>1, <2>3 DEF StepTo
<1>3. ASSUME Token(i) PROVE StepTo(i, {"get"})
  BY <1>0, <1>a, <1>3, GotoStep, ReturnErrStep
  DEF Token
<1>4. ASSUME GetHeader(i) PROVE StepTo(i, {"body", "handoff"})
  <2>1. AfterMatch \in {"body", "handoff"}
    BY DEF AfterMatch
  <2>2. CASE ReturnErr(i)
    BY <1>0, <1>a, <2>2, ReturnErrStep
  <2>3. CASE Goto(i, "done") \/ Goto(i, AfterMatch)
    <3>1. StepTo(i, {AfterMatch}) \/ StepTo(i, {})
      BY <1>0, <2>3, GotoStep
    <3>. QED BY <2>1, <3>1 DEF StepTo
  <2>4. CASE Reschedule(i)
    BY <1>0, <1>a, <1>4, <2>4, GotoStep, SpawnStep DEF GetHeader, Reschedule, ReturnNil, At, Free
  <2>. QED
    BY <1>4, <2>2, <2>3, <2>4 DEF GetHeader, ProviderFault, Throttle, ReturnNil
<1>5. ASSUME GetBody(i) PROVE StepTo(i, {"handoff"})
  BY <1>0, <1>a, <1>5, GotoStep, ReturnErrStep, SpawnStep
  DEF GetBody, ProviderFault, Throttle, Reschedule, ReturnNil, At, Free
<1>6. ASSUME Handoff(i) PROVE StepTo(i, {})
  BY <1>0, <1>a, <1>6, ReturnErrStep, SpawnStep
  DEF Handoff, At, Free
<1>7. ASSUME Extract(i) PROVE StepTo(i, {"insert"})
  BY <1>0, <1>a, <1>7, GotoStep, ReturnErrStep
  DEF Extract, ReturnNil
<1>8. ASSUME Insert(i) PROVE StepTo(i, {"sync"})
  BY <1>0, <1>a, <1>8, GotoStep, ReturnErrStep
  DEF Insert, InsertFailed
<1>9. ASSUME UpdateLastSync(i) PROVE StepTo(i, {"publish"})
  BY <1>0, <1>a, <1>9, GotoStep
  DEF UpdateLastSync, SyncFailed
<1>10. ASSUME Publish(i) PROVE StepTo(i, {})
  BY <1>0, <1>a, <1>10, GotoStep
  DEF Publish, ReturnNil
<1>11. ASSUME Ack(i) PROVE StepTo(i, {})
  BY <1>0, <1>11, IdleType DEF Ack, StepTo, TaskOK
<1>. QED BY <1>1, <1>2, <1>3, <1>4, <1>5, <1>6, <1>7, <1>8, <1>9, <1>10, <1>11

\* A step that brings no other task past its INSERT and deletes no row keeps RowInv.
LEMMA RowStep ==
  ASSUME TypeOK, TypeOK', RowInv, NEW i \in Tasks, NEW P, StepTo(i, P),
         \A m \in Messages : rows'[m] >= rows[m],
         UNCHANGED events,
         P \cap {"sync", "publish"} = {} \/ (~Free(i) /\ rows'[Msg(i)] > 0)
  PROVE  RowInv'
<1>1. RowBeforeEvent'
  BY DEF RowBeforeEvent, RowInv, TypeOK
<1>2. ASSUME NEW j \in Tasks, At(j, "process", "sync")' \/ At(j, "process", "publish")'
      PROVE  rows'[Msg(j)'] > 0
  <2>0. Msg(j)' \in Messages
    BY <1>2 DEF TypeOK, At, Free, Msg
  <2>1. CASE j = i
    BY <1>2, <2>1 DEF StepTo, At, Msg
  <2>2. CASE j # i
    <3>1. task'[j] = task[j]
      BY <1>2, <2>2 DEF StepTo, At
    <3>2. rows[Msg(j)] > 0
      BY <1>2, <3>1 DEF At, RowInv, StoredFirst
    <3>. QED BY <2>0, <3>1, <3>2 DEF Msg, TypeOK
  <2>. QED BY <2>1, <2>2
<1>. QED BY <1>1, <1>2 DEF RowInv, StoredFirst

\* The inductive form: a process task past its INSERT is about a stored message.
LEMMA RowInvariant == Spec => []RowInv
<1>1. Init => RowInv
  BY IdleType DEF Init, RowInv, RowBeforeEvent, StoredFirst, At
<1>2. TypeOK /\ TypeOK' /\ RowInv /\ [Next]_vars => RowInv'
  <2>. SUFFICES ASSUME TypeOK, TypeOK', RowInv, [Next]_vars PROVE RowInv'
    OBVIOUS
  <2>0. /\ \A m \in Messages : rows[m] \in Nat /\ events[m] \in Nat
        /\ task \in [Tasks -> Task]
        /\ \A i \in Tasks : ~Free(i) => Msg(i) \in Messages
    BY DEF TypeOK
  <2>1. CASE Tick
    BY <2>1 DEF Tick, store, RowInv, RowBeforeEvent, StoredFirst, At, Msg
  <2>2. CASE EditRules
    BY <2>2 DEF EditRules, store, RowInv, RowBeforeEvent, StoredFirst, At, Msg
  <2>3. CASE Reconnect
    BY <2>3 DEF Reconnect, store, RowInv, RowBeforeEvent, StoredFirst, At, Msg
  <2>4. CASE Disconnect
    BY <2>4 DEF Disconnect, store, RowInv, RowBeforeEvent, StoredFirst, At, Msg
  <2>5. CASE Crash
    <3>1. \A j \in Tasks : task'[j] = task[j] \/ task'[j].pc \in {"queued", "done"}
      BY <2>0, <2>5, AfterErrorPC DEF Crash
    <3>. QED BY <2>0, <2>5, <3>1 DEF Crash, store, RowInv, RowBeforeEvent, StoredFirst, At, Msg
  <2>6. ASSUME NEW m \in Messages, Arrive(m) PROVE RowInv'
    BY <2>6 DEF Arrive, store, RowInv, RowBeforeEvent, StoredFirst, At, Msg
  <2>7. ASSUME NEW m \in Messages, Webhook(m) PROVE RowInv'
    <3>1. \A j \in Tasks : task'[j] = task[j] \/ task'[j].pc = "queued"
      BY <2>0, <2>7 DEF Webhook, Queued
    <3>. QED BY <2>0, <2>7, <3>1 DEF Webhook, store, RowInv, RowBeforeEvent, StoredFirst, At, Msg
  <2>8. ASSUME NEW i \in Tasks, Lookup(i) PROVE RowInv'
    <3>1. UNCHANGED <<rows, events>>
      BY <2>8 DEF Lookup, store
    <3>2. \A m \in Messages : rows'[m] >= rows[m]
      BY <2>0, <3>1
    <3>. QED BY <2>8, <3>1, <3>2, HandlerSteps, RowStep
  <2>9. ASSUME NEW i \in Tasks, Dedup(i) PROVE RowInv'
    <3>1. UNCHANGED <<rows, events>>
      BY <2>9 DEF Dedup, store
    <3>2. \A m \in Messages : rows'[m] >= rows[m]
      BY <2>0, <3>1
    <3>. QED BY <2>9, <3>1, <3>2, HandlerSteps, RowStep
  <2>10. ASSUME NEW i \in Tasks, Token(i) PROVE RowInv'
    <3>1. UNCHANGED <<rows, events>>
      BY <2>10 DEF Token, store
    <3>2. \A m \in Messages : rows'[m] >= rows[m]
      BY <2>0, <3>1
    <3>. QED BY <2>10, <3>1, <3>2, HandlerSteps, RowStep
  <2>11. ASSUME NEW i \in Tasks, GetHeader(i) PROVE RowInv'
    <3>1. UNCHANGED <<rows, events>>
      BY <2>11 DEF GetHeader, store
    <3>2. \A m \in Messages : rows'[m] >= rows[m]
      BY <2>0, <3>1
    <3>. QED BY <2>11, <3>1, <3>2, HandlerSteps, RowStep
  <2>12. ASSUME NEW i \in Tasks, GetBody(i) PROVE RowInv'
    <3>1. UNCHANGED <<rows, events>>
      BY <2>12 DEF GetBody, store
    <3>2. \A m \in Messages : rows'[m] >= rows[m]
      BY <2>0, <3>1
    <3>. QED BY <2>12, <3>1, <3>2, HandlerSteps, RowStep
  <2>13. ASSUME NEW i \in Tasks, Handoff(i) PROVE RowInv'
    <3>1. UNCHANGED <<rows, events>>
      BY <2>13 DEF Handoff, store
    <3>2. \A m \in Messages : rows'[m] >= rows[m]
      BY <2>0, <3>1
    <3>. QED BY <2>13, <3>1, <3>2, HandlerSteps, RowStep
  <2>14. ASSUME NEW i \in Tasks, Extract(i) PROVE RowInv'
    <3>1. UNCHANGED <<rows, events>>
      BY <2>14 DEF Extract, store
    <3>2. \A m \in Messages : rows'[m] >= rows[m]
      BY <2>0, <3>1
    <3>. QED BY <2>14, <3>1, <3>2, HandlerSteps, RowStep
  <2>15. ASSUME NEW i \in Tasks, Insert(i) PROVE RowInv'
    <3>1. ~Free(i) /\ Msg(i) \in Messages /\ UNCHANGED events
      BY <2>0, <2>15 DEF Insert, At, Free
    <3>2. CASE NewRow(i)
      <4>1. rows'[Msg(i)] > 0 /\ \A m \in Messages : rows'[m] >= rows[m]
        BY <2>0, <3>1, <3>2 DEF NewRow, TypeOK
      <4>. QED BY <2>15, <3>1, <4>1, HandlerSteps, RowStep
    <3>3. CASE InsertFailed(i) /\ UNCHANGED rows
      <4>1. StepTo(i, {})
        BY <3>3, ReturnErrStep DEF InsertFailed, TypeOK, TaskOK
      <4>. QED BY <2>0, <3>1, <3>3, <4>1, RowStep
    <3>. QED BY <2>15, <3>2, <3>3 DEF Insert
  <2>16. ASSUME NEW i \in Tasks, UpdateLastSync(i) PROVE RowInv'
    <3>1. ~Free(i) /\ rows[Msg(i)] > 0 /\ UNCHANGED <<rows, events>>
      BY <2>16 DEF UpdateLastSync, At, Free, RowInv, StoredFirst, store
    <3>. QED BY <2>0, <2>16, <3>1, HandlerSteps, RowStep
  <2>17. ASSUME NEW i \in Tasks, Publish(i) PROVE RowInv'
    <3>1. rows[Msg(i)] > 0 /\ Msg(i) \in Messages
      BY <2>0, <2>17 DEF Publish, At, RowInv, StoredFirst, Free
    <3>2. RowBeforeEvent'
      <4>1. \A m \in Messages : m # Msg(i) => events'[m] = events[m]
        BY <2>0, <2>17 DEF Publish, TypeOK
      <4>2. UNCHANGED rows
        BY <2>17 DEF Publish
      <4>. QED BY <3>1, <4>1, <4>2 DEF RowInv, RowBeforeEvent
    <3>3. StoredFirst'
      BY <2>0, <2>17, HandlerSteps DEF Publish, StepTo, RowInv, StoredFirst, At, Msg
    <3>. QED BY <3>2, <3>3 DEF RowInv
  <2>18. ASSUME NEW i \in Tasks, Ack(i) PROVE RowInv'
    <3>1. UNCHANGED <<rows, events>>
      BY <2>18 DEF Ack, store
    <3>2. \A m \in Messages : rows'[m] >= rows[m]
      BY <2>0, <3>1
    <3>. QED BY <2>18, <3>1, <3>2, HandlerSteps, RowStep
  <2>19. CASE UNCHANGED vars
    BY <2>19 DEF vars, store, RowInv, RowBeforeEvent, StoredFirst, At, Msg
  <2>. QED
    BY <2>1, <2>2, <2>3, <2>4, <2>5, <2>6, <2>7, <2>8, <2>9, <2>10, <2>11, <2>12, <2>13, <2>14, <2>15, <2>16, <2>17, <2>18, <2>19
    DEF Next, Environment, Worker, FetchStep, ProcessStep
<1>. QED BY <1>1, <1>2, TypeCorrect, PTL DEF Spec

\* RowBeforeEvent: the INSERT of a message precedes every broadcast of it,
\* whatever calls fail and whenever the process dies (handler.go 1049-1090).
THEOREM RowFirst == Spec => []RowBeforeEvent
<1>1. RowInv => RowBeforeEvent
  BY DEF RowInv
<1>. QED BY <1>1, RowInvariant, PTL

\* LastSyncBacked: the time filter is moved only by a message that is stored, or by
\* the OAuth callback (handler.go 1066-1071).
THEOREM LastSyncOfStored == Spec => LastSyncBacked
<1>1. /\ TypeOK /\ RowInv /\ [Next]_vars
      => [\/ lastSync' = now /\ status' = "ACTIVE" /\ UNCHANGED task
          \/ \E m \in Messages : rows[m] > 0 /\ lastSync' = EmailDate(m)]_lastSync
  <2>. SUFFICES ASSUME TypeOK, RowInv, [Next]_vars, lastSync' # lastSync
                PROVE  \/ lastSync' = now /\ status' = "ACTIVE" /\ UNCHANGED task
                       \/ \E m \in Messages : rows[m] > 0 /\ lastSync' = EmailDate(m)
    OBVIOUS
  <2>1. CASE Reconnect
    BY <2>1 DEF Reconnect
  <2>2. ASSUME NEW i \in Tasks, UpdateLastSync(i)
        PROVE  \E m \in Messages : rows[m] > 0 /\ lastSync' = EmailDate(m)
    <3>1. Msg(i) \in Messages /\ rows[Msg(i)] > 0
      BY <2>2 DEF UpdateLastSync, At, TypeOK, Free, RowInv, StoredFirst
    <3>2. lastSync' = EmailDate(Msg(i))
      BY <2>2 DEF UpdateLastSync
    <3>. QED BY <3>1, <3>2
  <2>3. Reconnect \/ (\E i \in Tasks : UpdateLastSync(i)) \/ UNCHANGED lastSync
    BY DEF Next, Environment, Tick, Arrive, EditRules, Disconnect, Crash, Webhook, Worker,
           FetchStep, ProcessStep, Lookup, Dedup, Token, Reauth, GetHeader, ProviderFault,
           Throttle, GetBody, Handoff, Extract, Insert, Publish, Ack, account, vars
  <2>. QED BY <2>1, <2>2, <2>3
<1>. QED BY <1>1, TypeCorrect, RowInvariant, PTL DEF Spec, LastSyncBacked

-----------------------------------------------------------------------------
\* Dates are never in the future: last_sync_at is the clock's or a message's date,
\* and a date that lost its fraction is no later than the date it was.
LEMMA EmailDatePast ==
  ASSUME TypeOK, NEW m \in Messages, Arrived(m)
  PROVE  EmailDate(m) \in Int /\ EmailDate(m) <= received[m]
<1>1. received[m] \in Nat
  BY DEF TypeOK, Arrived, Time
<1>2. received[m] % TicksPerSecond \in Nat
  BY <1>1
<1>. QED BY <1>1, <1>2 DEF EmailDate

LEMMA DatesPastStep == TypeOK /\ TypeOK' /\ DatesPast /\ [Next]_vars => DatesPast'
<1>. SUFFICES ASSUME TypeOK, TypeOK', DatesPast, [Next]_vars PROVE DatesPast'
  OBVIOUS
<1>0. /\ now \in Int /\ now' \in Int
      /\ \A m \in Messages : Arrived(m) => received[m] \in Int
      /\ lastSync # Null => lastSync \in Int
  BY DEF TypeOK, Time, Arrived
<1>1. CASE Tick
  BY <1>0, <1>1 DEF Tick, provider, account, DatesPast, Arrived
<1>2. CASE Reconnect
  BY <1>0, <1>2 DEF Reconnect, provider, DatesPast, Arrived
<1>3. ASSUME NEW m \in Messages, Arrive(m) PROVE DatesPast'
  BY <1>0, <1>3 DEF Arrive, account, DatesPast, Arrived, TypeOK
<1>4. ASSUME NEW i \in Tasks, UpdateLastSync(i) PROVE DatesPast'
  <2>1. Msg(i) \in Messages /\ Arrived(Msg(i))
    BY <1>4 DEF UpdateLastSync, At, TypeOK, Free, Arrived
  <2>2. EmailDate(Msg(i)) <= now /\ EmailDate(Msg(i)) \in Int
    BY <1>0, <2>1, EmailDatePast DEF DatesPast
  <2>. QED BY <1>0, <1>4, <2>2 DEF UpdateLastSync, provider, DatesPast, Arrived
<1>5. CASE UNCHANGED <<now, received, lastSync>>
  BY <1>5 DEF DatesPast, Arrived
<1>6. \/ Tick \/ Reconnect \/ \E m \in Messages : Arrive(m)
      \/ \E i \in Tasks : UpdateLastSync(i)
      \/ UNCHANGED <<now, received, lastSync>>
  BY DEF Next, Environment, EditRules, Disconnect, Crash, Webhook, Worker, FetchStep,
         ProcessStep, Lookup, Dedup, Token, Reauth, GetHeader, ProviderFault, Throttle, GetBody,
         Handoff, Extract, Insert, Publish, Ack, provider, account, vars
<1>. QED BY <1>1, <1>2, <1>3, <1>4, <1>5, <1>6

\* LastSyncMonotone: last_sync_at never goes back, because the UPDATE writes only a
\* newer date and the OAuth callback writes a time no earlier than any of them.
THEOREM LastSyncGrows == Spec => LastSyncMonotone
<1>1. Init => DatesPast
  BY DEF Init, DatesPast, Arrived
<1>2. /\ TypeOK /\ DatesPast /\ [Next]_vars
      => [lastSync # Null => lastSync' # Null /\ lastSync' >= lastSync]_lastSync
  <2>. SUFFICES ASSUME TypeOK, DatesPast, [Next]_vars, lastSync # Null
                PROVE  lastSync' = lastSync \/ (lastSync' # Null /\ lastSync' >= lastSync)
    OBVIOUS
  <2>0. now \in Int /\ lastSync \in Int
    BY DEF TypeOK, Time
  <2>1. CASE Reconnect
    BY <2>0, <2>1 DEF Reconnect, DatesPast
  <2>2. ASSUME NEW i \in Tasks, UpdateLastSync(i)
        PROVE  lastSync' = lastSync \/ (lastSync' # Null /\ lastSync' >= lastSync)
    <3>1. Msg(i) \in Messages /\ Arrived(Msg(i))
      BY <2>2 DEF UpdateLastSync, At, TypeOK, Free, Arrived
    <3>2. EmailDate(Msg(i)) \in Int
      BY <3>1, EmailDatePast
    <3>. QED BY <2>0, <2>2, <3>2 DEF UpdateLastSync, IsNewer
  <2>3. Reconnect \/ (\E i \in Tasks : UpdateLastSync(i)) \/ UNCHANGED lastSync
    BY DEF Next, Environment, Tick, Arrive, EditRules, Disconnect, Crash, Webhook, Worker,
           FetchStep, ProcessStep, Lookup, Dedup, Token, Reauth, GetHeader, ProviderFault,
           Throttle, GetBody, Handoff, Extract, Insert, Publish, Ack, account, vars
  <2>. QED BY <2>1, <2>2, <2>3
<1>. QED BY <1>1, <1>2, TypeCorrect, DatesPastStep, PTL DEF Spec, LastSyncMonotone

-----------------------------------------------------------------------------
\* A step after which no fetch holds or has accepted a message it did not hold or
\* accept before, and which leaves dates, keys and hand-offs alone, keeps HandoffInv.
LEMMA QuietStep ==
  ASSUME TypeOK, TypeOK', HandoffInv, now' >= now,
         UNCHANGED <<received, expires, handoffs>>, bypassed \subseteq bypassed',
         \A j \in Tasks : /\ Holding(j)' => Holding(j) /\ Msg(j)' = Msg(j)
                          /\ Accepted(j)' => Accepted(j) /\ Msg(j)' = Msg(j)
  PROVE  HandoffInv'
<1>0. /\ now \in Int /\ now' \in Int
      /\ \A j \in Tasks : Holding(j) => Msg(j) \in Messages /\ received[Msg(j)] \in Int
  BY DEF TypeOK, Time, Holding, Free
<1>1. \A j \in Tasks : Holding(j) /\ ~(Spent(Msg(j))') /\ Msg(j)' = Msg(j) => ~Spent(Msg(j))
  BY <1>0 DEF Spent
<1>2. \A m \in Messages \ bypassed' :
        handoffs'[m] <= 1 /\ (handoffs'[m] > 0 => Arrived(m)' /\ KeySet(m)')
  BY DEF HandoffInv, Arrived, KeySet
<1>3. ASSUME NEW i \in Tasks, Msg(i)' \notin bypassed', Holding(i)'
      PROVE  /\ KeySet(Msg(i))'
             /\ ~Spent(Msg(i))' =>
                  /\ handoffs'[Msg(i)'] = 0
                  /\ \A j \in Tasks : Holding(j)' /\ Msg(j)' = Msg(i)' => i = j
  BY <1>1, <1>3 DEF HandoffInv, KeySet, Spent
<1>4. ASSUME NEW i \in Tasks, Msg(i)' \notin bypassed', Accepted(i)'
      PROVE  /\ handoffs'[Msg(i)'] = 0
             /\ \A j \in Tasks : Accepted(j)' /\ Msg(j)' = Msg(i)' => i = j
  BY <1>4 DEF HandoffInv
<1>. QED BY <1>2, <1>3, <1>4 DEF HandoffInv

\* The same for a handler's step that takes its task to one of the places P.
LEMMA QuietHandlerStep ==
  ASSUME TypeOK, TypeOK', HandoffInv, NEW i \in Tasks, NEW P, StepTo(i, P),
         UNCHANGED <<now, received, expires, handoffs>>, bypassed \subseteq bypassed',
         \/ P \cap {"token", "get", "body", "handoff"} = {}
         \/ Holding(i) /\ P \cap {"body", "handoff"} = {}
         \/ Accepted(i)
  PROVE  HandoffInv'
<1>1. ASSUME NEW j \in Tasks, Holding(j)' PROVE Holding(j) /\ Msg(j)' = Msg(j)
  BY <1>1 DEF StepTo, Holding, Accepted, Msg
<1>2. ASSUME NEW j \in Tasks, Accepted(j)' PROVE Accepted(j) /\ Msg(j)' = Msg(j)
  BY <1>2 DEF StepTo, Holding, Accepted, Msg
<1>3. now' >= now
  BY DEF TypeOK, Time
<1>. QED BY <1>1, <1>2, <1>3, QuietStep

\* max(LastSyncAt, now - 10 minutes) is never before now - 10 minutes.
LEMMA WindowStart ==
  ASSUME TypeOK, NEW i \in Tasks
  PROVE  FilterStart(i) \in Int /\ FilterStart(i) >= now - Window
BY DEF FilterStart, TypeOK, Task, Time

\* SETNX succeeds on a message nobody bypassed: only when no fetch holds it and it
\* has not been handed off, or when it is already too old for the window.
LEMMA DedupStep ==
  ASSUME TypeOK, TypeOK', DatesPast, HandoffInv, NEW i \in Tasks, Dedup(i)
  PROVE  HandoffInv'
<1>m. PICK m \in Messages : m = Msg(i)
  BY DEF Dedup, At, Free, TypeOK
<1>0. /\ m = Msg(i) /\ Arrived(m) /\ received[m] \in Int /\ received[m] <= now
      /\ now \in Int /\ KeyTTL \in Int
      /\ \A n \in Messages : expires[n] # Null => expires[n] \in Int
      /\ At(i, "fetch", "dedup")
      /\ UNCHANGED <<now, received, handoffs>>
  BY <1>m DEF Dedup, At, Free, TypeOK, DatesPast, Arrived, Time, provider
<1>1. StepTo(i, {"token", "get"})
  BY HandlerSteps
<1>2. CASE StepTo(i, {}) /\ UNCHANGED <<expires, bypassed>>
  BY <1>0, <1>2, QuietHandlerStep
<1>3. CASE /\ bypassed' = bypassed \cup {m}
           /\ \A n \in Messages \ {m} : expires'[n] = expires[n]
  <2>1. \A j \in Tasks : Msg(j)' \notin bypassed' /\ Holding(j)' =>
                           task'[j] = task[j] /\ Holding(j)
    BY <1>0, <1>1, <1>3 DEF StepTo, Holding, Msg
  <2>2. \A j \in Tasks : Holding(j) => Msg(j) \in Messages
    BY DEF Holding, TypeOK, Free
  <2>3. \A j \in Tasks : Accepted(j)' => Holding(j)'
    BY DEF Accepted, Holding
  <2>4. \A n \in Messages \ bypassed' :
          handoffs'[n] <= 1 /\ (handoffs'[n] > 0 => Arrived(n)' /\ KeySet(n)')
    BY <1>0, <1>3 DEF HandoffInv, Arrived, KeySet
  <2>5. ASSUME NEW j \in Tasks, Msg(j)' \notin bypassed', Holding(j)'
        PROVE  /\ KeySet(Msg(j))'
               /\ ~Spent(Msg(j))' =>
                    /\ handoffs'[Msg(j)'] = 0
                    /\ \A k \in Tasks : Holding(k)' /\ Msg(k)' = Msg(j)' => j = k
    <3>1. /\ Msg(j)' = Msg(j) /\ Holding(j) /\ Msg(j) \in Messages \ {m}
          /\ Msg(j) \notin bypassed
      BY <1>3, <2>1, <2>2, <2>5 DEF Msg
    <3>2. \A k \in Tasks : Holding(k)' /\ Msg(k)' = Msg(j)' =>
                             Holding(k) /\ Msg(k) = Msg(j)
      BY <2>1, <2>5, <3>1 DEF Msg
    <3>. QED BY <1>0, <1>3, <3>1, <3>2 DEF HandoffInv, KeySet, Spent
  <2>6. ASSUME NEW j \in Tasks, Msg(j)' \notin bypassed', Accepted(j)'
        PROVE  /\ handoffs'[Msg(j)'] = 0
               /\ \A k \in Tasks : Accepted(k)' /\ Msg(k)' = Msg(j)' => j = k
    <3>1. \A k \in Tasks : Accepted(k)' /\ Msg(k)' = Msg(j)' =>
                             task'[k] = task[k] /\ Accepted(k)
      BY <2>1, <2>3, <2>6 DEF Accepted, Msg
    <3>. QED BY <1>0, <1>3, <2>6, <3>1 DEF HandoffInv, Msg
  <2>. QED BY <2>4, <2>5, <2>6 DEF HandoffInv
<1>4. CASE /\ ~KeyLive(m) /\ UNCHANGED bypassed
           /\ expires' = [expires EXCEPT ![m] = now + KeyTTL]
  <2>1. KeySet(m)' /\ \A n \in Messages : KeySet(n) => KeySet(n)'
    <3>1. expires'[m] = now + KeyTTL /\ \A n \in Messages \ {m} : expires'[n] = expires[n]
      BY <1>0, <1>4 DEF TypeOK
    <3>2. now + KeyTTL # Null
      BY <1>0
    <3>3. KeySet(m)'
      BY <1>0, <3>1, <3>2 DEF KeySet
    <3>. QED BY <1>0, <3>1, <3>3 DEF KeySet
  <2>2. KeySet(m) => Spent(m)
    BY <1>0, <1>4 DEF KeySet, KeyLive, Spent
  <2>3. \A j \in Tasks : j # i /\ Holding(j)' => Holding(j) /\ Msg(j)' = Msg(j)
    BY <1>1 DEF StepTo, Holding, Msg
  <2>4. \A j \in Tasks : Accepted(j)' => Accepted(j) /\ Msg(j)' = Msg(j)
    BY <1>0, <1>1 DEF StepTo, Accepted, Msg
  <2>5. Holding(i)' => Msg(i)' = m
    BY <1>m, <1>1 DEF StepTo, Holding, Msg
  <2>6. \A j \in Tasks : Holding(j) => Msg(j) \in Messages
    BY DEF Holding, TypeOK, Free
  <2>7. \A n \in Messages \ bypassed' :
          handoffs'[n] <= 1 /\ (handoffs'[n] > 0 => Arrived(n)' /\ KeySet(n)')
    BY <1>0, <1>4, <2>1 DEF HandoffInv, Arrived
  <2>8. ASSUME NEW j \in Tasks, Msg(j)' \notin bypassed', Holding(j)'
        PROVE  KeySet(Msg(j))'
    BY <1>0, <1>4, <2>1, <2>3, <2>5, <2>6, <2>8 DEF HandoffInv, KeySet
  <2>9. ASSUME NEW j \in Tasks, Msg(j)' \notin bypassed', Holding(j)', ~Spent(Msg(j))'
        PROVE  /\ handoffs'[Msg(j)'] = 0
               /\ \A k \in Tasks : Holding(k)' /\ Msg(k)' = Msg(j)' => j = k
    <3>1. CASE Msg(j)' = m
      <4>1. ~Spent(m) /\ m \notin bypassed
        BY <1>0, <1>4, <2>9, <3>1 DEF Spent
      <4>2. handoffs[m] = 0
        BY <1>0, <2>2, <4>1 DEF HandoffInv, TypeOK
      <4>3. \A k \in Tasks : Holding(k) => Msg(k) # m
        BY <2>2, <4>1 DEF HandoffInv
      <4>. QED BY <1>0, <2>3, <2>9, <3>1, <4>2, <4>3
    <3>2. CASE Msg(j)' # m
      <4>1. \A k \in Tasks : Holding(k)' /\ Msg(k)' = Msg(j)' => Holding(k) /\ Msg(k) = Msg(k)'
        BY <2>3, <2>5, <3>2
      <4>2. ~Spent(Msg(j)) /\ Msg(j) \notin bypassed /\ Msg(j)' = Msg(j) /\ Holding(j)
        BY <1>0, <1>4, <2>9, <4>1 DEF Spent
      <4>. QED BY <1>0, <4>1, <4>2 DEF HandoffInv
    <3>. QED BY <3>1, <3>2
  <2>10. ASSUME NEW j \in Tasks, Msg(j)' \notin bypassed', Accepted(j)'
         PROVE  /\ handoffs'[Msg(j)'] = 0
                /\ \A k \in Tasks : Accepted(k)' /\ Msg(k)' = Msg(j)' => j = k
    BY <1>0, <1>4, <2>4, <2>10 DEF HandoffInv
  <2>. QED BY <2>7, <2>8, <2>9, <2>10 DEF HandoffInv
<1>5. \/ StepTo(i, {}) /\ UNCHANGED <<expires, bypassed>>
      \/ /\ bypassed' = bypassed \cup {m}
         /\ \A n \in Messages \ {m} : expires'[n] = expires[n]
      \/ /\ ~KeyLive(m) /\ UNCHANGED bypassed
         /\ expires' = [expires EXCEPT ![m] = now + KeyTTL]
  BY <1>m, GotoStep DEF Dedup, ReturnNil, TypeOK, TaskOK
<1>. QED BY <1>2, <1>3, <1>4, <1>5

\* The window lets a message through only before its dedup key can have expired.
LEMMA GetHeaderStep ==
  ASSUME TypeOK, TypeOK', HandoffInv, NEW i \in Tasks, GetHeader(i)
  PROVE  HandoffInv'
<1>1. PICK m \in Messages : m = Msg(i) /\ received[m] \in Int
  BY DEF GetHeader, At, Free, TypeOK, Time
<1>2. /\ At(i, "fetch", "get") /\ Holding(i)
      /\ UNCHANGED <<now, received, expires, handoffs, bypassed>>
  BY DEF GetHeader, At, Holding, provider
<1>3. CASE StepTo(i, {})
  BY <1>2, <1>3, QuietHandlerStep
<1>4. CASE ~StepTo(i, {})
  <2>1. received[m] >= FilterStart(i)
    <3>1. ReturnErr(i) => StepTo(i, {})
      BY ReturnErrStep DEF TypeOK, TaskOK
    <3>2. Goto(i, "done") => StepTo(i, {})
      BY GotoStep DEF TypeOK, TaskOK
    <3>3. Reschedule(i) => StepTo(i, {})
      BY <1>2, <3>2, SpawnStep DEF Reschedule, ReturnNil, At, Free, TypeOK, TaskOK
    <3>. QED
      BY <1>1, <1>4, <3>1, <3>2, <3>3 DEF GetHeader, ProviderFault, Throttle, ReturnNil
  <2>2. ~Spent(m)
    BY <1>1, <2>1, WindowStart DEF Spent, TypeOK, Time
  <2>3. StepTo(i, {"body", "handoff"})
    BY HandlerSteps
  <2>4. /\ \A j \in Tasks : Holding(j)' => Holding(j) /\ Msg(j)' = Msg(j)
        /\ \A j \in Tasks : j # i /\ Accepted(j)' => Accepted(j)
        /\ \A j \in Tasks : Accepted(j) => Holding(j)
        /\ \A j \in Tasks : Accepted(j)' => Holding(j)'
    BY <1>2, <2>3 DEF StepTo, Holding, Accepted, Msg
  <2>5. ASSUME m \notin bypassed
        PROVE  handoffs[m] = 0 /\ \A j \in Tasks : Holding(j) /\ Msg(j) = m => i = j
    BY <1>1, <1>2, <2>2, <2>5 DEF HandoffInv
  <2>6. \A n \in Messages \ bypassed' :
          handoffs'[n] <= 1 /\ (handoffs'[n] > 0 => Arrived(n)' /\ KeySet(n)')
    BY <1>2 DEF HandoffInv, Arrived, KeySet
  <2>7. ASSUME NEW j \in Tasks, Msg(j)' \notin bypassed', Holding(j)'
        PROVE  /\ KeySet(Msg(j))'
               /\ ~Spent(Msg(j))' =>
                    /\ handoffs'[Msg(j)'] = 0
                    /\ \A k \in Tasks : Holding(k)' /\ Msg(k)' = Msg(j)' => j = k
    BY <1>2, <2>4, <2>7 DEF HandoffInv, KeySet, Spent
  <2>8. ASSUME NEW j \in Tasks, Msg(j)' \notin bypassed', Accepted(j)'
        PROVE  /\ handoffs'[Msg(j)'] = 0
               /\ \A k \in Tasks : Accepted(k)' /\ Msg(k)' = Msg(j)' => j = k
    <3>1. Msg(j)' = Msg(j) /\ Holding(j) /\ Msg(j) \notin bypassed
      BY <1>2, <2>4, <2>8
    <3>2. CASE Msg(j) = m
      BY <1>2, <2>4, <2>5, <2>8, <3>1, <3>2
    <3>3. CASE Msg(j) # m
      <4>1. j # i /\ Accepted(j)
        BY <1>1, <2>4, <2>8, <3>3
      <4>2. \A k \in Tasks : Accepted(k)' /\ Msg(k)' = Msg(j)' => Accepted(k) /\ Msg(k) = Msg(j)
        BY <1>1, <2>4, <3>1, <3>3
      <4>. QED BY <1>2, <3>1, <4>1, <4>2 DEF HandoffInv
    <3>. QED BY <3>2, <3>3
  <2>. QED BY <2>6, <2>7, <2>8 DEF HandoffInv
<1>. QED BY <1>3, <1>4

\* The one accepted fetch hands the message off and lets go of it.
LEMMA HandoffStep ==
  ASSUME TypeOK, TypeOK', HandoffInv, NEW i \in Tasks, Handoff(i)
  PROVE  HandoffInv'
<1>1. PICK m \in Messages : m = Msg(i)
  BY DEF Handoff, At, Free, TypeOK
<1>2. /\ Accepted(i) /\ Holding(i)
      /\ UNCHANGED <<now, received, expires, bypassed>>
  BY DEF Handoff, At, Holding, Accepted, provider
<1>3. StepTo(i, {})
  BY HandlerSteps
<1>4. /\ \A j \in Tasks : Holding(j)' => j # i /\ Holding(j) /\ Msg(j)' = Msg(j)
      /\ \A j \in Tasks : Accepted(j)' => j # i /\ Accepted(j) /\ Msg(j)' = Msg(j)
  BY <1>3 DEF StepTo, Holding, Accepted, Msg
<1>5. /\ \A n \in Messages \ {m} : handoffs'[n] = handoffs[n]
      /\ handoffs'[m] \in {handoffs[m], handoffs[m] + 1}
  BY <1>1 DEF Handoff, TypeOK
<1>6. m \notin bypassed => /\ handoffs[m] = 0 /\ KeySet(m) /\ Arrived(m)
                          /\ \A j \in Tasks : Accepted(j) /\ Msg(j) = m => j = i
  BY <1>1, <1>2 DEF HandoffInv, TypeOK, Holding, Free, Arrived
<1>7. \A n \in Messages \ bypassed' :
        handoffs'[n] <= 1 /\ (handoffs'[n] > 0 => Arrived(n)' /\ KeySet(n)')
  BY <1>2, <1>5, <1>6 DEF HandoffInv, Arrived, KeySet
<1>8. ASSUME NEW j \in Tasks, Msg(j)' \notin bypassed', Holding(j)'
      PROVE  /\ KeySet(Msg(j))'
             /\ ~Spent(Msg(j))' =>
                  /\ handoffs'[Msg(j)'] = 0
                  /\ \A k \in Tasks : Holding(k)' /\ Msg(k)' = Msg(j)' => j = k
  <2>1. /\ Holding(j) /\ Msg(j)' = Msg(j) /\ Msg(j) \notin bypassed /\ j # i
        /\ Msg(j) \in Messages
    BY <1>2, <1>4, <1>8 DEF Holding, TypeOK, Free
  <2>2. Msg(j) = m => Spent(m)
    BY <1>1, <1>2, <2>1 DEF HandoffInv
  <2>. QED BY <1>2, <1>4, <1>5, <2>1, <2>2 DEF HandoffInv, KeySet, Spent
<1>9. ASSUME NEW j \in Tasks, Msg(j)' \notin bypassed', Accepted(j)'
      PROVE  /\ handoffs'[Msg(j)'] = 0
             /\ \A k \in Tasks : Accepted(k)' /\ Msg(k)' = Msg(j)' => j = k
  <2>1. /\ Accepted(j) /\ Msg(j)' = Msg(j) /\ Msg(j) \notin bypassed /\ j # i
        /\ Msg(j) \in Messages
    BY <1>2, <1>4, <1>9 DEF Accepted, TypeOK, Free
  <2>2. Msg(j) # m
    BY <1>6, <2>1
  <2>. QED BY <1>4, <1>5, <2>1, <2>2 DEF HandoffInv
<1>. QED BY <1>7, <1>8, <1>9 DEF HandoffInv

LEMMA HandoffInvStep ==
  TypeOK /\ TypeOK' /\ DatesPast /\ HandoffInv /\ [Next]_vars => HandoffInv'
<1>. SUFFICES ASSUME TypeOK, TypeOK', DatesPast, HandoffInv, [Next]_vars PROVE HandoffInv'
  OBVIOUS
<1>0. /\ now \in Int /\ task \in [Tasks -> Task]
      /\ \A i \in Tasks : Accepted(i) => Holding(i)
      /\ \A i \in Tasks : Holding(i) => Msg(i) \in Messages /\ Arrived(Msg(i))
  BY DEF TypeOK, Time, Holding, Accepted, Free, Arrived
<1>1. CASE Tick
  BY <1>0, <1>1, QuietStep DEF Tick, provider, history, Holding, Accepted, Msg
<1>2. CASE EditRules \/ Reconnect \/ Disconnect
  BY <1>0, <1>2, QuietStep
  DEF EditRules, Reconnect, Disconnect, provider, history, Holding, Accepted, Msg
<1>3. CASE Crash
  <2>1. \A j \in Tasks : task'[j] = task[j] \/ task'[j].pc \in {"queued", "done"}
    BY <1>0, <1>3, AfterErrorPC DEF Crash
  <2>. QED BY <1>0, <1>3, <2>1, QuietStep DEF Crash, provider, Holding, Accepted, Msg
<1>4. ASSUME NEW m \in Messages, Arrive(m) PROVE HandoffInv'
  <2>1. /\ UNCHANGED <<now, expires, handoffs, bypassed, task>>
        /\ ~Arrived(m) /\ \A n \in Messages \ {m} : received'[n] = received[n]
    BY <1>4 DEF Arrive, Arrived, TypeOK, history
  <2>2. \A n \in Messages : Arrived(n) => n # m /\ received'[n] = received[n]
    BY <2>1
  <2>3. /\ \A j \in Tasks : Holding(j)' <=> Holding(j)
        /\ \A j \in Tasks : Accepted(j)' <=> Accepted(j)
        /\ \A j \in Tasks : Msg(j)' = Msg(j)
    BY <2>1 DEF Holding, Accepted, Msg
  <2>4. \A n \in Messages \ bypassed' :
          handoffs'[n] <= 1 /\ (handoffs'[n] > 0 => Arrived(n)' /\ KeySet(n)')
    BY <2>1, <2>2 DEF HandoffInv, Arrived, KeySet
  <2>5. ASSUME NEW j \in Tasks, Msg(j)' \notin bypassed', Holding(j)'
        PROVE  /\ KeySet(Msg(j))'
               /\ ~Spent(Msg(j))' =>
                    /\ handoffs'[Msg(j)'] = 0
                    /\ \A k \in Tasks : Holding(k)' /\ Msg(k)' = Msg(j)' => j = k
    BY <1>0, <2>1, <2>2, <2>3, <2>5 DEF HandoffInv, KeySet, Spent
  <2>6. ASSUME NEW j \in Tasks, Msg(j)' \notin bypassed', Accepted(j)'
        PROVE  /\ handoffs'[Msg(j)'] = 0
               /\ \A k \in Tasks : Accepted(k)' /\ Msg(k)' = Msg(j)' => j = k
    BY <2>1, <2>3, <2>6 DEF HandoffInv
  <2>. QED BY <2>4, <2>5, <2>6 DEF HandoffInv
<1>5. ASSUME NEW m \in Messages, Webhook(m) PROVE HandoffInv'
  <2>1. \A j \in Tasks : task'[j] = task[j] \/ task'[j].pc = "queued"
    BY <1>0, <1>5 DEF Webhook, Queued
  <2>. QED BY <1>0, <1>5, <2>1, QuietStep DEF Webhook, Holding, Accepted, Msg
<1>6. ASSUME NEW i \in Tasks, Lookup(i) \/ Extract(i) \/ Insert(i) \/ UpdateLastSync(i)
                              \/ Publish(i) \/ Ack(i)
      PROVE  HandoffInv'
  <2>1. UNCHANGED <<now, received, expires, handoffs, bypassed>>
    BY <1>6 DEF Lookup, Extract, Insert, UpdateLastSync, Publish, Ack, provider, history
  <2>. QED BY <1>6, <2>1, HandlerSteps, QuietHandlerStep
<1>7. ASSUME NEW i \in Tasks, Token(i) \/ GetBody(i) PROVE HandoffInv'
  <2>1. UNCHANGED <<now, received, expires, handoffs, bypassed>>
    BY <1>7 DEF Token, GetBody, provider
  <2>2. \/ StepTo(i, {"get"}) /\ Holding(i)
        \/ StepTo(i, {"handoff"}) /\ Accepted(i)
    BY <1>7, HandlerSteps DEF Token, GetBody, At, Holding, Accepted
  <2>. QED BY <2>1, <2>2, QuietHandlerStep
<1>8. ASSUME NEW i \in Tasks, Dedup(i) \/ GetHeader(i) \/ Handoff(i) PROVE HandoffInv'
  BY <1>8, DedupStep, GetHeaderStep, HandoffStep
<1>9. CASE UNCHANGED vars
  BY <1>0, <1>9, QuietStep DEF vars, provider, history, Holding, Accepted, Msg
<1>. QED
  BY <1>1, <1>2, <1>3, <1>4, <1>5, <1>6, <1>7, <1>8, <1>9
  DEF Next, Environment, Worker, FetchStep, ProcessStep

\* HandoffAtMostOnce: a message is handed to processing at most once, for any number
\* of notifications, retries and crashes and after its dedup key has expired, as long
\* as Redis answers its dedup checks (handler.go 175-182, 260-271, 1416-1426).
THEOREM HandedOffOnce == Spec => []HandoffAtMostOnce
<1>1. Init => DatesPast /\ HandoffInv
  BY IdleType DEF Init, DatesPast, HandoffInv, Arrived, Holding, Accepted
<1>2. HandoffInv => HandoffAtMostOnce
  BY DEF HandoffInv, HandoffAtMostOnce
<1>. QED BY <1>1, <1>2, TypeCorrect, DatesPastStep, HandoffInvStep, PTL DEF Spec

-----------------------------------------------------------------------------
\* Seen through its arrivals, hand-offs and failed dedup checks, a step is one of
\* Handoff, provided it does not hand off a message twice.
LEMMA HandoffStepRefines ==
  ASSUME TypeOK, HandoffAtMostOnce', [Next]_vars
  PROVE  [H!Next]_H!vars
<1>. DEFINE A == {m \in Messages : received[m] # Null}
<1>1. ASSUME UNCHANGED <<received, handoffs, bypassed>> PROVE UNCHANGED H!vars
  BY <1>1 DEF H!vars
<1>2. ASSUME NEW m \in Messages, Arrive(m) PROVE H!Arrive(m)
  <2>1. UNCHANGED <<handoffs, bypassed>> /\ m \notin A
    BY <1>2 DEF Arrive, history
  <2>2. A' = A \cup {m}
    BY <1>2, PipelineAssumption DEF Arrive, TypeOK, Time
  <2>. QED BY <2>1, <2>2 DEF H!Arrive
<1>3. ASSUME NEW i \in Tasks, Dedup(i) PROVE [H!Next]_H!vars
  <2>1. UNCHANGED <<received, handoffs>> /\ bypassed' \in {bypassed, bypassed \cup {Msg(i)}}
    BY <1>3 DEF Dedup, provider
  <2>2. Msg(i) \in A
    BY <1>3 DEF Dedup, At, Free, TypeOK
  <2>3. CASE bypassed' = bypassed \cup {Msg(i)}
    <3>1. H!Exempt(Msg(i))
      BY <2>1, <2>2, <2>3 DEF H!Exempt
    <3>. QED BY <2>2, <3>1 DEF H!Next
  <2>. QED BY <2>1, <2>3, <1>1
<1>4. ASSUME NEW i \in Tasks, Handoff(i) PROVE [H!Next]_H!vars
  <2>1. /\ UNCHANGED <<received, bypassed>>
        /\ handoffs' \in {handoffs, [handoffs EXCEPT ![Msg(i)] = @ + 1]}
    BY <1>4 DEF Handoff, provider
  <2>2. Msg(i) \in A
    BY <1>4 DEF Handoff, At, Free, TypeOK
  <2>3. CASE handoffs' = [handoffs EXCEPT ![Msg(i)] = @ + 1]
    <3>1. handoffs[Msg(i)] = 0 \/ Msg(i) \in bypassed
      BY <2>1, <2>2, <2>3 DEF HandoffAtMostOnce, TypeOK
    <3>2. H!HandOff(Msg(i))
      BY <2>1, <2>2, <2>3, <3>1 DEF H!HandOff
    <3>. QED BY <2>2, <3>2 DEF H!Next
  <2>. QED BY <2>1, <2>3, <1>1
<1>5. CASE \/ Tick \/ EditRules \/ Reconnect \/ Disconnect \/ Crash
           \/ \E m \in Messages : Webhook(m)
           \/ UNCHANGED vars
  BY <1>1, <1>5 DEF Tick, EditRules, Reconnect, Disconnect, Crash, Webhook, vars, provider,
                    history
<1>6. ASSUME NEW i \in Tasks, Lookup(i) \/ Token(i) \/ GetHeader(i) \/ GetBody(i)
                              \/ ProcessStep(i) \/ Ack(i)
      PROVE  [H!Next]_H!vars
  BY <1>1, <1>6 DEF Lookup, Token, GetHeader, GetBody, ProcessStep, Extract, Insert,
                    UpdateLastSync, Publish, Ack, provider, history
<1>. QED
  BY <1>2, <1>3, <1>4, <1>5, <1>6 DEF Next, Environment, Worker, FetchStep, H!Next

\* ImplementsHandoff: the pipeline, with its retries, crashes and expiring keys, does what
\* Handoff promises of every message (handler.go 175-182, 260-271, 1416-1426).
THEOREM PipelineImplementsHandoff == Spec => ImplementsHandoff
<1>1. Init => H!Init
  BY DEF Init, H!Init
<1>2. TypeOK /\ HandoffAtMostOnce' /\ [Next]_vars => [H!Next]_H!vars
  BY HandoffStepRefines
<1>. QED
  BY <1>1, <1>2, TypeCorrect, HandedOffOnce, PTL DEF Spec, ImplementsHandoff, H!Spec

-----------------------------------------------------------------------------
(* Rows are counted against hand-offs, crashes and lost answers.           *)

ProcessOf(x, m) == x.kind = "process" /\ x.msg = m
\* Its INSERT is still to come.
Inserts(x, m)   == ProcessOf(x, m) /\ x.pc \in {"queued", "insert"}

ProcessTasks(m) == {i \in Tasks : ProcessOf(task[i], m)}
Inserters(m)    == {i \in Tasks : Inserts(task[i], m)}

\* Every process task of a message stands for a hand-off of its own, and the rows there are
\* and the INSERTs still to come never exceed what the hand-offs and the crashes allow.
CountInv ==
  \A m \in Messages :
    /\ IsFiniteSet(ProcessTasks(m)) /\ Cardinality(ProcessTasks(m)) <= handoffs[m]
    /\ rows[m] + Cardinality(Inserters(m)) <= handoffs[m] * (1 + crashes) + lost

LEMMA CountTypes ==
  ASSUME TypeOK, CountInv, NEW m \in Messages
  PROVE  /\ handoffs[m] \in Nat /\ rows[m] \in Nat /\ crashes \in Nat /\ lost \in Nat
         /\ IsFiniteSet(ProcessTasks(m)) /\ Cardinality(ProcessTasks(m)) \in Nat
         /\ Inserters(m) \in SUBSET ProcessTasks(m)
         /\ IsFiniteSet(Inserters(m)) /\ Cardinality(Inserters(m)) \in Nat
         /\ Cardinality(Inserters(m)) <= Cardinality(ProcessTasks(m))
         /\ handoffs[m] * (1 + crashes) \in Nat
<1>1. handoffs[m] \in Nat /\ rows[m] \in Nat /\ crashes \in Nat /\ lost \in Nat
  BY DEF TypeOK
<1>2. IsFiniteSet(ProcessTasks(m)) /\ Inserters(m) \in SUBSET ProcessTasks(m)
  BY DEF CountInv, ProcessTasks, Inserters, Inserts
<1>3. IsFiniteSet(Inserters(m)) /\ Cardinality(Inserters(m)) <= Cardinality(ProcessTasks(m))
  BY <1>2, FS_Subset
<1>4. \A a, b \in Nat : a * (1 + b) \in Nat
  OBVIOUS
<1>. QED BY <1>1, <1>2, <1>3, <1>4, FS_CardinalityType

\* The tasks of m that a step leaves: fewer process tasks, and fewer INSERTs to come.
Fewer(m) == /\ \A j \in Tasks : ProcessOf(task'[j], m) => ProcessOf(task[j], m)
            /\ \A j \in Tasks : Inserts(task'[j], m) => Inserts(task[j], m)

LEMMA FewerCounted ==
  ASSUME TypeOK, CountInv, NEW m \in Messages, Fewer(m)
  PROVE  /\ IsFiniteSet(ProcessTasks(m)') /\ IsFiniteSet(Inserters(m)')
         /\ Cardinality(ProcessTasks(m)') \in Nat /\ Cardinality(Inserters(m)') \in Nat
         /\ Cardinality(ProcessTasks(m)') <= Cardinality(ProcessTasks(m))
         /\ Cardinality(Inserters(m)') <= Cardinality(Inserters(m))
<1>1. /\ ProcessTasks(m)' \in SUBSET ProcessTasks(m)
      /\ Inserters(m)' \in SUBSET Inserters(m)
  BY DEF Fewer, ProcessTasks, Inserters
<1>. QED BY <1>1, CountTypes, FS_Subset, FS_CardinalityType

LEMMA CountQuiet ==
  ASSUME TypeOK, CountInv, UNCHANGED <<rows, handoffs, crashes, lost>>,
         \A m \in Messages : Fewer(m)
  PROVE  CountInv'
<1>. SUFFICES ASSUME NEW m \in Messages
              PROVE  /\ IsFiniteSet(ProcessTasks(m)') /\ Cardinality(ProcessTasks(m)') <= handoffs[m]
                     /\ rows[m] + Cardinality(Inserters(m)') <= handoffs[m] * (1 + crashes) + lost
  BY DEF CountInv
<1>1. /\ Cardinality(ProcessTasks(m)) <= handoffs[m]
      /\ rows[m] + Cardinality(Inserters(m)) <= handoffs[m] * (1 + crashes) + lost
  BY DEF CountInv
<1>2. Fewer(m)
  OBVIOUS
<1>. QED BY <1>1, <1>2, CountTypes, FewerCounted

\* Only a hand-off makes a process task, and only an INSERT comes before the rest of it.
LEMMA FetchFewer ==
  ASSUME TypeOK, \A j \in Tasks : task'[j] = task[j] \/ task'[j].kind # "process"
  PROVE  \A m \in Messages : Fewer(m)
BY DEF Fewer, ProcessOf, Inserts

LEMMA FetchLeaves ==
  ASSUME TypeOK, \/ \E i \in Tasks : \/ Lookup(i) \/ Dedup(i) \/ Token(i) \/ GetHeader(i)
                                     \/ GetBody(i) \/ Ack(i)
                 \/ \E m \in Messages : Webhook(m)
  PROVE  \A j \in Tasks : task'[j] = task[j] \/ task'[j].kind # "process"
<1>0. task \in [Tasks -> Task] /\ TaskOK
  BY DEF TypeOK, TaskOK
<1>1. \A k, m : Queued(k, m).kind = k
  BY DEF Queued
<1>2. ASSUME NEW i \in Tasks, task[i].kind = "fetch",
             \/ \E p : Goto(i, p)
             \/ ReturnErr(i)
             \/ Reschedule(i)
             \/ task' = [task EXCEPT ![i].pc = "dedup", ![i].snap = lastSync]
      PROVE  \A j \in Tasks : task'[j] = task[j] \/ task'[j].kind # "process"
  <2>1. ASSUME NEW p, Goto(i, p) PROVE task'[i].kind = "fetch" /\ \A j \in Tasks \ {i} : task'[j] = task[j]
    BY <1>0, <1>2, <2>1 DEF Goto, Task
  <2>2. ASSUME ReturnErr(i)
        PROVE  task'[i].kind # "process" /\ \A j \in Tasks \ {i} : task'[j] = task[j]
    <3>1. AfterError(i).kind \in {"none", "fetch"}
      BY <1>0, <1>2, AfterErrorType DEF TaskOK, Free
    <3>. QED BY <1>0, <2>2, <3>1 DEF ReturnErr
  <2>3. ASSUME NEW j \in Tasks, Free(j), task' = [task EXCEPT ![i].pc = "done", ![j] = Queued("fetch", Msg(i))]
        PROVE  task'[i].kind = "fetch" /\ task'[j].kind = "fetch"
               /\ \A k \in Tasks \ {i, j} : task'[k] = task[k]
    <3>1. i # j
      BY <1>2, <2>3 DEF Free
    <3>2. task'[i] = [task[i] EXCEPT !.pc = "done"] /\ task'[j] = Queued("fetch", Msg(i))
          /\ \A k \in Tasks \ {i, j} : task'[k] = task[k]
      BY <1>0, <2>3, <3>1
    <3>. QED BY <1>0, <1>1, <1>2, <3>2 DEF Task
  <2>4. ASSUME task' = [task EXCEPT ![i].pc = "dedup", ![i].snap = lastSync]
        PROVE  task'[i].kind = "fetch" /\ \A j \in Tasks \ {i} : task'[j] = task[j]
    <3>1. task'[i] = [task[i] EXCEPT !.pc = "dedup", !.snap = lastSync]
          /\ \A j \in Tasks \ {i} : task'[j] = task[j]
      BY <1>0, <2>4
    <3>. QED BY <1>0, <1>2, <3>1 DEF Task
  <2>. QED BY <1>2, <2>1, <2>2, <2>3, <2>4 DEF Reschedule, ReturnNil
<1>3. ASSUME NEW i \in Tasks, Lookup(i) \/ Dedup(i) \/ Token(i) \/ GetHeader(i) \/ GetBody(i)
      PROVE  \A j \in Tasks : task'[j] = task[j] \/ task'[j].kind # "process"
  <2>1. task[i].kind = "fetch"
    BY <1>3 DEF Lookup, Dedup, Token, GetHeader, GetBody, At
  <2>2. \/ \E p : Goto(i, p)
        \/ ReturnErr(i)
        \/ Reschedule(i)
        \/ task' = [task EXCEPT ![i].pc = "dedup", ![i].snap = lastSync]
    BY <1>3 DEF Lookup, LookupFailed, ReturnNil, Dedup, Token, GetHeader, GetBody, ProviderFault, Throttle
  <2>. QED BY <1>2, <2>1, <2>2
<1>4. ASSUME NEW i \in Tasks, Ack(i)
      PROVE  \A j \in Tasks : task'[j] = task[j] \/ task'[j].kind # "process"
  BY <1>0, <1>4, IdleType DEF Ack
<1>5. ASSUME NEW m \in Messages, Webhook(m)
      PROVE  \A j \in Tasks : task'[j] = task[j] \/ task'[j].kind # "process"
  BY <1>0, <1>1, <1>5 DEF Webhook
<1>. QED BY <1>3, <1>4, <1>5

\* The steps of a process task change that task only, and it never goes back before its
\* INSERT but by asynq, which takes it for the one it was.
LEMMA ProcessFewer ==
  ASSUME TypeOK, NEW i \in Tasks, ProcessStep(i)
  PROVE  /\ \A m \in Messages : Fewer(m)
         /\ \A m \in Messages : Insert(i) /\ Goto(i, "sync") => ~Inserts(task'[i], m)
<1>0. task \in [Tasks -> Task] /\ TaskOK /\ task[i].kind = "process"
  BY DEF TypeOK, TaskOK, ProcessStep, Extract, Insert, UpdateLastSync, Publish, At
<1>1. ASSUME NEW p, Goto(i, p)
      PROVE  /\ task'[i].pc = p /\ task'[i].kind = task[i].kind /\ task'[i].msg = task[i].msg
             /\ \A j \in Tasks \ {i} : task'[j] = task[j]
  BY <1>0, <1>1 DEF Goto, Task
<1>2. ASSUME NEW p, Goto(i, p), p \in {"insert", "queued"} => task[i].pc \in {"insert", "queued"}
      PROVE  \A m \in Messages : Fewer(m)
  BY <1>1, <1>2 DEF Fewer, ProcessOf, Inserts
<1>3. ASSUME ReturnErr(i), task[i].pc \in {"insert", "queued"}
      PROVE  \A m \in Messages : Fewer(m)
  <2>1. \/ AfterError(i).kind = "none"
        \/ AfterError(i).kind = task[i].kind /\ AfterError(i).msg = task[i].msg
    BY <1>0, AfterErrorType DEF TaskOK, Free, Msg
  <2>2. task'[i] = AfterError(i) /\ \A j \in Tasks \ {i} : task'[j] = task[j]
    BY <1>0, <1>3 DEF ReturnErr
  <2>. QED BY <1>3, <2>1, <2>2 DEF Fewer, ProcessOf, Inserts
<1>4. CASE Extract(i)
  <2>1. task[i].pc = "queued"
    BY <1>4 DEF Extract, At
  <2>2. Goto(i, "insert") \/ Goto(i, "done") \/ ReturnErr(i)
    BY <1>4 DEF Extract, ReturnNil
  <2>. QED BY <1>2, <1>3, <1>4, <2>1, <2>2 DEF Insert, At
<1>5. CASE Insert(i)
  <2>1. task[i].pc = "insert"
    BY <1>5 DEF Insert, At
  <2>2. Goto(i, "sync") \/ ReturnErr(i)
    BY <1>5 DEF Insert, InsertFailed
  <2>. QED BY <1>1, <1>2, <1>3, <2>1, <2>2 DEF Inserts
<1>6. CASE UpdateLastSync(i) \/ Publish(i)
  <2>1. Goto(i, "publish") \/ Goto(i, "done")
    BY <1>6 DEF UpdateLastSync, SyncFailed, Publish, ReturnNil
  <2>2. ~Insert(i)
    BY <1>6 DEF UpdateLastSync, Publish, Insert, At
  <2>. QED BY <1>2, <2>1, <2>2
<1>. QED BY <1>4, <1>5, <1>6 DEF ProcessStep

\* An INSERT trades a row for an INSERT to come, or for a lost answer.
LEMMA InsertCounts ==
  ASSUME TypeOK, CountInv, NEW i \in Tasks, Insert(i)
  PROVE  CountInv'
<1>1. PICK n \in Messages : n = Msg(i)
  BY DEF Insert, At, Free, TypeOK
<1>2. /\ \A m \in Messages : Fewer(m)
      /\ Goto(i, "sync") => ~Inserts(task'[i], n)
  BY ProcessFewer DEF ProcessStep
<1>3. UNCHANGED <<handoffs, crashes>> /\ i \in Inserters(n)
  BY <1>1 DEF Insert, At, Inserters, Inserts, ProcessOf, Msg
<1>4. \/ Goto(i, "sync") /\ rows' = [rows EXCEPT ![n] = @ + 1] /\ lost' = lost
      \/ rows' = rows /\ lost' = lost
      \/ rows' = [rows EXCEPT ![n] = @ + 1] /\ lost' = lost + 1
  BY <1>1 DEF Insert, NewRow
<1>5. Goto(i, "sync") => /\ Cardinality(Inserters(n)') <= Cardinality(Inserters(n)) - 1
  <2>. SUFFICES ASSUME Goto(i, "sync") PROVE Cardinality(Inserters(n)') <= Cardinality(Inserters(n)) - 1
    OBVIOUS
  <2>1. Inserters(n)' \in SUBSET (Inserters(n) \ {i})
    BY <1>2 DEF Inserters, Fewer
  <2>2. /\ IsFiniteSet(Inserters(n) \ {i})
        /\ Cardinality(Inserters(n) \ {i}) = Cardinality(Inserters(n)) - 1
    BY <1>3, CountTypes, FS_RemoveElement
  <2>3. Cardinality(Inserters(n)') <= Cardinality(Inserters(n) \ {i})
    BY <2>1, <2>2, FS_Subset
  <2>. QED BY <2>2, <2>3
<1>. SUFFICES ASSUME NEW m \in Messages
              PROVE  /\ IsFiniteSet(ProcessTasks(m)') /\ Cardinality(ProcessTasks(m)') <= handoffs[m]
                     /\ rows'[m] + Cardinality(Inserters(m)') <= handoffs[m] * (1 + crashes) + lost'
  BY <1>3 DEF CountInv
<1>6. /\ Cardinality(ProcessTasks(m)) <= handoffs[m]
      /\ rows[m] + Cardinality(Inserters(m)) <= handoffs[m] * (1 + crashes) + lost
  BY DEF CountInv
<1>7. /\ IsFiniteSet(ProcessTasks(m)') /\ Cardinality(ProcessTasks(m)') <= handoffs[m]
      /\ Cardinality(Inserters(m)') <= Cardinality(Inserters(m))
      /\ Cardinality(Inserters(m)') \in Nat
  BY <1>2, <1>6, CountTypes, FewerCounted
<1>. DEFINE most == handoffs[m] * (1 + crashes)
            c == Cardinality(Inserters(m))
            d == Cardinality(Inserters(m)')
<1>8. /\ most \in Nat /\ c \in Nat /\ d \in Nat /\ lost \in Nat /\ rows[m] \in Nat
      /\ rows[m] + c <= most + lost /\ d <= c
  BY <1>6, <1>7, CountTypes
<1>9. \/ m = n /\ d <= c - 1 /\ rows'[m] = rows[m] + 1 /\ lost' = lost
      \/ rows'[m] = rows[m] /\ lost' \in {lost, lost + 1}
      \/ rows'[m] = rows[m] + 1 /\ lost' = lost + 1
  BY <1>4, <1>5 DEF TypeOK
<1>10. rows'[m] + d <= most + lost'
  <2>. HIDE DEF most, c, d
  <2>. QED BY <1>8, <1>9
<1>. QED BY <1>7, <1>10

\* A hand-off pays for its process task and for what crashes may cost from now on.
LEMMA HandoffCounts ==
  ASSUME TypeOK, CountInv, NEW i \in Tasks, Handoff(i)
  PROVE  CountInv'
<1>0. task \in [Tasks -> Task] /\ TaskOK /\ task[i].kind = "fetch"
  BY DEF TypeOK, TaskOK, Handoff, At
<1>1. PICK n \in Messages : n = Msg(i)
  BY DEF Handoff, At, Free, TypeOK
<1>2. UNCHANGED <<rows, crashes, lost>>
  BY DEF Handoff, store
<1>3. AfterError(i).kind # "process"
  BY <1>0, AfterErrorType DEF TaskOK, Free
<1>4. CASE ReturnErr(i) /\ UNCHANGED handoffs
  <2>1. \A j \in Tasks : task'[j] = task[j] \/ task'[j].kind # "process"
    BY <1>0, <1>3, <1>4 DEF ReturnErr
  <2>. QED BY <1>2, <1>4, <2>1, FetchFewer, CountQuiet
<1>5. CASE /\ handoffs' = [handoffs EXCEPT ![n] = @ + 1]
           /\ \E j \in Tasks : /\ Free(j)
                               /\ \/ task' = [task EXCEPT ![i].pc = "done", ![j] = Queued("process", n)]
                                  \/ task' = [task EXCEPT ![i] = AfterError(i), ![j] = Queued("process", n)]
  <2>1. PICK j \in Tasks :
          /\ Free(j)
          /\ \/ task' = [task EXCEPT ![i].pc = "done", ![j] = Queued("process", n)]
             \/ task' = [task EXCEPT ![i] = AfterError(i), ![j] = Queued("process", n)]
    BY <1>5
  <2>2. /\ task'[j] = Queued("process", n)
        /\ task'[i] \in {AfterError(i), [task[i] EXCEPT !.pc = "done"]}
        /\ \A k \in Tasks \ {i, j} : task'[k] = task[k]
    BY <1>0, <2>1 DEF Free
  <2>3. [task[i] EXCEPT !.pc = "done"].kind # "process"
    BY <1>0 DEF Task
  <2>4. Queued("process", n).msg = n
    BY DEF Queued
  <2>5. ASSUME NEW m \in Messages
        PROVE  /\ ProcessTasks(m)' \in SUBSET (IF m = n THEN ProcessTasks(m) \cup {j} ELSE ProcessTasks(m))
               /\ Inserters(m)' \in SUBSET (IF m = n THEN Inserters(m) \cup {j} ELSE Inserters(m))
    BY <1>3, <2>2, <2>3, <2>4 DEF ProcessTasks, Inserters, ProcessOf, Inserts
  <2>. SUFFICES ASSUME NEW m \in Messages
                PROVE  /\ IsFiniteSet(ProcessTasks(m)') /\ Cardinality(ProcessTasks(m)') <= handoffs'[m]
                       /\ rows[m] + Cardinality(Inserters(m)') <= handoffs'[m] * (1 + crashes) + lost
    BY <1>2 DEF CountInv
  <2>6. /\ Cardinality(ProcessTasks(m)) <= handoffs[m]
        /\ rows[m] + Cardinality(Inserters(m)) <= handoffs[m] * (1 + crashes) + lost
    BY DEF CountInv
  <2>. DEFINE c == Cardinality(Inserters(m))
              d == Cardinality(Inserters(m)')
              p == Cardinality(ProcessTasks(m))
              q == Cardinality(ProcessTasks(m)')
              h == handoffs[m]
  <2>7. /\ c \in Nat /\ p \in Nat /\ h \in Nat /\ rows[m] \in Nat /\ lost \in Nat /\ crashes \in Nat
        /\ IsFiniteSet(ProcessTasks(m)) /\ IsFiniteSet(Inserters(m))
    BY CountTypes
  <2>8. IsFiniteSet(ProcessTasks(m)') /\ d \in Nat /\ q \in Nat
        /\ d <= (IF m = n THEN c + 1 ELSE c) /\ q <= (IF m = n THEN p + 1 ELSE p)
    <3>1. /\ IsFiniteSet(ProcessTasks(m) \cup {j}) /\ Cardinality(ProcessTasks(m) \cup {j}) \in {p, p + 1}
          /\ IsFiniteSet(Inserters(m) \cup {j}) /\ Cardinality(Inserters(m) \cup {j}) \in {c, c + 1}
      BY <2>7, FS_AddElement
    <3>2. CASE m = n
      <4>1. /\ ProcessTasks(m)' \in SUBSET (ProcessTasks(m) \cup {j})
            /\ Inserters(m)' \in SUBSET (Inserters(m) \cup {j})
        BY <2>5, <3>2
      <4>2. /\ IsFiniteSet(ProcessTasks(m)') /\ q <= Cardinality(ProcessTasks(m) \cup {j})
            /\ IsFiniteSet(Inserters(m)') /\ d <= Cardinality(Inserters(m) \cup {j})
        BY <3>1, <4>1, FS_Subset
      <4>3. q \in Nat /\ d \in Nat
        BY <4>2, FS_CardinalityType
      <4>. HIDE DEF c, d, p, q
      <4>. QED BY <2>7, <3>1, <3>2, <4>2, <4>3
    <3>3. CASE m # n
      <4>1. /\ ProcessTasks(m)' \in SUBSET ProcessTasks(m)
            /\ Inserters(m)' \in SUBSET Inserters(m)
        BY <2>5, <3>3
      <4>. QED BY <2>7, <3>3, <4>1, FS_Subset, FS_CardinalityType
    <3>. QED BY <3>2, <3>3
  <2>9. handoffs'[m] = IF m = n THEN h + 1 ELSE h
    BY <1>5 DEF TypeOK
  <2>10. (h + 1) * (1 + crashes) = h * (1 + crashes) + 1 + crashes
    <3>. HIDE DEF h
    <3>. QED BY <2>7
  <2>11. h * (1 + crashes) \in Nat
    BY CountTypes
  <2>. HIDE DEF c, d, p, q, h
  <2>12. q <= handoffs'[m]
    BY <2>6, <2>7, <2>8, <2>9 DEF p, h
  <2>13. rows[m] + d <= handoffs'[m] * (1 + crashes) + lost
    <3>. DEFINE most == h * (1 + crashes)
    <3>1. rows[m] + c <= most + lost
      BY <2>6 DEF c, h
    <3>2. handoffs'[m] * (1 + crashes) = IF m = n THEN most + 1 + crashes ELSE most
      BY <2>9, <2>10
    <3>3. most \in Nat
      BY <2>11
    <3>. HIDE DEF most
    <3>. QED BY <2>7, <2>8, <3>1, <3>2, <3>3
  <2>. QED BY <2>8, <2>12, <2>13 DEF d, q
<1>. QED BY <1>1, <1>4, <1>5 DEF Handoff

\* A crash makes every process task insert again, once for each hand-off at most.
LEMMA CrashCounts ==
  ASSUME TypeOK, CountInv, Crash
  PROVE  CountInv'
<1>0. task \in [Tasks -> Task] /\ TaskOK
  BY DEF TypeOK, TaskOK
<1>1. UNCHANGED <<rows, handoffs, lost>> /\ crashes' = crashes + 1
  BY DEF Crash, store
<1>2. \A j \in Tasks : \/ task'[j] = task[j]
                       \/ task'[j].kind = "none"
                       \/ task'[j].kind = task[j].kind /\ task'[j].msg = task[j].msg
  <2>1. ASSUME NEW j \in Active
        PROVE  \/ AfterError(j).kind = "none"
               \/ AfterError(j).kind = task[j].kind /\ AfterError(j).msg = task[j].msg
    BY <1>0, <2>1, AfterErrorType DEF TaskOK, Active, Msg
  <2>. QED BY <1>0, <2>1 DEF Crash
<1>. SUFFICES ASSUME NEW m \in Messages
              PROVE  /\ IsFiniteSet(ProcessTasks(m)') /\ Cardinality(ProcessTasks(m)') <= handoffs[m]
                     /\ rows[m] + Cardinality(Inserters(m)') <= handoffs[m] * (1 + crashes') + lost
  BY <1>1 DEF CountInv
<1>. DEFINE c == Cardinality(Inserters(m))
            d == Cardinality(Inserters(m)')
            p == Cardinality(ProcessTasks(m))
            h == handoffs[m]
            most == h * (1 + crashes)
<1>3. /\ ProcessTasks(m)' \in SUBSET ProcessTasks(m)
      /\ Inserters(m)' \in SUBSET ProcessTasks(m)
  BY <1>2 DEF ProcessTasks, Inserters, ProcessOf, Inserts
<1>4. /\ c \in Nat /\ p \in Nat /\ h \in Nat /\ rows[m] \in Nat /\ lost \in Nat /\ crashes \in Nat
      /\ IsFiniteSet(ProcessTasks(m)) /\ most \in Nat
  BY CountTypes
<1>5. p <= h /\ rows[m] + c <= most + lost
  BY DEF CountInv
<1>6. /\ IsFiniteSet(ProcessTasks(m)') /\ Cardinality(ProcessTasks(m)') <= p
      /\ IsFiniteSet(Inserters(m)') /\ d <= p
  BY <1>3, <1>4, FS_Subset
<1>7. Cardinality(ProcessTasks(m)') \in Nat /\ d \in Nat
  BY <1>6, FS_CardinalityType
<1>8. h * (1 + (crashes + 1)) = most + h
  <2>. HIDE DEF h
  <2>. QED BY <1>4
<1>9. rows[m] + d <= h * (1 + crashes') + lost
  <2>1. h * (1 + crashes') = most + h
    BY <1>1, <1>8
  <2>. HIDE DEF c, d, p, h, most
  <2>. QED BY <1>4, <1>5, <1>6, <1>7, <2>1
<1>10. Cardinality(ProcessTasks(m)') <= h
  <2>. HIDE DEF p, h
  <2>. QED BY <1>4, <1>5, <1>6, <1>7
<1>. QED BY <1>6, <1>9, <1>10

LEMMA CountInvStep == TypeOK /\ CountInv /\ [Next]_vars => CountInv'
<1>. SUFFICES ASSUME TypeOK, CountInv, [Next]_vars PROVE CountInv'
  OBVIOUS
<1>1. ASSUME \/ \E i \in Tasks : \/ Lookup(i) \/ Dedup(i) \/ Token(i) \/ GetHeader(i)
                                 \/ GetBody(i) \/ Ack(i)
             \/ \E m \in Messages : Webhook(m)
      PROVE  CountInv'
  <2>1. UNCHANGED <<rows, handoffs, crashes, lost>>
    BY <1>1 DEF Lookup, Dedup, Token, GetHeader, GetBody, Ack, Webhook, store, bounds, history
  <2>. QED BY <1>1, <2>1, FetchLeaves, FetchFewer, CountQuiet
<1>2. ASSUME NEW i \in Tasks, Extract(i) \/ UpdateLastSync(i) \/ Publish(i) PROVE CountInv'
  <2>1. UNCHANGED <<rows, handoffs, crashes, lost>>
    BY <1>2 DEF Extract, UpdateLastSync, Publish, store, history
  <2>. QED BY <1>2, <2>1, ProcessFewer, CountQuiet DEF ProcessStep
<1>3. ASSUME NEW i \in Tasks, Handoff(i) \/ Insert(i) PROVE CountInv'
  BY <1>3, HandoffCounts, InsertCounts
<1>4. CASE \/ Tick \/ EditRules \/ Reconnect \/ Disconnect \/ UNCHANGED vars
           \/ \E m \in Messages : Arrive(m)
  <2>1. UNCHANGED <<task, rows, handoffs, crashes, lost>>
    BY <1>4 DEF Tick, EditRules, Reconnect, Disconnect, Arrive, vars, store, bounds, history
  <2>. QED BY <2>1, FetchFewer, CountQuiet
<1>. QED BY <1>1, <1>2, <1>3, <1>4, CrashCounts
         DEF Next, Environment, Worker, FetchStep, ProcessStep

\* DuplicateRowsExplained: however often tasks are retried, a message has more rows than
\* hand-offs only by the crashes, each of which may repeat what a hand-off inserted, and by
\* the INSERTs whose answer was lost (handler.go 1049-1064).
THEOREM RowsExplained == Spec => []DuplicateRowsExplained
<1>1. Init => CountInv
  <2>. SUFFICES ASSUME Init, NEW m \in Messages
                PROVE  /\ IsFiniteSet(ProcessTasks(m)) /\ Cardinality(ProcessTasks(m)) <= handoffs[m]
                       /\ rows[m] + Cardinality(Inserters(m)) <= handoffs[m] * (1 + crashes) + lost
    BY DEF CountInv
  <2>1. ProcessTasks(m) = {} /\ Inserters(m) = {}
    BY IdleType DEF Init, ProcessTasks, Inserters, ProcessOf, Inserts
  <2>2. handoffs[m] = 0 /\ rows[m] = 0 /\ crashes = 0 /\ lost = 0
    BY DEF Init
  <2>. QED BY <2>1, <2>2, FS_EmptySet
<1>2. TypeOK /\ CountInv => DuplicateRowsExplained
  <2>. SUFFICES ASSUME TypeOK, CountInv, NEW m \in Messages
                PROVE  rows[m] <= handoffs[m] * (1 + crashes) + lost
    BY DEF DuplicateRowsExplained
  <2>1. rows[m] + Cardinality(Inserters(m)) <= handoffs[m] * (1 + crashes) + lost
    BY DEF CountInv
  <2>. DEFINE most == handoffs[m] * (1 + crashes)
              c == Cardinality(Inserters(m))
  <2>2. most \in Nat /\ c \in Nat /\ rows[m] \in Nat /\ lost \in Nat
    BY CountTypes
  <2>3. rows[m] + c <= most + lost
    BY <2>1
  <2>. HIDE DEF most, c
  <2>4. rows[m] <= most + lost
    BY <2>2, <2>3
  <2>. QED BY <2>4 DEF most
<1>. QED BY <1>1, <1>2, TypeCorrect, CountInvStep, PTL DEF Spec
=============================================================================
