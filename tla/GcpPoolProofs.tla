---------------------------- MODULE GcpPoolProofs ----------------------------
(***************************************************************************)
(* Proofs about GcpPool: its type, the bound on overbooking, and that the  *)
(* count of a project and the rows that name it agree, for any accounts,   *)
(* projects, limit, open pages and running tasks.                          *)
(***************************************************************************)
EXTENDS GcpPool, FiniteSetTheorems, TLAPS

-----------------------------------------------------------------------------
(* The inductive invariant.                                                *)

\* What a task keeps of the row: a slot to give back only of a Gmail account.
Shape == \A t \in Tasks :
  /\ task[t].pc = "clear" => task[t].slot = None
  /\ task[t].pc \in {"cleanup", "freed"} => task[t].slot \in Projects /\ task[t].gmail

\* Two tasks that hold the same slot of one account free it twice.
Unique == \A t, u \in Tasks :
  /\ t # u /\ task[t].pc \in {"cleanup", "freed"} /\ task[u].pc \in {"cleanup", "freed"}
  /\ task[t].account = task[u].account /\ task[t].slot = task[u].slot
  => task[t].slot \in overfreed

\* A task clears the project it has a slot of, unless that project has leaked.
Known == \A t \in Tasks :
  task[t].pc # "idle" =>
    \/ project[task[t].account] \in leaked \cup {None}
    \/ project[task[t].account] = task[t].slot

\* An account that moved to Outlook has leaked its slot.
Moved == \A a \in Accounts : provider[a] = "outlook" => project[a] \in leaked \cup {None}

\* The accounts a slot of p stands for: its users, and the ones a task will give it back
\* for, until it has.
Claims(p) == {a \in Accounts :
  /\ \/ a \in Users(p)
     \/ \E t \in Tasks : task[t].pc = "cleanup" /\ task[t].account = a /\ task[t].slot = p
  /\ ~Freed(a, p)}
Enough == \A p \in Projects \ overfreed : count[p] >= Cardinality(Claims(p))

IInv == TypeOK /\ Shape /\ Unique /\ Known /\ Moved /\ Enough /\ NotLeaked

-----------------------------------------------------------------------------
(* Type correctness.                                                       *)

\* What Spec says of the variables holds initially.
LEMMA TypeInit == Init => TypeOK
  BY GcpPoolAssumption DEF Init, TypeOK, Task, NoTask

\* A task that runs has an account and the rest of what it read.
LEMMA TaskFields ==
  ASSUME TypeOK, NEW t \in Tasks, task[t].pc # "idle"
  PROVE  /\ task[t] \in [pc : {"cleanup", "freed", "clear"}, account : Accounts,
                         gmail : BOOLEAN, slot : Projects \cup {None}]
         /\ task[t].account \in Accounts
         /\ task[t].slot \in Projects \cup {None}
         /\ task[t].pc \in {"cleanup", "freed", "clear"}
  <1>1. task[t] \in Task
    BY DEF TypeOK
  <1>2. task[t] # NoTask
    BY DEF NoTask
  <1> QED
    BY <1>1, <1>2 DEF Task

LEMMA TypeStep == TypeOK /\ [Next]_vars => TypeOK'
  <1> SUFFICES ASSUME TypeOK, [Next]_vars
               PROVE  TypeOK'
    OBVIOUS
  <1> USE GcpPoolAssumption DEF TypeOK
  <1>1. ASSUME NEW a \in Accounts, NEW k \in Pages, HandleConnect(a, k)
        PROVE  TypeOK'
    BY <1>1 DEF HandleConnect, OAuthState, row
  <1>2. ASSUME NEW k \in Pages, HandleCallback(k)
        PROVE  TypeOK'
    <2>1. page[k] \in OAuthState
      BY <1>2 DEF HandleCallback
    <2>2. page[k].account \in Accounts /\ page[k].project \in Projects
      BY <2>1 DEF OAuthState
    <2>3. /\ project' \in [Accounts -> Projects \cup {None}]
          /\ provider' \in [Accounts -> {"gmail", "outlook"}]
          /\ creds' \in [Accounts -> BOOLEAN]
          /\ page' \in [Pages -> OAuthState \cup {None}]
      BY <1>2, <2>2 DEF HandleCallback
    <2>4. count' \in [Projects -> Nat]
      <3>1. count' = [count EXCEPT ![page[k].project] = count[page[k].project] + 1]
        BY <1>2 DEF HandleCallback, Taken
      <3>2. \A q \in Projects : count[q] + 1 \in Nat
        OBVIOUS
      <3> QED
        BY <2>2, <3>1, <3>2
    <2>5. leaked' \subseteq Projects
      <3>1. project[page[k].account] \in Projects \cup {None}
        BY <2>2
      <3> QED
        BY <1>2, <2>2, <3>1 DEF HandleCallback, Named
    <2>6. revisits' \in 0..MaxRevisits
      BY <1>2 DEF HandleCallback
    <2> QED
      BY <1>2, <2>3, <2>4, <2>5, <2>6 DEF HandleCallback
  <1>3. ASSUME NEW a \in Accounts, OutlookCallback(a)
        PROVE  TypeOK'
    BY <1>3 DEF OutlookCallback, Named
  <1>4. ASSUME NEW t \in Tasks, NEW a \in Accounts, DiscRead(t, a)
        PROVE  TypeOK'
    <2>1. task' \in [Tasks -> Task]
      BY <1>4 DEF DiscRead, GivesBack, Task
    <2>2. \A u \in Tasks : task'[u].pc \in {"cleanup", "freed"} => task'[u].slot # None
      BY <1>4 DEF DiscRead, GivesBack
    <2>3. leaked' \subseteq Projects /\ overfreed' \subseteq Projects
      BY <1>4 DEF DiscRead, Named
    <2> QED
      BY <1>4, <2>1, <2>2, <2>3 DEF DiscRead, At, row
  <1>5. ASSUME NEW t \in Tasks, DiscFree(t)
        PROVE  TypeOK'
    <2>1. task[t].slot \in Projects /\ task[t].pc = "cleanup"
      BY <1>5, TaskFields DEF DiscFree, At
    <2>2. task' \in [Tasks -> Task]
      BY <1>5, <2>1, TaskFields DEF DiscFree, Task
    <2>3. \A u \in Tasks : task'[u].pc \in {"cleanup", "freed"} => task'[u].slot # None
      BY <1>5, <2>1, TaskFields DEF DiscFree
    <2>4. count' \in [Projects -> Nat]
      BY <1>5, <2>1 DEF DiscFree, Lower
    <2> QED
      BY <1>5, <2>1, <2>2, <2>3, <2>4 DEF DiscFree, At, Fault, row
  <1>6. ASSUME NEW t \in Tasks, DiscClear(t)
        PROVE  TypeOK'
    BY <1>6 DEF DiscClear, Cleared, Task, NoTask
  <1>7. ASSUME NEW t \in Tasks, DiscAgain(t)
        PROVE  TypeOK'
    <2>1. task' \in [Tasks -> Task]
      BY <1>7 DEF DiscAgain, Task, NoTask
    <2>2. \A u \in Tasks : task'[u].pc \in {"cleanup", "freed"} => task'[u].slot # None
      BY <1>7 DEF DiscAgain, NoTask
    <2>3. overfreed' \subseteq Projects
      BY <1>7, TaskFields DEF DiscAgain, Running
    <2>4. /\ provider' \in [Accounts -> {"gmail", "outlook"}]
          /\ project' \in [Accounts -> Projects \cup {None}]
          /\ creds' \in [Accounts -> BOOLEAN]
      BY <1>7 DEF DiscAgain, Cleared, row
    <2>5. faults' \in 0..MaxFaults
      BY <1>7 DEF DiscAgain, Fault
    <2> QED
      BY <1>7, <2>1, <2>2, <2>3, <2>4, <2>5 DEF DiscAgain
  <1>8. CASE UNCHANGED vars
    BY <1>8 DEF vars, row
  <1> QED
    BY <1>1, <1>2, <1>3, <1>4, <1>5, <1>6, <1>7, <1>8 DEF Next

\* Every variable has its type, and active_count never falls below zero.
THEOREM PoolTypeCorrect == Spec => []TypeOK
  <1>1. Init => TypeOK
    BY TypeInit
  <1>2. TypeOK /\ [Next]_vars => TypeOK'
    BY TypeStep
  <1> QED
    BY <1>1, <1>2, PTL DEF Spec

-----------------------------------------------------------------------------
(* Overbooking.                                                            *)

\* The pages open for a project are some of the pages.
LEMMA OpenForFinite ==
  ASSUME NEW p
  PROVE  /\ IsFiniteSet(OpenFor(p))
         /\ Cardinality(OpenFor(p)) \in Nat /\ Cardinality(Pages) \in Nat
         /\ Cardinality(OpenFor(p)) <= Cardinality(Pages)
  <1>1. OpenFor(p) \in SUBSET Pages
    BY DEF OpenFor
  <1> QED
    BY <1>1, FS_Subset, FS_CardinalityType, GcpPoolAssumption

LEMMA QuotaInit == Init => Quota
  <1> SUFFICES ASSUME Init, NEW p \in Projects
               PROVE  count[p] + Cardinality(OpenFor(p)) <= Limit - 1 + Cardinality(Pages) + revisits
    BY DEF Quota
  <1>1. count[p] = 0 /\ revisits = 0
    BY DEF Init
  <1> QED
    BY <1>1, OpenForFinite, GcpPoolAssumption

LEMMA QuotaStep == TypeOK /\ Quota /\ [Next]_vars => Quota'
  <1> SUFFICES ASSUME TypeOK, Quota, [Next]_vars, NEW p \in Projects
               PROVE  (count[p] + Cardinality(OpenFor(p)) <= Limit - 1 + Cardinality(Pages) + revisits)'
    BY DEF Quota
  <1>a. count[p] + Cardinality(OpenFor(p)) <= Limit - 1 + Cardinality(Pages) + revisits
    BY DEF Quota
  <1>b. /\ count[p] \in Nat /\ revisits \in Nat
        /\ Limit \in Nat
    BY GcpPoolAssumption DEF TypeOK
  <1>c. /\ Cardinality(OpenFor(p)) \in Nat /\ Cardinality(Pages) \in Nat
        /\ IsFiniteSet(OpenFor(p))
    BY OpenForFinite
  \* A step that opens no page and counts nobody.
  <1>d. ASSUME page' = page, count'[p] <= count[p], revisits' = revisits, count'[p] \in Nat
        PROVE  (count[p] + Cardinality(OpenFor(p)) <= Limit - 1 + Cardinality(Pages) + revisits)'
    <2>1. OpenFor(p)' = OpenFor(p)
      BY <1>d DEF OpenFor
    <2> QED
      BY <1>a, <1>b, <1>c, <1>d, <2>1
  <1>1. ASSUME NEW a \in Accounts, NEW k \in Pages, HandleConnect(a, k)
        PROVE  (count[p] + Cardinality(OpenFor(p)) <= Limit - 1 + Cardinality(Pages) + revisits)'
    <2>1. PICK q \in Projects : HasRoom(count[q]) /\ page' = [page EXCEPT ![k] = [account |-> a, project |-> q]]
      BY <1>1 DEF HandleConnect
    <2>2. count' = count /\ revisits' = revisits
      BY <1>1 DEF HandleConnect
    <2>3. CASE q = p
      <3>1. OpenFor(p)' \in SUBSET Pages
        BY DEF OpenFor
      <3>2. Cardinality(OpenFor(p)') \in Nat /\ Cardinality(OpenFor(p)') <= Cardinality(Pages)
        BY <3>1, FS_Subset, FS_CardinalityType, GcpPoolAssumption
      <3>3. count[p] <= Limit - 1
        BY <2>1, <2>3, <1>b DEF HasRoom
      <3> QED
        BY <2>2, <3>2, <3>3, <1>b, <1>c
    <2>4. CASE q # p
      <3>1. OpenFor(p)' \in SUBSET OpenFor(p)
        BY <2>1, <2>4 DEF OpenFor, TypeOK
      <3>2. Cardinality(OpenFor(p)') \in Nat /\ Cardinality(OpenFor(p)') <= Cardinality(OpenFor(p))
        BY <3>1, <1>c, FS_Subset, FS_CardinalityType
      <3> QED
        BY <2>2, <3>2, <1>a, <1>b, <1>c
    <2> QED
      BY <2>3, <2>4
  <1>2. ASSUME NEW k \in Pages, HandleCallback(k)
        PROVE  (count[p] + Cardinality(OpenFor(p)) <= Limit - 1 + Cardinality(Pages) + revisits)'
    <2> DEFINE q == page[k].project
    <2>1. q \in Projects /\ k \in OpenFor(q)
      BY <1>2 DEF HandleCallback, TypeOK, OAuthState, OpenFor
    <2>2. count' = [count EXCEPT ![q] = count[q] + 1]
      BY <1>2 DEF HandleCallback, Taken
    <2>3. count'[p] = IF p = q THEN count[p] + 1 ELSE count[p]
      BY <2>2 DEF TypeOK
    <2>4. CASE page' = [page EXCEPT ![k] = None] /\ revisits' = revisits
      <3>1. OpenFor(p)' = OpenFor(p) \ {k}
        BY <2>4 DEF OpenFor, TypeOK
      <3>2. Cardinality(OpenFor(p)') = IF k \in OpenFor(p) THEN Cardinality(OpenFor(p)) - 1
                                       ELSE Cardinality(OpenFor(p))
        BY <3>1, <1>c, FS_RemoveElement
      <3> QED
        BY <2>1, <2>3, <2>4, <3>2, <1>a, <1>b, <1>c
    <2>5. CASE revisits' = revisits + 1 /\ page' = page
      <3>1. OpenFor(p)' = OpenFor(p)
        BY <2>5 DEF OpenFor
      <3> QED
        BY <2>3, <2>5, <3>1, <1>a, <1>b, <1>c
    <2> QED
      BY <1>2, <2>4, <2>5 DEF HandleCallback
  <1>3. ASSUME NEW a \in Accounts, OutlookCallback(a)
        PROVE  (count[p] + Cardinality(OpenFor(p)) <= Limit - 1 + Cardinality(Pages) + revisits)'
    BY <1>3, <1>b, <1>d DEF OutlookCallback
  <1>4. ASSUME NEW t \in Tasks, NEW a \in Accounts, DiscRead(t, a)
        PROVE  (count[p] + Cardinality(OpenFor(p)) <= Limit - 1 + Cardinality(Pages) + revisits)'
    BY <1>4, <1>b, <1>d DEF DiscRead, At
  <1>5. ASSUME NEW t \in Tasks, DiscFree(t)
        PROVE  (count[p] + Cardinality(OpenFor(p)) <= Limit - 1 + Cardinality(Pages) + revisits)'
    <2>1. task[t].slot \in Projects
      BY <1>5, TaskFields DEF DiscFree, At, TypeOK
    <2>2. count' = count \/ count' = [count EXCEPT ![task[t].slot] = Lower(count[task[t].slot])]
      BY <1>5 DEF DiscFree
    <2>3. count'[p] <= count[p] /\ count'[p] \in Nat
      BY <2>1, <2>2, <1>b DEF Lower, TypeOK
    <2> QED
      BY <1>5, <2>3, <1>d DEF DiscFree, At
  <1>6. ASSUME NEW t \in Tasks, DiscClear(t)
        PROVE  (count[p] + Cardinality(OpenFor(p)) <= Limit - 1 + Cardinality(Pages) + revisits)'
    BY <1>6, <1>b, <1>d DEF DiscClear
  <1>7. ASSUME NEW t \in Tasks, DiscAgain(t)
        PROVE  (count[p] + Cardinality(OpenFor(p)) <= Limit - 1 + Cardinality(Pages) + revisits)'
    BY <1>7, <1>b, <1>d DEF DiscAgain
  <1>8. CASE UNCHANGED vars
    BY <1>8, <1>b, <1>d DEF vars
  <1> QED
    BY <1>1, <1>2, <1>3, <1>4, <1>5, <1>6, <1>7, <1>8 DEF Next

\* However the owners interleave, a project is overbooked by no more than the consent
\* pages that are open at once and the callbacks of pages used before.
THEOREM PoolQuota == Spec => []Quota
  <1>1. Init => TypeOK /\ Quota
    BY TypeInit, QuotaInit
  <1>2. TypeOK /\ Quota /\ [Next]_vars => TypeOK' /\ Quota'
    BY TypeStep, QuotaStep
  <1> QED
    BY <1>1, <1>2, PTL DEF Spec
-----------------------------------------------------------------------------
(* The parts of the invariant about the tasks and the rows.                *)

\* A task keeps a slot from its read until it has cleared the row or failed.
LEMMA ShapeStep == TypeOK /\ Shape /\ [Next]_vars => Shape'
  <1> SUFFICES ASSUME TypeOK, Shape, [Next]_vars
               PROVE  Shape'
    OBVIOUS
  <1>1. ASSUME NEW a \in Accounts, NEW k \in Pages, HandleConnect(a, k)
        PROVE  Shape'
    BY <1>1 DEF HandleConnect, Shape
  <1>2. ASSUME NEW k \in Pages, HandleCallback(k)
        PROVE  Shape'
    BY <1>2 DEF HandleCallback, Shape
  <1>3. ASSUME NEW a \in Accounts, OutlookCallback(a)
        PROVE  Shape'
    BY <1>3 DEF OutlookCallback, Shape
  <1>4. ASSUME NEW t \in Tasks, NEW a \in Accounts, DiscRead(t, a)
        PROVE  Shape'
    BY <1>4 DEF DiscRead, At, GivesBack, Shape, TypeOK
  <1>5. ASSUME NEW t \in Tasks, DiscFree(t)
        PROVE  Shape'
    BY <1>5, TaskFields DEF DiscFree, At, Shape, TypeOK
  <1>6. ASSUME NEW t \in Tasks, DiscClear(t)
        PROVE  Shape'
    BY <1>6 DEF DiscClear, Shape, NoTask, TypeOK
  <1>7. ASSUME NEW t \in Tasks, DiscAgain(t)
        PROVE  Shape'
    BY <1>7 DEF DiscAgain, Shape, NoTask, TypeOK
  <1>8. CASE UNCHANGED vars
    BY <1>8 DEF vars, row, Shape
  <1> QED
    BY <1>1, <1>2, <1>3, <1>4, <1>5, <1>6, <1>7, <1>8 DEF Next

\* A second task on a row that is being cleared marks its project.
LEMMA UniqueStep == TypeOK /\ Shape /\ Unique /\ [Next]_vars => Unique'
  <1> SUFFICES ASSUME TypeOK, Shape, Unique, [Next]_vars
               PROVE  Unique'
    OBVIOUS
  <1>1. ASSUME NEW a \in Accounts, NEW k \in Pages, HandleConnect(a, k)
        PROVE  Unique'
    BY <1>1 DEF HandleConnect, Unique
  <1>2. ASSUME NEW k \in Pages, HandleCallback(k)
        PROVE  Unique'
    BY <1>2 DEF HandleCallback, Unique
  <1>3. ASSUME NEW a \in Accounts, OutlookCallback(a)
        PROVE  Unique'
    BY <1>3 DEF OutlookCallback, Unique
  <1>4. ASSUME NEW t \in Tasks, NEW a \in Accounts, DiscRead(t, a)
        PROVE  Unique'
    <2>1. \A u \in Tasks : u # t => task'[u] = task[u]
      BY <1>4 DEF DiscRead, TypeOK
    <2>2. /\ task'[t].account = a
          /\ task'[t].pc \in {"cleanup", "freed"} => project[a] # None /\ task'[t].slot = project[a]
      BY <1>4 DEF DiscRead, GivesBack, TypeOK
    <2>3. overfreed \subseteq overfreed'
      BY <1>4 DEF DiscRead
    <2>4. ASSUME NEW u \in Tasks, u # t, task[u].pc \in {"cleanup", "freed"}, task[u].account = a,
                 project[a] # None
          PROVE  project[a] \in overfreed'
      <3>1. u \in Leaving(a)
        BY <2>4 DEF Leaving, Running
      <3> QED
        BY <1>4, <2>4, <3>1 DEF DiscRead, Named
    <2> QED
      BY <2>1, <2>2, <2>3, <2>4 DEF Unique
  <1>5. ASSUME NEW t \in Tasks, DiscFree(t)
        PROVE  Unique'
    BY <1>5, TaskFields DEF DiscFree, At, Unique, TypeOK
  <1>6. ASSUME NEW t \in Tasks, DiscClear(t)
        PROVE  Unique'
    BY <1>6 DEF DiscClear, Unique, NoTask, TypeOK
  <1>7. ASSUME NEW t \in Tasks, DiscAgain(t)
        PROVE  Unique'
    BY <1>7 DEF DiscAgain, Unique, NoTask, TypeOK
  <1>8. CASE UNCHANGED vars
    BY <1>8 DEF vars, row, Unique
  <1> QED
    BY <1>1, <1>2, <1>3, <1>4, <1>5, <1>6, <1>7, <1>8 DEF Next

\* The project a task is about to clear is the one it has a slot of, or has leaked.
LEMMA KnownStep == TypeOK /\ Shape /\ Known /\ Moved /\ [Next]_vars => Known'
  <1> SUFFICES ASSUME TypeOK, Shape, Known, Moved, [Next]_vars
               PROVE  Known'
    OBVIOUS
  <1>1. ASSUME NEW a \in Accounts, NEW k \in Pages, HandleConnect(a, k)
        PROVE  Known'
    BY <1>1 DEF HandleConnect, Known, row
  <1>2. ASSUME NEW k \in Pages, HandleCallback(k)
        PROVE  Known'
    <2> DEFINE a == page[k].account  p == page[k].project
    <2>1. a \in Accounts /\ p \in Projects
      BY <1>2 DEF HandleCallback, TypeOK, OAuthState
    <2>2. /\ task' = task /\ leaked \subseteq leaked'
          /\ project' = [project EXCEPT ![a] = p]
          /\ Leaving(a) # {} => p \in leaked'
      BY <1>2 DEF HandleCallback
    <2>3. ASSUME NEW u \in Tasks, task[u].pc # "idle", task[u].account = a
          PROVE  p \in leaked'
      BY <2>2, <2>3 DEF Leaving, Running
    <2> QED
      BY <2>1, <2>2, <2>3, TaskFields DEF Known, TypeOK
  <1>3. ASSUME NEW a \in Accounts, OutlookCallback(a)
        PROVE  Known'
    BY <1>3 DEF OutlookCallback, Known
  <1>4. ASSUME NEW t \in Tasks, NEW a \in Accounts, DiscRead(t, a)
        PROVE  Known'
    <2>1. \A u \in Tasks : u # t => task'[u] = task[u]
      BY <1>4 DEF DiscRead, TypeOK
    <2>2. project' = project /\ leaked \subseteq leaked'
      BY <1>4 DEF DiscRead, row
    <2>3. task'[t].account = a /\ (GivesBack(a) => task'[t].slot = project[a])
      BY <1>4 DEF DiscRead, GivesBack, TypeOK
    <2>4. ~GivesBack(a) => project[a] \in leaked' \cup {None}
      BY <1>4, <2>2 DEF DiscRead, GivesBack, Named, Moved, TypeOK
    <2> QED
      BY <2>1, <2>2, <2>3, <2>4 DEF Known
  <1>5. ASSUME NEW t \in Tasks, DiscFree(t)
        PROVE  Known'
    <2>1. \A u \in Tasks : u # t => task'[u] = task[u]
      BY <1>5 DEF DiscFree, TypeOK
    <2>2. /\ task[t].pc = "cleanup" /\ task[t].slot \in Projects
          /\ project' = project
      BY <1>5, TaskFields DEF DiscFree, At, row, TypeOK
    <2>3. /\ task'[t].account = task[t].account
          /\ \/ task'[t].slot = task[t].slot /\ leaked' = leaked
             \/ leaked' = leaked \cup {task[t].slot}
      BY <1>5, TaskFields DEF DiscFree, At, TypeOK
    <2> QED
      BY <2>1, <2>2, <2>3 DEF Known
  <1>6. ASSUME NEW t \in Tasks, DiscClear(t)
        PROVE  Known'
    BY <1>6, TaskFields DEF DiscClear, Cleared, Known, NoTask, TypeOK
  <1>7. ASSUME NEW t \in Tasks, DiscAgain(t)
        PROVE  Known'
    BY <1>7, TaskFields DEF DiscAgain, Cleared, Running, Known, NoTask, TypeOK, row
  <1>8. CASE UNCHANGED vars
    BY <1>8 DEF vars, row, Known
  <1> QED
    BY <1>1, <1>2, <1>3, <1>4, <1>5, <1>6, <1>7, <1>8 DEF Next

\* Only the Outlook callback makes a row Outlook's, and it marks the row's project.
LEMMA MovedStep == TypeOK /\ Moved /\ [Next]_vars => Moved'
  <1> SUFFICES ASSUME TypeOK, Moved, [Next]_vars
               PROVE  Moved'
    OBVIOUS
  <1>1. ASSUME NEW a \in Accounts, NEW k \in Pages, HandleConnect(a, k)
        PROVE  Moved'
    BY <1>1 DEF HandleConnect, Moved, row
  <1>2. ASSUME NEW k \in Pages, HandleCallback(k)
        PROVE  Moved'
    BY <1>2 DEF HandleCallback, Moved, TypeOK, OAuthState
  <1>3. ASSUME NEW a \in Accounts, OutlookCallback(a)
        PROVE  Moved'
    BY <1>3 DEF OutlookCallback, Moved, Named, TypeOK
  <1>4. ASSUME NEW t \in Tasks, NEW a \in Accounts, DiscRead(t, a)
        PROVE  Moved'
    BY <1>4 DEF DiscRead, Moved, row
  <1>5. ASSUME NEW t \in Tasks, DiscFree(t)
        PROVE  Moved'
    BY <1>5 DEF DiscFree, Moved, row
  <1>6. ASSUME NEW t \in Tasks, DiscClear(t)
        PROVE  Moved'
    BY <1>6 DEF DiscClear, Cleared, Moved, TypeOK
  <1>7. ASSUME NEW t \in Tasks, DiscAgain(t)
        PROVE  Moved'
    BY <1>7 DEF DiscAgain, Cleared, Moved, TypeOK, row
  <1>8. CASE UNCHANGED vars
    BY <1>8 DEF vars, row, Moved
  <1> QED
    BY <1>1, <1>2, <1>3, <1>4, <1>5, <1>6, <1>7, <1>8 DEF Next
-----------------------------------------------------------------------------
(* The count of a project and the rows that name it.                       *)

\* Both sets are finite, and one that is contained in another has no more elements.
LEMMA Sets ==
  ASSUME NEW p
  PROVE  /\ Claims(p) \in SUBSET Accounts /\ IsFiniteSet(Claims(p)) /\ Cardinality(Claims(p)) \in Nat
         /\ Using(p) \in SUBSET Accounts /\ IsFiniteSet(Using(p)) /\ Cardinality(Using(p)) \in Nat
  <1>1. Claims(p) \in SUBSET Accounts /\ Using(p) \in SUBSET Accounts
    BY DEF Claims, Using, Users
  <1> QED
    BY <1>1, FS_Subset, FS_CardinalityType, GcpPoolAssumption

LEMMA Subsets ==
  ASSUME NEW S, NEW T, S \in SUBSET T, T \in SUBSET Accounts
  PROVE  Cardinality(S) \in Nat /\ Cardinality(T) \in Nat /\ Cardinality(S) <= Cardinality(T)
  <1>1. IsFiniteSet(T)
    BY FS_Subset, GcpPoolAssumption
  <1>2. IsFiniteSet(S)
    BY <1>1, FS_Subset
  <1> QED
    BY <1>1, <1>2, FS_Subset, FS_CardinalityType

\* A slot is counted for every account that uses it or whose task will give it back.
LEMMA EnoughStep == TypeOK /\ Shape /\ Unique /\ Enough /\ [Next]_vars => Enough'
  <1> SUFFICES ASSUME TypeOK, Shape, Unique, Enough, [Next]_vars, NEW p \in Projects, p \notin overfreed'
               PROVE  count'[p] >= Cardinality(Claims(p)')
    BY DEF Enough
  <1>a. overfreed \subseteq overfreed'
    BY DEF Next, HandleConnect, HandleCallback, OutlookCallback, DiscRead, DiscFree, DiscClear,
           DiscAgain, vars
  <1>b. count[p] >= Cardinality(Claims(p)) /\ p \notin overfreed
    BY <1>a DEF Enough
  <1>c. /\ count[p] \in Nat /\ Cardinality(Claims(p)) \in Nat
        /\ Claims(p) \in SUBSET Accounts /\ IsFiniteSet(Claims(p))
    BY Sets DEF TypeOK
  \* A step that counts nobody and adds no claim.
  <1>d. ASSUME count'[p] = count[p], Claims(p)' \in SUBSET Claims(p)
        PROVE  count'[p] >= Cardinality(Claims(p)')
    BY <1>b, <1>c, <1>d, Subsets
  <1>1. ASSUME NEW a \in Accounts, NEW k \in Pages, HandleConnect(a, k)
        PROVE  count'[p] >= Cardinality(Claims(p)')
    BY <1>1, <1>d DEF HandleConnect, Claims, Users, Freed, row
  <1>2. ASSUME NEW k \in Pages, HandleCallback(k)
        PROVE  count'[p] >= Cardinality(Claims(p)')
    <2> DEFINE a == page[k].account  q == page[k].project
    <2>1. a \in Accounts /\ q \in Projects
      BY <1>2 DEF HandleCallback, TypeOK, OAuthState
    <2>2. task' = task /\ project' = [project EXCEPT ![a] = q]
          /\ provider' = [provider EXCEPT ![a] = "gmail"]
          /\ count' = [count EXCEPT ![q] = count[q] + 1]
      BY <1>2 DEF HandleCallback, Taken
    <2>3. CASE p = q
      <3>1. Claims(p)' \in SUBSET (Claims(p) \cup {a})
        BY <2>1, <2>2 DEF Claims, Users, Freed, TypeOK
      <3>2. /\ IsFiniteSet(Claims(p) \cup {a})
            /\ Cardinality(Claims(p) \cup {a}) <= Cardinality(Claims(p)) + 1
        <4>1. /\ IsFiniteSet(Claims(p) \cup {a})
              /\ Cardinality(Claims(p) \cup {a}) = IF a \in Claims(p) THEN Cardinality(Claims(p))
                                                    ELSE Cardinality(Claims(p)) + 1
          BY <1>c, FS_AddElement
        <4> QED
          BY <1>c, <4>1
      <3>3. Cardinality(Claims(p)') <= Cardinality(Claims(p) \cup {a})
        BY <1>c, <2>1, <3>1, Subsets
      <3>4. Cardinality(Claims(p)') \in Nat /\ Cardinality(Claims(p) \cup {a}) \in Nat
        BY <1>c, <2>1, <3>1, Subsets
      <3>5. count'[p] = count[p] + 1
        BY <2>1, <2>2, <2>3 DEF TypeOK
      <3> QED
        BY <1>b, <1>c, <3>2, <3>3, <3>4, <3>5
    <2>4. CASE p # q
      <3>1. Claims(p)' \in SUBSET Claims(p)
        BY <2>1, <2>2, <2>4 DEF Claims, Users, Freed, TypeOK
      <3>2. count'[p] = count[p]
        BY <2>1, <2>2, <2>4 DEF TypeOK
      <3> QED
        BY <1>d, <3>1, <3>2
    <2> QED
      BY <2>3, <2>4
  <1>3. ASSUME NEW a \in Accounts, OutlookCallback(a)
        PROVE  count'[p] >= Cardinality(Claims(p)')
    <2>1. Claims(p)' \in SUBSET Claims(p)
      BY <1>3 DEF OutlookCallback, Claims, Users, Freed, TypeOK
    <2> QED
      BY <1>3, <1>d, <2>1 DEF OutlookCallback
  <1>4. ASSUME NEW t \in Tasks, NEW a \in Accounts, DiscRead(t, a)
        PROVE  count'[p] >= Cardinality(Claims(p)')
    <2>1. \A u \in Tasks : u # t => task'[u] = task[u]
      BY <1>4 DEF DiscRead, TypeOK
    <2>2. /\ task[t].pc = "idle" /\ task'[t].account = a
          /\ project' = project /\ provider' = provider /\ count' = count
      BY <1>4 DEF DiscRead, At, row, TypeOK
    <2>3. /\ task'[t].pc # "freed"
          /\ task'[t].pc = "cleanup" => a \in Users(task'[t].slot)
      BY <1>4 DEF DiscRead, GivesBack, Users, TypeOK
    <2>4. Users(p)' = Users(p)
      BY <2>2 DEF Users
    <2>5. \A b : Freed(b, p) => Freed(b, p)'
      BY <2>1, <2>2 DEF Freed
    <2>6. Claims(p)' \in SUBSET Claims(p)
      BY <2>1, <2>2, <2>3, <2>4, <2>5 DEF Claims
    <2> QED
      BY <1>d, <2>2, <2>6
  <1>5. ASSUME NEW t \in Tasks, DiscFree(t)
        PROVE  count'[p] >= Cardinality(Claims(p)')
    <2> PICK a \in Accounts, q \in Projects : a = task[t].account /\ q = task[t].slot
      BY <1>5, TaskFields DEF DiscFree, At, TypeOK
    <2>1. \A u \in Tasks : u # t => task'[u] = task[u]
      BY <1>5 DEF DiscFree, TypeOK
    <2>2. /\ task[t].pc = "cleanup" /\ task[t].account = a /\ task[t].slot = q
          /\ project' = project /\ provider' = provider
      BY <1>5, TaskFields DEF DiscFree, At, row, TypeOK
    <2>3. /\ task'[t].account = a /\ task'[t].pc # "cleanup"
          /\ task'[t].pc = "freed" => task'[t].slot = q
      BY <1>5, TaskFields DEF DiscFree, At, TypeOK
    <2>4. Users(p)' = Users(p)
      BY <2>2 DEF Users
    <2>5. \A b : Freed(b, p) => Freed(b, p)'
      BY <2>1, <2>2 DEF Freed
    <2>6. Claims(p)' \in SUBSET Claims(p)
      BY <2>1, <2>3, <2>4, <2>5 DEF Claims
    <2>7. CASE count' = [count EXCEPT ![q] = Lower(count[q])] /\ task'[t].pc = "freed" /\ p = q
      <3>1. a \in Claims(p)
        BY <2>2, <2>7, <1>b DEF Claims, Freed, Unique
      <3>2. Freed(a, p)'
        BY <2>3, <2>7 DEF Freed
      <3>3. Claims(p)' \in SUBSET (Claims(p) \ {a})
        BY <2>6, <3>2 DEF Claims
      <3>4. Cardinality(Claims(p) \ {a}) = Cardinality(Claims(p)) - 1
        <4>1. Cardinality(Claims(p) \ {a}) = IF a \in Claims(p) THEN Cardinality(Claims(p)) - 1
                                             ELSE Cardinality(Claims(p))
          BY <1>c, FS_RemoveElement
        <4> QED
          BY <3>1, <4>1
      <3>5. /\ Cardinality(Claims(p)') <= Cardinality(Claims(p) \ {a})
            /\ Cardinality(Claims(p)') \in Nat /\ Cardinality(Claims(p) \ {a}) \in Nat
        BY <1>c, <3>3, Subsets
      <3>6. count'[p] = count[p] - 1
        BY <1>b, <1>c, <2>2, <2>7, <3>4, <3>5 DEF Lower, TypeOK
      <3> QED
        BY <1>b, <1>c, <3>4, <3>5, <3>6
    <2>8. CASE count' = [count EXCEPT ![q] = Lower(count[q])] /\ p # q
      BY <1>d, <2>2, <2>6, <2>8 DEF TypeOK
    <2>9. CASE count' = count
      BY <1>d, <2>6, <2>9
    <2>10. \/ task'[t].pc = "freed" /\ count' = [count EXCEPT ![q] = Lower(count[q])]
           \/ count' = count
      BY <1>5, <2>2, TaskFields DEF DiscFree, TypeOK
    <2> QED
      BY <2>7, <2>8, <2>9, <2>10
  <1>6. ASSUME NEW t \in Tasks, DiscClear(t)
        PROVE  count'[p] >= Cardinality(Claims(p)')
    <2>1. Claims(p)' \in SUBSET Claims(p)
      <3>1. Users(p)' \in SUBSET Users(p)
        BY <1>6, GcpPoolAssumption DEF DiscClear, Cleared, Users, TypeOK
      <3>2. \A u \in Tasks : u # t => task'[u] = task[u]
        BY <1>6 DEF DiscClear, TypeOK
      <3>3. task'[t].pc = "idle"
        BY <1>6 DEF DiscClear, NoTask, TypeOK
      <3>4. ASSUME NEW b \in Accounts, b \in Claims(p)', Freed(b, p)
            PROVE  FALSE
        <4>1. task[t].pc = "freed" /\ task[t].account = b /\ task[t].slot = p
          BY <3>2, <3>4 DEF Claims, Freed
        <4>2. project'[b] = None
          BY <1>6, <4>1 DEF DiscClear, Cleared, Shape, TypeOK
        <4>3. b \notin Users(p)'
          BY <4>2, GcpPoolAssumption DEF Users
        <4>4. PICK u \in Tasks : task[u].pc = "cleanup" /\ task[u].account = b /\ task[u].slot = p
          BY <3>2, <3>3, <3>4, <4>3 DEF Claims
        <4> QED
          BY <1>b, <4>1, <4>4 DEF Unique
      <3> QED
        BY <3>1, <3>2, <3>3, <3>4 DEF Claims
    <2> QED
      BY <1>6, <1>d, <2>1 DEF DiscClear
  <1>7. ASSUME NEW t \in Tasks, DiscAgain(t)
        PROVE  count'[p] >= Cardinality(Claims(p)')
    <2>1. Claims(p)' \in SUBSET Claims(p)
      <3>1. Users(p)' \in SUBSET Users(p)
        BY <1>7, GcpPoolAssumption DEF DiscAgain, Cleared, Users, TypeOK, row
      <3>2. \A u \in Tasks : u # t => task'[u] = task[u]
        BY <1>7 DEF DiscAgain, TypeOK
      <3>3. task'[t].pc = "idle"
        BY <1>7 DEF DiscAgain, NoTask, TypeOK
      <3>4. task[t].pc = "freed" => task[t].slot # p
        BY <1>7 DEF DiscAgain
      <3>5. \A b : Freed(b, p) => Freed(b, p)'
        BY <3>2, <3>4 DEF Freed
      <3> QED
        BY <3>1, <3>2, <3>3, <3>5 DEF Claims
    <2> QED
      BY <1>7, <1>d, <2>1 DEF DiscAgain
  <1>8. CASE UNCHANGED vars
    BY <1>8, <1>d DEF vars, row, Claims, Users, Freed
  <1> QED
    BY <1>1, <1>2, <1>3, <1>4, <1>5, <1>6, <1>7, <1>8 DEF Next
\* Every slot that is counted belongs to an account that uses it.
LEMMA NotLeakedStep == TypeOK /\ Shape /\ Known /\ NotLeaked /\ [Next]_vars => NotLeaked'
  <1> SUFFICES ASSUME TypeOK, Shape, Known, NotLeaked, [Next]_vars, NEW p \in Projects, p \notin leaked'
               PROVE  count'[p] <= Cardinality(Using(p)')
    BY DEF NotLeaked
  <1>a. leaked \subseteq leaked'
    BY DEF Next, HandleConnect, HandleCallback, OutlookCallback, DiscRead, DiscFree, DiscClear,
           DiscAgain, vars
  <1>b. count[p] <= Cardinality(Using(p)) /\ p \notin leaked
    BY <1>a DEF NotLeaked
  <1>c. /\ count[p] \in Nat /\ Cardinality(Using(p)) \in Nat
        /\ Using(p) \in SUBSET Accounts /\ IsFiniteSet(Using(p))
    BY Sets DEF TypeOK
  <1>e. Using(p)' \in SUBSET Accounts
    BY DEF Using, Users
  \* A step that counts nobody and takes no account's slot away.
  <1>d. ASSUME count'[p] = count[p], Using(p) \in SUBSET Using(p)'
        PROVE  count'[p] <= Cardinality(Using(p)')
    BY <1>b, <1>c, <1>d, <1>e, Subsets
  <1>1. ASSUME NEW a \in Accounts, NEW k \in Pages, HandleConnect(a, k)
        PROVE  count'[p] <= Cardinality(Using(p)')
    BY <1>1, <1>d DEF HandleConnect, Using, Users, Freed, row
  <1>2. ASSUME NEW k \in Pages, HandleCallback(k)
        PROVE  count'[p] <= Cardinality(Using(p)')
    <2> PICK a \in Accounts, q \in Projects : a = page[k].account /\ q = page[k].project
      BY <1>2 DEF HandleCallback, TypeOK, OAuthState
    <2>1. /\ task' = task /\ project' = [project EXCEPT ![a] = q]
          /\ provider' = [provider EXCEPT ![a] = "gmail"]
          /\ count' = [count EXCEPT ![q] = count[q] + 1]
      BY <1>2 DEF HandleCallback, Taken
    <2>2. project[a] # p
      BY <1>2, GcpPoolAssumption DEF HandleCallback, Named
    <2>3. CASE p = q
      <3>1. ~Freed(a, p)
        <4> SUFFICES ASSUME Freed(a, p) PROVE FALSE
          OBVIOUS
        <4>1. Leaving(a) # {}
          BY DEF Freed, Leaving, Running
        <4> QED
          BY <1>2, <2>3, <4>1 DEF HandleCallback
      <3>2. Using(p)' = Using(p) \cup {a}
        <4>1. Users(p)' = Users(p) \cup {a}
          BY <2>1, <2>3 DEF Users, TypeOK
        <4>2. \A b : Freed(b, p)' <=> Freed(b, p)
          BY <2>1 DEF Freed
        <4> QED
          BY <3>1, <4>1, <4>2 DEF Using
      <3>3. a \notin Using(p)
        BY <2>2 DEF Using, Users
      <3>4. Cardinality(Using(p) \cup {a}) = IF a \in Using(p) THEN Cardinality(Using(p))
                                             ELSE Cardinality(Using(p)) + 1
        BY <1>c, FS_AddElement
      <3>5. count'[p] = count[p] + 1
        BY <2>1, <2>3 DEF TypeOK
      <3> QED
        BY <1>b, <1>c, <3>2, <3>3, <3>4, <3>5
    <2>4. CASE p # q
      <3>1. Using(p) \in SUBSET Using(p)'
        BY <2>1, <2>2, <2>4 DEF Using, Users, Freed, TypeOK
      <3>2. count'[p] = count[p]
        BY <2>1, <2>4 DEF TypeOK
      <3> QED
        BY <1>d, <3>1, <3>2
    <2> QED
      BY <2>3, <2>4
  <1>3. ASSUME NEW a \in Accounts, OutlookCallback(a)
        PROVE  count'[p] <= Cardinality(Using(p)')
    <2>1. project[a] # p
      BY <1>3, GcpPoolAssumption DEF OutlookCallback, Named
    <2>2. Using(p) \in SUBSET Using(p)'
      BY <1>3, <2>1 DEF OutlookCallback, Using, Users, Freed, TypeOK
    <2> QED
      BY <1>3, <1>d, <2>2 DEF OutlookCallback
  <1>4. ASSUME NEW t \in Tasks, NEW a \in Accounts, DiscRead(t, a)
        PROVE  count'[p] <= Cardinality(Using(p)')
    <2>1. \A u \in Tasks : u # t => task'[u] = task[u]
      BY <1>4 DEF DiscRead, TypeOK
    <2>2. task'[t].pc # "freed"
      BY <1>4 DEF DiscRead, TypeOK
    <2>3. Users(p)' = Users(p)
      BY <1>4 DEF DiscRead, Users, row
    <2>4. \A b : Freed(b, p)' => Freed(b, p)
      BY <2>1, <2>2 DEF Freed
    <2>5. Using(p) \in SUBSET Using(p)'
      BY <2>3, <2>4 DEF Using
    <2> QED
      BY <1>4, <1>d, <2>5 DEF DiscRead
  <1>5. ASSUME NEW t \in Tasks, DiscFree(t)
        PROVE  count'[p] <= Cardinality(Using(p)')
    <2> PICK a \in Accounts, q \in Projects : a = task[t].account /\ q = task[t].slot
      BY <1>5, TaskFields DEF DiscFree, At, TypeOK
    <2>1. \A u \in Tasks : u # t => task'[u] = task[u]
      BY <1>5 DEF DiscFree, TypeOK
    <2>2. Users(p)' = Users(p)
      BY <1>5 DEF DiscFree, Users, row
    <2>3. CASE count' = [count EXCEPT ![q] = Lower(count[q])] /\ task' = [task EXCEPT ![t].pc = "freed"]
      <3>1. task'[t].account = a /\ task'[t].slot = q
        BY <1>5, <2>3, TaskFields DEF DiscFree, At, TypeOK
      <3>2. CASE p # q
        <4>1. \A b : Freed(b, p)' => Freed(b, p)
          BY <2>1, <3>1, <3>2 DEF Freed
        <4>2. Using(p) \in SUBSET Using(p)'
          BY <2>2, <4>1 DEF Using
        <4> QED
          BY <1>d, <2>3, <3>2, <4>2 DEF TypeOK
      <3>3. CASE p = q
        <4>1. \A b \in Accounts : b # a => (Freed(b, p)' => Freed(b, p))
          BY <2>1, <3>1 DEF Freed
        <4>2. Using(p) \ {a} \in SUBSET Using(p)'
          BY <2>2, <4>1 DEF Using, Users
        <4>3. Cardinality(Using(p) \ {a}) = IF a \in Using(p) THEN Cardinality(Using(p)) - 1
                                            ELSE Cardinality(Using(p))
          BY <1>c, FS_RemoveElement
        <4>4. /\ Cardinality(Using(p) \ {a}) <= Cardinality(Using(p)')
              /\ Cardinality(Using(p) \ {a}) \in Nat /\ Cardinality(Using(p)') \in Nat
          BY <1>e, <4>2, Subsets
        <4>5. count'[p] = IF count[p] > 0 THEN count[p] - 1 ELSE 0
          BY <2>3, <3>3 DEF Lower, TypeOK
        <4> QED
          BY <1>b, <1>c, <4>3, <4>4, <4>5
      <3> QED
        BY <3>2, <3>3
    <2>4. CASE count' = count /\ task' = [task EXCEPT ![t].pc = "clear", ![t].slot = None]
      <3>1. task'[t].pc # "freed"
        BY <1>5, <2>4, TaskFields DEF DiscFree, At, TypeOK
      <3>2. \A b : Freed(b, p)' => Freed(b, p)
        BY <2>1, <3>1 DEF Freed
      <3>3. Using(p) \in SUBSET Using(p)'
        BY <2>2, <3>2 DEF Using
      <3> QED
        BY <1>d, <2>4, <3>3
    <2> QED
      BY <1>5, <2>3, <2>4 DEF DiscFree
  <1>6. ASSUME NEW t \in Tasks, DiscClear(t)
        PROVE  count'[p] <= Cardinality(Using(p)')
    <2>1. Using(p) \in SUBSET Using(p)'
      <3> SUFFICES ASSUME NEW b \in Accounts, b \in Using(p)
                   PROVE  b \in Using(p)'
        BY DEF Using, Users
      <3>1. project[b] = p /\ provider[b] = "gmail" /\ ~Freed(b, p)
        BY DEF Using, Users
      <3>2. ~Freed(b, p)'
        BY <1>6, <3>1 DEF DiscClear, Freed, NoTask, TypeOK
      <3>3. task[t].account = b /\ task[t].pc # "idle" => task[t].slot = p
        BY <1>b, <3>1, GcpPoolAssumption DEF Known
      <3>4. task[t].account = b => task[t].pc # "freed" \/ task[t].slot # p
        BY <3>1 DEF Freed
      <3>5. project'[b] = p /\ provider'[b] = "gmail"
        BY <1>6, <3>1, <3>3, <3>4, TaskFields, GcpPoolAssumption
           DEF DiscClear, Cleared, Shape, TypeOK, row
      <3> QED
        BY <3>2, <3>5 DEF Using, Users
    <2> QED
      BY <1>6, <1>d, <2>1 DEF DiscClear
  <1>7. ASSUME NEW t \in Tasks, DiscAgain(t)
        PROVE  count'[p] <= Cardinality(Using(p)')
    <2>1. Using(p) \in SUBSET Using(p)'
      <3> SUFFICES ASSUME NEW b \in Accounts, b \in Using(p)
                   PROVE  b \in Using(p)'
        BY DEF Using, Users
      <3>1. project[b] = p /\ provider[b] = "gmail" /\ ~Freed(b, p)
        BY DEF Using, Users
      <3>2. ~Freed(b, p)'
        BY <1>7, <3>1 DEF DiscAgain, Freed, NoTask, TypeOK
      <3>3. task[t].account = b /\ task[t].pc # "idle" => task[t].slot = p
        BY <1>b, <3>1, GcpPoolAssumption DEF Known
      <3>4. task[t].account = b => task[t].pc # "freed" \/ task[t].slot # p
        BY <3>1 DEF Freed
      <3>5. project'[b] = p /\ provider'[b] = "gmail"
        BY <1>7, <3>1, <3>3, <3>4, TaskFields, GcpPoolAssumption
           DEF DiscAgain, Running, Cleared, Shape, TypeOK, row
      <3> QED
        BY <3>2, <3>5 DEF Using, Users
    <2> QED
      BY <1>7, <1>d, <2>1 DEF DiscAgain
  <1>8. CASE UNCHANGED vars
    BY <1>8, <1>d DEF vars, row, Using, Users, Freed
  <1> QED
    BY <1>1, <1>2, <1>3, <1>4, <1>5, <1>6, <1>7, <1>8 DEF Next

\* Initially nothing is counted and no row names a project.
LEMMA IInvInit == Init => IInv
  <1> SUFFICES ASSUME Init PROVE IInv
    OBVIOUS
  <1>1. TypeOK
    BY TypeInit
  <1>2. Shape /\ Unique /\ Known /\ Moved
    BY DEF Init, Shape, Unique, Known, Moved, NoTask
  <1>3. ASSUME NEW p \in Projects
        PROVE  Claims(p) = {} /\ Using(p) = {} /\ count[p] = 0
    BY <1>3, GcpPoolAssumption DEF Init, Claims, Using, Users, NoTask
  <1>4. Enough /\ NotLeaked
    BY <1>3, FS_EmptySet DEF Enough, NotLeaked
  <1> QED
    BY <1>1, <1>2, <1>4 DEF IInv

LEMMA IInvStep == IInv /\ [Next]_vars => IInv'
  BY TypeStep, ShapeStep, UniqueStep, KnownStep, MovedStep, EnoughStep, NotLeakedStep DEF IInv

\* The accounts that use a slot have a claim to it.
LEMMA EnoughCounted == TypeOK /\ Enough => NotUndercounted
  <1> SUFFICES ASSUME TypeOK, Enough, NEW p \in Projects \ overfreed
               PROVE  count[p] >= Cardinality(Using(p))
    BY DEF NotUndercounted
  <1>1. Using(p) \in SUBSET Claims(p)
    BY DEF Using, Claims, Users
  <1>2. /\ Cardinality(Using(p)) <= Cardinality(Claims(p))
        /\ Cardinality(Using(p)) \in Nat /\ Cardinality(Claims(p)) \in Nat
    BY <1>1, Sets, Subsets
  <1> QED
    BY <1>2 DEF Enough, TypeOK

\* No project has more accounts than it counts, unless a slot of it was given back twice.
THEOREM PoolNotUndercounted == Spec => []NotUndercounted
  <1>1. IInv => NotUndercounted
    BY EnoughCounted DEF IInv
  <1> QED
    BY <1>1, IInvInit, IInvStep, PTL DEF Spec

\* No project counts more accounts than it has, unless a slot of it has leaked.
THEOREM PoolNotLeaked == Spec => []NotLeaked
  <1>1. IInv => NotLeaked
    BY DEF IInv
  <1> QED
    BY <1>1, IInvInit, IInvStep, PTL DEF Spec
=============================================================================
