------------------------------- MODULE GcpPool -------------------------------
(***************************************************************************)
(* The pool of Google Cloud projects that Gmail accounts share.  A project *)
(* takes so many accounts; master.gcp_projects counts them in active_count *)
(* and an account's row names its project.  The two are written by the     *)
(* OAuth handlers (internal/oauth/google.go, outlook.go) and by the        *)
(* disconnect task (internal/queue/handler.go), which never lock both:     *)
(* a project is chosen when the owner is sent to Google and counted when   *)
(* the owner comes back, and the task works on the row it read first.      *)
(*                                                                         *)
(* A consent page that is open stays open until the owner finishes it, and *)
(* may be visited again.  Left out: what the callback does before its      *)
(* transaction (it neither reads nor writes the count), a fetch that saves *)
(* credentials late (it writes neither column).                            *)
(***************************************************************************)
EXTENDS Integers, FiniteSets

CONSTANTS
  Accounts,
  Projects,    \* ids of rows of gcp_projects
  Limit,       \* 90
  Pages,       \* consent pages: as many as may be open at the same time
  Tasks,       \* "email:disconnect" tasks: as many as may run at the same time
  None,
  MaxRevisits, \* bound: callbacks of a consent page that was used before
  MaxFaults    \* bound: failing calls, lost answers and crashes of a disconnect task

ASSUME GcpPoolAssumption ==
  /\ Projects \subseteq Nat /\ None \notin Projects
  /\ IsFiniteSet(Accounts) /\ IsFiniteSet(Pages)
  /\ Limit \in Nat \ {0} /\ MaxRevisits \in Nat /\ MaxFaults \in Nat

VARIABLES
  count,                      \* active_count of a project
  provider, project, creds,   \* the row of an account; creds: credentials # ''
  page,                       \* page[k]: the state of an open consent page, or None
  task,                       \* task[t]: its next step, and what it keeps of the row it read
  revisits, faults,
  (* history *)
  leaked,     \* projects with a slot that was taken and not given back, by a named cause
  overfreed   \* projects with a slot given back twice, by a named cause

row  == <<provider, project, creds>>
vars == <<count, row, page, task, revisits, faults, leaked, overfreed>>

OAuthState == [account : Accounts, project : Projects]
NoTask     == [pc |-> "idle"]
Task       == {NoTask} \cup [pc : {"cleanup", "freed", "clear"}, account : Accounts,
                            gmail : BOOLEAN, slot : Projects \cup {None}]

Named(p)    == {p} \ {None}
Fault       == faults < MaxFaults /\ faults' = faults + 1
Running(t)  == task[t].pc # "idle"
Leaving(a)  == {t \in Tasks : Running(t) /\ task[t].account = a}

Init ==
  /\ count = [p \in Projects |-> 0]
  /\ provider \in [Accounts -> {"gmail", "outlook"}]
  /\ project = [a \in Accounts |-> None] /\ creds = [a \in Accounts |-> FALSE]
  /\ page = [k \in Pages |-> None]
  /\ task = [t \in Tasks |-> NoTask]
  /\ revisits = 0 /\ faults = 0
  /\ leaked = {} /\ overfreed = {}

-----------------------------------------------------------------------------
(* The OAuth handlers.                                                     *)

\* WHERE active_count < 90
HasRoom_Inclusive(n) == n <= Limit
HasRoom(n)           == n < Limit

\* ORDER BY active_count ASC, id ASC LIMIT 1
Before(p, q) == count[p] < count[q] \/ (count[p] = count[q] /\ p <= q)

HandleConnect(a, k) ==
  /\ page[k] = None
  /\ \E p \in Projects :
       /\ HasRoom(count[p])
       /\ \A q \in Projects : HasRoom(count[q]) => Before(p, q)
       /\ page' = [page EXCEPT ![k] = [account |-> a, project |-> p]]
  /\ UNCHANGED <<count, row, task, revisits, faults, leaked, overfreed>>

Taken_Unlinked(n, a, p) == IF project[a] = None THEN n + 1 ELSE n
Taken(n, a, p)          == n + 1

\* The transaction at the end of HandleCallback.  The page is used up, or its URL is
\* visited again.  Nothing gives back the slot the account had.
HandleCallback(k) ==
  /\ page[k] # None
  /\ LET a == page[k].account  p == page[k].project IN
     /\ project' = [project EXCEPT ![a] = p]
     /\ provider' = [provider EXCEPT ![a] = "gmail"]
     /\ creds' = [creds EXCEPT ![a] = TRUE]
     /\ count' = [count EXCEPT ![p] = Taken(@, a, p)]
     /\ leaked' = leaked \cup Named(project[a]) \cup (IF Leaving(a) # {} THEN {p} ELSE {})
  /\ \/ page' = [page EXCEPT ![k] = None] /\ UNCHANGED revisits
     \/ revisits < MaxRevisits /\ revisits' = revisits + 1 /\ UNCHANGED page
  /\ UNCHANGED <<task, faults, overfreed>>

\* The Outlook callback of an account of either provider leaves gcp_project_id alone.
OutlookCallback(a) ==
  /\ provider' = [provider EXCEPT ![a] = "outlook"]
  /\ creds' = [creds EXCEPT ![a] = TRUE]
  /\ leaked' = leaked \cup Named(project[a])
  /\ UNCHANGED <<count, project, page, task, revisits, faults, overfreed>>

-----------------------------------------------------------------------------
(* HandleEmailDisconnectTask.                                              *)

\* Any number of tasks may be queued, by the owners or again after a failure; a task
\* of Tasks is one that runs.
At(t, pc)   == task[t].pc = pc /\ UNCHANGED <<page, revisits>>

\* GetEmailAccountByID.  cleanupGmailConnection goes on only with credentials and a project.
GivesBack(a) == provider[a] = "gmail" /\ creds[a] /\ project[a] # None

DiscRead(t, a) ==
  /\ At(t, "idle")
  /\ task' = [task EXCEPT ![t] = [pc      |-> IF GivesBack(a) THEN "cleanup" ELSE "clear",
                                 account |-> a,
                                 gmail   |-> provider[a] = "gmail",
                                 slot    |-> IF GivesBack(a) THEN project[a] ELSE None]]
  /\ leaked' = IF provider[a] = "gmail" /\ ~creds[a] THEN leaked \cup Named(project[a]) ELSE leaked
  /\ overfreed' = IF Leaving(a) # {} THEN overfreed \cup Named(project[a]) ELSE overfreed
  /\ UNCHANGED <<count, row, faults>>

\* GREATEST(0, active_count - 1)
Lower_Negative(n) == n - 1
Lower_Never(n)    == n
Lower(n)          == IF n > 0 THEN n - 1 ELSE 0

\* cleanupGmailConnection: after the watch is stopped and the token revoked the slot is
\* given back.  A failure of GetGCPProjectCredentials or of the UPDATE is logged.
DiscFree(t) ==
  /\ At(t, "cleanup")
  /\ LET p == task[t].slot IN
     \/ /\ count' = [count EXCEPT ![p] = Lower(@)]
        /\ task' = [task EXCEPT ![t].pc = "freed"] /\ UNCHANGED <<faults, leaked>>
     \/ /\ Fault /\ leaked' = leaked \cup {p}
        /\ task' = [task EXCEPT ![t].pc = "clear", ![t].slot = None] /\ UNCHANGED count
  /\ UNCHANGED <<row, overfreed>>

\* UPDATE ... SET status = 'DISCONNECTED', credentials = '', and for Gmail gcp_project_id = NULL.
Cleared(t) ==
  /\ creds' = [creds EXCEPT ![task[t].account] = FALSE]
  /\ project' = IF task[t].gmail
                THEN [project EXCEPT ![task[t].account] = None] ELSE project
  /\ UNCHANGED provider

DiscClear(t) ==
  /\ task[t].pc \in {"freed", "clear"}
  /\ Cleared(t)
  /\ task' = [task EXCEPT ![t] = NoTask]
  /\ UNCHANGED <<count, page, revisits, faults, leaked, overfreed>>

\* The UPDATE fails, its answer is lost, or the process dies: asynq runs the task again.
DiscAgain(t) ==
  /\ Running(t) /\ Fault
  /\ \/ UNCHANGED row
     \/ task[t].pc \in {"freed", "clear"} /\ Cleared(t)
  /\ task' = [task EXCEPT ![t] = NoTask]
  /\ overfreed' = IF task[t].pc = "freed" THEN overfreed \cup {task[t].slot} ELSE overfreed
  /\ UNCHANGED <<count, page, revisits, leaked>>

-----------------------------------------------------------------------------
Next ==
  \/ \E a \in Accounts, k \in Pages : HandleConnect(a, k)
  \/ \E k \in Pages : HandleCallback(k)
  \/ \E a \in Accounts : OutlookCallback(a)
  \/ \E t \in Tasks : \/ \E a \in Accounts : DiscRead(t, a)
                      \/ DiscFree(t) \/ DiscClear(t)
                      \/ DiscAgain(t)

Spec == Init /\ [][Next]_vars

-----------------------------------------------------------------------------
(* Properties.                                                             *)

Users(p) == {a \in Accounts : project[a] = p /\ provider[a] = "gmail"}
OpenFor(p) == {k \in Pages : page[k] # None /\ page[k].project = p}
\* A task has given the account's slot back and is about to clear the row.
Freed(a, p) == \E t \in Tasks : task[t].pc = "freed" /\ task[t].account = a /\ task[t].slot = p
Using(p) == {a \in Users(p) : ~Freed(a, p)}

\* Every variable has its type; active_count is never negative.
TypeOK ==
  /\ count \in [Projects -> Nat]
  /\ provider \in [Accounts -> {"gmail", "outlook"}]
  /\ project \in [Accounts -> Projects \cup {None}] /\ creds \in [Accounts -> BOOLEAN]
  /\ page \in [Pages -> OAuthState \cup {None}]
  /\ task \in [Tasks -> Task]
  /\ \A t \in Tasks : task[t].pc \in {"cleanup", "freed"} => task[t].slot # None
  /\ revisits \in 0..MaxRevisits /\ faults \in 0..MaxFaults
  /\ leaked \subseteq Projects /\ overfreed \subseteq Projects

\* A project is chosen while it has room and counted when the owner comes back
\* (google.go 86-92, 311-315), so it can be overbooked: by no more than the pages open
\* at the same time, and the ones that are used twice.
Quota == \A p \in Projects :
  count[p] + Cardinality(OpenFor(p)) <= Limit - 1 + Cardinality(Pages) + revisits

\* No project is given more accounts than it counts - a slot is not free while an account
\* uses it - unless a disconnect task gave it back twice: one that was retried after its
\* UPDATE of the count, or two that read the same row (handler.go 1246, 1350, 1279).
NotUndercounted == \A p \in Projects \ overfreed : count[p] >= Cardinality(Using(p))

\* A slot nobody uses is free, unless it was leaked: by a reconnection of an account that
\* had one, or between the read and the clear of a disconnect task, by a call of the
\* cleanup that failed, or by an account that moved to Outlook (google.go 301-315,
\* outlook.go 228-232, handler.go 1294-1308, 1355).
NotLeaked == \A p \in Projects \ leaked : count[p] <= Cardinality(Using(p))
=============================================================================
