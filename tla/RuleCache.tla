------------------------------ MODULE RuleCache ------------------------------
(***************************************************************************)
(* The read-through cache of the tenants' subject rules                    *)
(* (internal/parser/cache.go): GetRules, called by every fetch and process *)
(* handler and by the Cloudflare pre-check, and the Redis pub/sub listener *)
(* that deletes a tenant's entry.                                          *)
(*                                                                         *)
(* GetRules takes three steps that other goroutines interleave with: Load, *)
(* the query, Store.  The monolith that edits the rules is external: it    *)
(* commits, then publishes the tenant on "email_rules:invalidation".       *)
(* Pub/sub keeps nothing for a subscriber that is not connected.           *)
(***************************************************************************)
EXTENDS Integers, FiniteSets

CONSTANTS
  Tenants,
  Readers,     \* goroutines that may call GetRules at the same time
  Absent,      \* no entry / nothing
  MaxEdits,    \* bound: edits of a tenant's rules
  MaxFaults    \* bound: failing calls and lost pub/sub messages

ASSUME CacheAssumption ==
  /\ MaxEdits \in Nat /\ MaxFaults \in Nat
  /\ Absent \notin Tenants

VARIABLES
  version,    \* version[t]: the rules of t in its email_subject table
  unsent,     \* unsent[t]: edits of t committed and not yet published
  sent,       \* sent[t]: invalidations of t published and not yet delivered
  cache,      \* cache[t]: the entry of t, or Absent
  reader,     \* reader[r]: the GetRules call r is in
  faults,
  (* history *)
  raced,      \* tenants last invalidated while a call held a list it had yet to store
  lost        \* tenants an invalidation of which was lost, and none delivered since

vars == <<version, unsent, sent, cache, reader, faults, raced, lost>>

\* A list of rules is abstracted to the version it was read from, and to whether it
\* holds all its rows; nothing asks for the latter, and a list that does not is served
\* like any other.
List   == [version : Nat, whole : BOOLEAN]
Idle   == [pc |-> "idle", tenant |-> Absent, list |-> Absent]
Reader == [pc : {"idle", "query", "store"}, tenant : Tenants \cup {Absent},
           list : List \cup {Absent}]

Init ==
  /\ version = [t \in Tenants |-> 0]
  /\ unsent = [t \in Tenants |-> 0] /\ sent = [t \in Tenants |-> 0]
  /\ cache = [t \in Tenants |-> Absent]
  /\ reader = [r \in Readers |-> Idle]
  /\ faults = 0
  /\ raced = {} /\ lost = {}

Fault == faults < MaxFaults /\ faults' = faults + 1

-----------------------------------------------------------------------------
(* The monolith.                                                           *)

Edit(t) ==
  /\ version[t] < MaxEdits
  /\ version' = [version EXCEPT ![t] = @ + 1]
  /\ unsent' = [unsent EXCEPT ![t] = @ + 1]
  /\ UNCHANGED <<sent, cache, reader, faults, raced, lost>>

PublishInvalidation(t) ==
  /\ unsent[t] > 0
  /\ unsent' = [unsent EXCEPT ![t] = @ - 1]
  /\ sent' = [sent EXCEPT ![t] = @ + 1]
  /\ UNCHANGED <<version, cache, reader, faults, raced, lost>>

-----------------------------------------------------------------------------
(* GetRules.                                                               *)

\* Load: a hit is returned as it is and changes nothing; a miss goes to the database.
Load(r, t) ==
  /\ reader[r].pc = "idle"
  /\ cache[t] = Absent
  /\ reader' = [reader EXCEPT ![r] = [Idle EXCEPT !.pc = "query", !.tenant = t]]
  /\ UNCHANGED <<version, unsent, sent, cache, faults, raced, lost>>

\* GetTenantSubjectRules: all the rows, or an error.  A connection that breaks while
\* the rows are read ends rows.Next() like the last row does, and rows.Err() is not
\* asked: the rows read so far are returned as the list.
Reads_Nil(t) == {Absent}
Reads(t) == {[version |-> version[t], whole |-> TRUE]}
CutReads(t) == {[version |-> version[t], whole |-> FALSE]}

Query(r) ==
  /\ reader[r].pc = "query"
  /\ \/ \E l \in Reads(reader[r].tenant) :
          reader' = [reader EXCEPT ![r].pc = "store", ![r].list = l]
        /\ UNCHANGED faults
     \/ /\ Fault
        /\ \E l \in CutReads(reader[r].tenant) :
             reader' = [reader EXCEPT ![r].pc = "store", ![r].list = l]
     \/ /\ Fault
        /\ reader' = [reader EXCEPT ![r] = Idle]
  /\ UNCHANGED <<version, unsent, sent, cache, raced, lost>>

Store(r) ==
  /\ reader[r].pc = "store"
  /\ cache' = [cache EXCEPT ![reader[r].tenant] = reader[r].list]
  /\ reader' = [reader EXCEPT ![r] = Idle]
  /\ UNCHANGED <<version, unsent, sent, faults, raced, lost>>

-----------------------------------------------------------------------------
(* StartInvalidationListener.                                              *)

\* A call that has read its list and will store it after the entry is deleted.
Filling(t) == \E r \in Readers : reader[r].pc = "store" /\ reader[r].tenant = t

Invalidated_Kept(t) == cache
Invalidated(t) == [cache EXCEPT ![t] = Absent]

\* Several messages about one tenant wait in the channel and are read one by one.
Invalidate(t) ==
  /\ sent[t] > 0
  /\ sent' = [sent EXCEPT ![t] = @ - 1]
  /\ cache' = Invalidated(t)
  /\ raced' = IF Filling(t) THEN raced \cup {t} ELSE raced \ {t}
  /\ lost' = lost \ {t}
  /\ UNCHANGED <<version, unsent, reader, faults>>

\* Published while the subscription was reconnecting.
Lose(t) ==
  /\ sent[t] > 0 /\ Fault
  /\ sent' = [sent EXCEPT ![t] = @ - 1]
  /\ lost' = lost \cup {t}
  /\ UNCHANGED <<version, unsent, cache, reader, raced>>

-----------------------------------------------------------------------------
GetRules(r) == (\E t \in Tenants : Load(r, t)) \/ Query(r) \/ Store(r)

Next == \/ \E t \in Tenants : Edit(t) \/ PublishInvalidation(t) \/ Invalidate(t) \/ Lose(t)
        \/ \E r \in Readers : GetRules(r)

Spec == Init /\ [][Next]_vars

\* The monolith publishes what it committed, the listener reads its channel, and a
\* call that missed completes.
Fairness == /\ \A t \in Tenants : WF_vars(PublishInvalidation(t)) /\ WF_vars(Invalidate(t))
            /\ \A r \in Readers : WF_vars(Query(r) \/ Store(r))
FairSpec == Spec /\ Fairness

-----------------------------------------------------------------------------
(* Properties.                                                             *)

\* Every variable has its type.
TypeOK ==
  /\ version \in [Tenants -> Nat]
  /\ unsent \in [Tenants -> Nat] /\ sent \in [Tenants -> Nat]
  /\ cache \in [Tenants -> List \cup {Absent}]
  /\ reader \in [Readers -> Reader]
  /\ \A r \in Readers : /\ reader[r].pc # "idle" => reader[r].tenant \in Tenants
                        /\ reader[r].pc = "store" => reader[r].list \in List
  /\ faults \in 0..MaxFaults
  /\ raced \subseteq Tenants /\ lost \subseteq Tenants

Outdated(t, l)  == l.version < version[t]
Outstanding(t)  == unsent[t] > 0 \/ sent[t] > 0
Explained(t)    == Outstanding(t) \/ t \in raced \/ t \in lost

\* Rules older than the table's are served only while an invalidation is still on
\* its way, unless the last one was lost or ran between a call's query and its Store
\* (cache.go 29-34 against 39): then, entries having no expiry, they are served until
\* the next invalidation of the tenant, which always heals the entry.
StaleOnlyIfRacedOrLost ==
  \A t \in Tenants : cache[t] # Absent /\ Outdated(t, cache[t]) => Explained(t)

\* An edit reaches the matching of subjects without a restart: an outdated entry is
\* eventually dropped or replaced, but for the race and the loss above.
EditReachesCache ==
  \A t \in Tenants :
    (cache[t] # Absent /\ Outdated(t, cache[t]))
      ~> \/ cache[t] = Absent \/ ~Outdated(t, cache[t])
         \/ t \in raced \/ t \in lost

-----------------------------------------------------------------------------
\* What makes it inductive: a list that is still to be stored obeys the same rule.
StaleInv ==
  /\ StaleOnlyIfRacedOrLost
  /\ \A r \in Readers :
       LET t == reader[r].tenant
       IN  reader[r].pc = "store" /\ Outdated(t, reader[r].list) => Explained(t)
=============================================================================
