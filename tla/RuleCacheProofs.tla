--------------------------- MODULE RuleCacheProofs ---------------------------
(* Theorems of RuleCache, for any number of tenants, callers and edits.      *)
EXTENDS RuleCache, TLAPS

USE CacheAssumption DEF CacheAssumption

\* TypeOK is kept by every step of the monolith, the callers and the listener.
THEOREM TypeCorrect == Spec => []TypeOK
<1>1. Init => TypeOK
  BY DEF Init, TypeOK, Idle, Reader
<1>2. TypeOK /\ [Next]_vars => TypeOK'
  <2>. SUFFICES ASSUME TypeOK, [Next]_vars PROVE TypeOK'
    OBVIOUS
  <2>. USE DEF TypeOK
  <2>1. ASSUME NEW t \in Tenants, Edit(t) PROVE TypeOK'
    BY <2>1 DEF Edit
  <2>2. ASSUME NEW t \in Tenants, PublishInvalidation(t) PROVE TypeOK'
    BY <2>2 DEF PublishInvalidation
  <2>3. ASSUME NEW t \in Tenants, Invalidate(t) PROVE TypeOK'
    BY <2>3 DEF Invalidate, Invalidated
  <2>4. ASSUME NEW t \in Tenants, Lose(t) PROVE TypeOK'
    BY <2>4 DEF Lose, Fault
  <2>5. ASSUME NEW r \in Readers, NEW t \in Tenants, Load(r, t) PROVE TypeOK'
    BY <2>5 DEF Load, Idle, Reader
  <2>6. ASSUME NEW r \in Readers, Query(r) PROVE TypeOK'
    <3>1. reader[r].tenant \in Tenants /\ faults' \in 0..MaxFaults
      BY <2>6 DEF Query, Fault
    <3>2. ASSUME NEW l \in List,
                 reader' = [reader EXCEPT ![r].pc = "store", ![r].list = l]
          PROVE  /\ reader' \in [Readers -> Reader]
                 /\ \A q \in Readers :
                      /\ reader'[q].pc # "idle" => reader'[q].tenant \in Tenants
                      /\ reader'[q].pc = "store" => reader'[q].list \in List
      <4>. DEFINE stored == [reader[r] EXCEPT !.pc = "store"]
      <4>1. stored \in Reader
        BY DEF Reader
      <4>2. [stored EXCEPT !.list = l] \in Reader
        <5>. HIDE DEF stored
        <5>. QED BY <4>1, <3>2 DEF Reader
      <4>3. reader' = [reader EXCEPT ![r] = [stored EXCEPT !.list = l]]
        BY <3>2
      <4>. QED BY <3>1, <3>2, <4>2, <4>3 DEF Reader
    <3>3. Reads(reader[r].tenant) \subseteq List /\ CutReads(reader[r].tenant) \subseteq List
      BY <3>1 DEF Reads, CutReads, List
    <3>4. CASE reader' = [reader EXCEPT ![r] = Idle]
      BY <2>6, <3>1, <3>4 DEF Query, Idle, Reader
    <3>. QED BY <2>6, <3>1, <3>2, <3>3, <3>4 DEF Query
  <2>7. ASSUME NEW r \in Readers, Store(r) PROVE TypeOK'
    BY <2>7 DEF Store, Idle, Reader
  <2>8. CASE UNCHANGED vars
    BY <2>8 DEF vars
  <2>. QED
    BY <2>1, <2>2, <2>3, <2>4, <2>5, <2>6, <2>7, <2>8 DEF Next, GetRules
<1>. QED BY <1>1, <1>2, PTL DEF Spec

\* StaleOnlyIfRacedOrLost: without a race or a lost message the cache never serves
\* rules older than the table's once the invalidation has arrived.
THEOREM StaleExplained == Spec => []StaleOnlyIfRacedOrLost
<1>1. Init => StaleInv
  BY DEF Init, StaleInv, StaleOnlyIfRacedOrLost, Idle
<1>2. TypeOK /\ TypeOK' /\ StaleInv /\ [Next]_vars => StaleInv'
  <2>. SUFFICES ASSUME TypeOK, TypeOK', StaleInv, [Next]_vars PROVE StaleInv'
    OBVIOUS
  <2>. USE DEF StaleInv, StaleOnlyIfRacedOrLost, Outdated, Explained, Outstanding
  <2>1. ASSUME NEW t \in Tenants, Edit(t) PROVE StaleInv'
    BY <2>1 DEF Edit, TypeOK, List
  <2>2. ASSUME NEW t \in Tenants, PublishInvalidation(t) PROVE StaleInv'
    BY <2>2 DEF PublishInvalidation, TypeOK
  <2>3. ASSUME NEW t \in Tenants, Invalidate(t) PROVE StaleInv'
    <3>1. /\ UNCHANGED <<version, unsent, reader>>
          /\ cache'[t] = Absent
          /\ \A u \in Tenants \ {t} : cache'[u] = cache[u]
      BY <2>3 DEF Invalidate, Invalidated, TypeOK
    <3>2. \A u \in Tenants \ {t} : Explained(u) => Explained(u)'
      BY <2>3 DEF Invalidate, TypeOK
    <3>3. \A r \in Readers : reader[r].pc = "store" /\ reader[r].tenant = t => t \in raced'
      BY <2>3 DEF Invalidate, Filling
    <3>4. StaleOnlyIfRacedOrLost'
      <4>. SUFFICES ASSUME NEW u \in Tenants, cache'[u] # Absent, Outdated(u, cache[u])'
                    PROVE  Explained(u)'
        BY Zenon DEF StaleOnlyIfRacedOrLost
      <4>1. u # t
        BY <3>1
      <4>. QED BY <3>1, <3>2, <4>1
    <3>5. ASSUME NEW r \in Readers, reader[r].pc = "store",
                 Outdated(reader[r].tenant, reader[r].list)
          PROVE  Explained(reader[r].tenant)'
      <4>1. reader[r].tenant \in Tenants /\ Explained(reader[r].tenant)
        BY <3>5 DEF TypeOK
      <4>. QED BY <3>1, <3>2, <3>3, <3>5, <4>1
    <3>. QED BY <3>1, <3>4, <3>5
  <2>4. ASSUME NEW t \in Tenants, Lose(t) PROVE StaleInv'
    BY <2>4 DEF Lose, Fault, TypeOK
  <2>5. ASSUME NEW r \in Readers, NEW t \in Tenants, Load(r, t) PROVE StaleInv'
    BY <2>5 DEF Load, Idle, TypeOK
  <2>6. ASSUME NEW r \in Readers, Query(r) PROVE StaleInv'
    <3>1. reader[r].tenant \in Tenants /\ UNCHANGED <<version, unsent, sent, cache, raced, lost>>
      BY <2>6 DEF Query, TypeOK
    <3>2. \A q \in Readers \ {r} : reader'[q] = reader[q]
      BY <2>6 DEF Query, TypeOK
    <3>3. reader'[r].pc = "store" =>
            /\ reader'[r].tenant = reader[r].tenant
            /\ reader'[r].list.version = version[reader[r].tenant]
      BY <2>6 DEF Query, Reads, CutReads, Idle, TypeOK, Reader
    <3>. QED BY <3>1, <3>2, <3>3 DEF TypeOK
  <2>7. ASSUME NEW r \in Readers, Store(r) PROVE StaleInv'
    BY <2>7 DEF Store, Idle, TypeOK, Reader
  <2>8. CASE UNCHANGED vars
    BY <2>8 DEF vars
  <2>. QED
    BY <2>1, <2>2, <2>3, <2>4, <2>5, <2>6, <2>7, <2>8 DEF Next, GetRules
<1>. QED BY <1>1, <1>2, TypeCorrect, PTL DEF Spec, StaleInv
============================================================================
