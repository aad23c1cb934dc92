------------------------ MODULE CloudflareRouteProofs ------------------------
(***************************************************************************)
(* Proofs about CloudflareRoute, for any number of mails, mailboxes,       *)
(* deliveries and faults: the types, that an accepted mail is taken care   *)
(* of, and that the route implements Handoff.                              *)
(***************************************************************************)
EXTENDS CloudflareRoute, FiniteSetTheorems, TLAPS

-----------------------------------------------------------------------------
(* The inductive invariant.                                                *)

\* TypeOK but for the bound of the hand-offs, which needs Counted.
Typed ==
  /\ idOf \in [Mails -> MessageIds \cup {None}]
  /\ mailbox \in [Mailboxes -> {"ACTIVE", "other", "token"}] /\ wanted \subseteq Mails
  /\ key \in [MessageIds -> Mails \cup {None}]
  /\ tries \in [Mails -> 0..MaxTries]
  /\ worker \in [Mails -> {"none", "precheck", "forward"} \cup Outcomes]
  /\ hook \in [Mails -> [Tries -> PCs]]
  /\ handoffs \in [Mails -> Nat]
  /\ edits \in 0..MaxEdits /\ faults \in 0..MaxFaults
  /\ \A S \in {bypassed, expired, declined, crossed, spent} : S \subseteq Mails

\* A handler belongs to a delivery that was made and, if it is the last one, forwarded.
Begun == \A m \in Mails :
  /\ worker[m] # "none" => tries[m] > 0
  /\ worker[m] = "precheck" => hook[m][tries[m]] = "none"
  /\ worker[m] = "forward" => Busy(m, tries[m])
  /\ \A k \in Tries : k > tries[m] => hook[m][k] = "none"

\* A handler hands off once, when it ends.
Ended(m) == {k \in Tries : hook[m][k] = "done"}
Counted  == \A m \in Mails : handoffs[m] <= Cardinality(Ended(m))

\* A mail that is past its dedup check was delivered, and is handed off, declined, lost
\* to the key or still in the hands of a handler.  Nothing takes this back.
Past(m, k) == hook[m][k] \in {"rules", "enqueue"}
Taken(m)   == \/ handoffs[m] > 0
              \/ \E k \in Tries : Past(m, k)
              \/ m \in declined \cup crossed \cup spent

\* So is the mail that set a key, and a mail whose sender heard of its acceptance.
KeyTaken  == \A i \in MessageIds, m \in Mails : key[i] = m => m \in Arrived /\ Taken(m)
SaidTaken == \A m \in Mails : worker[m] = "accepted" => Taken(m)

\* A mail is exempt from the promise of Handoff.
Exempted(m) == idOf[m] = None \/ m \in bypassed \cup expired

\* While the key of a mail lives it is the mail's own, at most one handler got past the
\* check, and none once the mail is handed off.
Alone == \A m \in Mails : ~Exempted(m) =>
  /\ handoffs[m] <= 1
  /\ handoffs[m] > 0 => key[idOf[m]] = m /\ \A k \in Tries : ~Past(m, k)
  /\ \A k \in Tries : Past(m, k) =>
       key[idOf[m]] = m /\ \A j \in Tries : Past(m, j) => j = k

-----------------------------------------------------------------------------
(* What a step of a handler does.                                          *)

\* The handler of delivery k of m goes on to pc; nothing else of the handlers moves.
Moved(m, k, pc) == hook' = [hook EXCEPT ![m][k] = pc]

LEMMA MovedHook ==
  ASSUME Typed, NEW m \in Mails, NEW k \in Tries, NEW pc \in PCs, Moved(m, k, pc)
  PROVE  /\ hook' \in [Mails -> [Tries -> PCs]]
         /\ hook'[m][k] = pc
         /\ \A n \in Mails, j \in Tries : n # m \/ j # k => hook'[n][j] = hook[n][j]
<1>1. hook \in [Mails -> [Tries -> PCs]]
  BY DEF Typed
<1>2. hook' = [hook EXCEPT ![m] = [hook[m] EXCEPT ![k] = pc]]
  BY DEF Moved
<1>. QED BY <1>1, <1>2

\* Its answer reaches the worker that waits for it.
Told(m, k, outcome) ==
  worker' = IF worker[m] = "forward" /\ k = tries[m]
            THEN [worker EXCEPT ![m] = outcome] ELSE worker

LEMMA HookStep ==
  ASSUME Typed, NEW m \in Mails, NEW k \in Tries, Hook(m, k)
  PROVE  /\ Busy(m, k)
         /\ UNCHANGED <<idOf, mailbox, wanted, edits, tries, expired>>
         /\ \/ /\ \E pc \in {"dedup", "rules", "enqueue"} : Moved(m, k, pc)
               /\ UNCHANGED <<worker, handoffs>>
            \/ /\ Moved(m, k, "done")
               /\ \E o \in {"accepted", "rejected"} : Told(m, k, o)
               /\ handoffs' \in {handoffs, [handoffs EXCEPT ![m] = @ + 1]}
<1>1. CASE HookLookup(m, k)
  BY <1>1 DEF HookLookup, At, Goto, Answer, Busy, owned, Moved, Told
<1>2. CASE HookDedup(m, k)
  BY <1>2 DEF HookDedup, At, Goto, Answer, Busy, owned, Moved, Told
<1>3. CASE HookRules(m, k)
  BY <1>3 DEF HookRules, Failed, At, Goto, Answer, Busy, owned, Moved, Told
<1>4. CASE HookEnqueue(m, k)
  BY <1>4 DEF HookEnqueue, Failed, At, Goto, Answer, Busy, owned, Moved, Told
<1>. QED BY <1>1, <1>2, <1>3, <1>4 DEF Hook

-----------------------------------------------------------------------------
(* Types.                                                                  *)

LEMMA TypedInit == Init => Typed
  BY CloudflareAssumption DEF Init, Typed, Tries, PCs

LEMMA TypedHook ==
  ASSUME Typed, NEW m \in Mails, NEW k \in Tries, Hook(m, k) PROVE Typed'
<1>1. /\ UNCHANGED <<idOf, mailbox, wanted, edits, tries, expired>>
      /\ handoffs' \in {handoffs, [handoffs EXCEPT ![m] = @ + 1]}
      /\ \E pc \in PCs : Moved(m, k, pc)
      /\ worker' = worker \/ \E o \in {"accepted", "rejected"} : Told(m, k, o)
  BY HookStep DEF PCs
<1>a. handoffs' \in [Mails -> Nat]
  BY <1>1 DEF Typed
<1>2. hook' \in [Mails -> [Tries -> PCs]]
  BY <1>1, MovedHook
<1>3. worker' \in [Mails -> {"none", "precheck", "forward"} \cup Outcomes]
  BY <1>1 DEF Told, Typed, Outcomes
<1>4. CASE HookLookup(m, k)
  BY <1>1, <1>a, <1>2, <1>3, <1>4, CloudflareAssumption DEF HookLookup, At, Fault, Typed
<1>5. CASE HookDedup(m, k)
  BY <1>1, <1>a, <1>2, <1>3, <1>5, CloudflareAssumption, SMTT(40) DEF HookDedup, At, Fault, Typed
<1>6. CASE HookRules(m, k)
  BY <1>1, <1>a, <1>2, <1>3, <1>6, CloudflareAssumption DEF HookRules, Failed, At, Fault, Typed
<1>7. CASE HookEnqueue(m, k)
  BY <1>1, <1>a, <1>2, <1>3, <1>7, CloudflareAssumption DEF HookEnqueue, Failed, At, Fault, Typed
<1>. QED BY <1>4, <1>5, <1>6, <1>7 DEF Hook

LEMMA TypedStep == Typed /\ [Next]_vars => Typed'
<1>. SUFFICES ASSUME Typed, [Next]_vars PROVE Typed'
  OBVIOUS
<1>. USE CloudflareAssumption
<1>1. CASE Edit
  BY <1>1 DEF Edit, Typed, history
<1>2. CASE Crash
  BY <1>2 DEF Crash, Typed, Fault, owned, PCs, Outcomes, Tries
<1>3. ASSUME NEW i \in MessageIds, Expire(i) PROVE Typed'
  BY <1>3 DEF Expire, Typed, owned
<1>4. ASSUME NEW m \in Mails, Deliver(m) PROVE Typed'
  BY <1>4 DEF Deliver, Typed, Fault, owned, history
<1>5. ASSUME NEW m \in Mails, PreCheck(m) PROVE Typed'
  <2>1. hook' \in [Mails -> [Tries -> PCs]]
    <3>1. CASE hook' = hook
      BY <3>1 DEF Typed
    <3>2. CASE hook' = [hook EXCEPT ![m] = [hook[m] EXCEPT ![tries[m]] = "lookup"]]
      BY <3>2 DEF Typed, PCs
    <3>. QED BY <1>5, <3>1, <3>2 DEF PreCheck
  <2>2. worker' \in [Mails -> {"none", "precheck", "forward"} \cup Outcomes]
    BY <1>5 DEF PreCheck, Ends, Typed, Outcomes
  <2>3. faults' \in 0..MaxFaults /\ declined' \subseteq Mails
    BY <1>5 DEF PreCheck, Fault, Typed
  <2>. QED BY <1>5, <2>1, <2>2, <2>3 DEF PreCheck, Typed, owned
<1>6. ASSUME NEW m \in Mails, GiveUp(m) PROVE Typed'
  BY <1>6 DEF GiveUp, Ends, Typed, Fault, owned, history, Outcomes
<1>7. CASE UNCHANGED vars
  BY <1>7 DEF vars, owned, history, Typed
<1>. QED BY <1>1, <1>2, <1>3, <1>4, <1>5, <1>6, <1>7, TypedHook DEF Next

-----------------------------------------------------------------------------
(* Handlers and deliveries.                                                *)

LEMMA BegunInit == Init => Begun
<1>. SUFFICES ASSUME Init, NEW m \in Mails
              PROVE  worker[m] = "none" /\ \A k \in Tries : hook[m][k] = "none"
  BY DEF Begun
<1>. QED BY DEF Init

\* The delivery in hand is one of those made.
LEMMA LastTry ==
  ASSUME Typed, Begun, NEW m \in Mails, worker[m] # "none"
  PROVE  tries[m] \in Tries
<1>1. tries[m] \in 0..MaxTries /\ tries[m] > 0
  BY DEF Typed, Begun
<1>. QED BY <1>1, CloudflareAssumption DEF Tries

LEMMA BegunHook ==
  ASSUME Typed, Begun, NEW m \in Mails, NEW k \in Tries, Hook(m, k) PROVE Begun'
<1>1. Busy(m, k) /\ tries' = tries
  BY HookStep
<1>2. k <= tries[m] /\ tries[m] > 0 /\ (worker[m] = "precheck" => k # tries[m])
  BY <1>1, CloudflareAssumption DEF Begun, Busy, Typed, Tries
<1>3. CASE /\ \E pc \in {"dedup", "rules", "enqueue"} : Moved(m, k, pc)
           /\ UNCHANGED worker
  <2>. PICK pc \in {"dedup", "rules", "enqueue"} : Moved(m, k, pc)
    BY <1>3
  <2>1. /\ hook'[m][k] = pc
        /\ \A n \in Mails, j \in Tries : n # m \/ j # k => hook'[n][j] = hook[n][j]
    BY MovedHook DEF PCs
  <2>. SUFFICES ASSUME NEW n \in Mails
                PROVE  /\ worker[n] = "precheck" => hook'[n][tries[n]] = "none"
                       /\ worker[n] = "forward" => hook'[n][tries[n]] \notin {"none", "done"}
                       /\ \A j \in Tries : j > tries[n] => hook'[n][j] = "none"
    BY <1>1, <1>3 DEF Begun, Busy
  <2>2. worker[n] # "none" => tries[n] \in Tries
    BY LastTry
  <2>3. \A j \in Tries : j > tries[n] => hook'[n][j] = "none"
    BY <1>2, <2>1, CloudflareAssumption DEF Begun, Typed, Tries
  <2>4. worker[n] = "precheck" => hook'[n][tries[n]] = "none"
    BY <1>2, <2>1, <2>2 DEF Begun
  <2>5. worker[n] = "forward" => hook'[n][tries[n]] \notin {"none", "done"}
    BY <2>1, <2>2 DEF Begun, Busy
  <2>. QED BY <2>3, <2>4, <2>5
<1>4. CASE /\ Moved(m, k, "done")
           /\ \E o \in {"accepted", "rejected"} : Told(m, k, o)
  <2>. PICK o \in {"accepted", "rejected"} : Told(m, k, o)
    BY <1>4
  <2>1. /\ hook'[m][k] = "done"
        /\ \A n \in Mails, j \in Tries : n # m \/ j # k => hook'[n][j] = hook[n][j]
    BY <1>4, MovedHook DEF PCs
  <2>2. /\ \A n \in Mails : n # m => worker'[n] = worker[n]
        /\ worker'[m] = worker[m] \/ worker'[m] \in {"accepted", "rejected"}
        /\ worker'[m] = "forward" => k # tries[m]
    BY DEF Told, Typed
  <2>. SUFFICES ASSUME NEW n \in Mails
                PROVE  /\ worker'[n] # "none" => tries[n] > 0
                       /\ worker'[n] = "precheck" => hook'[n][tries[n]] = "none"
                       /\ worker'[n] = "forward" => hook'[n][tries[n]] \notin {"none", "done"}
                       /\ \A j \in Tries : j > tries[n] => hook'[n][j] = "none"
    BY <1>1 DEF Begun, Busy
  <2>3. /\ worker[n] # "none" => tries[n] \in Tries
        /\ worker[n] # "none" => tries[n] > 0
    BY LastTry DEF Begun
  <2>4. worker'[n] # "none" => tries[n] > 0
    BY <1>2, <2>2, <2>3
  <2>5. \A j \in Tries : j > tries[n] => hook'[n][j] = "none"
    BY <1>2, <2>1, CloudflareAssumption DEF Begun, Typed, Tries
  <2>6. worker'[n] = "precheck" => hook'[n][tries[n]] = "none"
    BY <1>2, <2>1, <2>2, <2>3 DEF Begun
  <2>7. worker'[n] = "forward" => hook'[n][tries[n]] \notin {"none", "done"}
    BY <2>1, <2>2, <2>3 DEF Begun, Busy
  <2>. QED BY <2>4, <2>5, <2>6, <2>7
<1>. QED BY <1>3, <1>4, HookStep

LEMMA BegunStep == Typed /\ Begun /\ [Next]_vars => Begun'
<1>. SUFFICES ASSUME Typed, Begun, [Next]_vars PROVE Begun'
  OBVIOUS
<1>. USE CloudflareAssumption
<1>1. CASE Edit
  BY <1>1 DEF Edit, Begun, Busy
<1>2. CASE Crash
  <2>. SUFFICES ASSUME NEW n \in Mails
                PROVE  /\ worker'[n] # "none" => tries[n] > 0
                       /\ worker'[n] = "precheck" => hook'[n][tries[n]] = "none"
                       /\ worker'[n] # "forward"
                       /\ \A j \in Tries : j > tries[n] => hook'[n][j] = "none"
    BY <1>2 DEF Crash, owned, Begun
  <2>1. worker[n] # "none" => tries[n] \in Tries
    BY DEF Begun, Typed, Tries
  <2>. QED BY <1>2, <2>1 DEF Crash, owned, Begun, Busy, Typed, Tries
<1>3. ASSUME NEW i \in MessageIds, Expire(i) PROVE Begun'
  BY <1>3 DEF Expire, Begun, Busy
<1>4. ASSUME NEW m \in Mails, Deliver(m) PROVE Begun'
  <2>1. /\ tries'[m] = tries[m] + 1 /\ tries'[m] \in Tries /\ worker'[m] = "precheck"
        /\ \A n \in Mails : n # m => tries'[n] = tries[n] /\ worker'[n] = worker[n]
        /\ hook' = hook
    BY <1>4 DEF Deliver, Typed, Tries
  <2>2. tries[m] \in Nat /\ hook'[m][tries'[m]] = "none"
    BY <2>1 DEF Begun, Typed
  <2>. SUFFICES ASSUME NEW n \in Mails
                PROVE  /\ worker'[n] # "none" => tries'[n] > 0
                       /\ worker'[n] = "precheck" => hook'[n][tries'[n]] = "none"
                       /\ worker'[n] = "forward" => hook'[n][tries'[n]] \notin {"none", "done"}
                       /\ \A j \in Tries : j > tries'[n] => hook'[n][j] = "none"
    BY DEF Begun, Busy
  <2>3. CASE n # m
    BY <2>1, <2>3 DEF Begun, Busy
  <2>4. CASE n = m
    BY <2>1, <2>2, <2>4 DEF Begun, Tries
  <2>. QED BY <2>3, <2>4
<1>5. ASSUME NEW m \in Mails, PreCheck(m) PROVE Begun'
  <2>a. /\ worker[m] = "precheck" /\ tries' = tries
        /\ \E o : worker' = [worker EXCEPT ![m] = o]
    BY <1>5 DEF PreCheck, Ends
  <2>1. /\ worker[m] = "precheck" /\ tries' = tries /\ tries[m] \in Tries
        /\ \A n \in Mails : n # m => worker'[n] = worker[n]
    BY <2>a, LastTry DEF Typed
  <2>2. CASE worker'[m] = "forward" /\ hook' = [hook EXCEPT ![m][tries[m]] = "lookup"]
    <3>1. /\ hook'[m][tries[m]] = "lookup"
          /\ \A n \in Mails, j \in Tries : n # m \/ j # tries[m] => hook'[n][j] = hook[n][j]
      BY <2>1, <2>2, MovedHook DEF Moved, PCs
    <3>. SUFFICES ASSUME NEW n \in Mails
                  PROVE  /\ worker'[n] # "none" => tries[n] > 0
                         /\ worker'[n] = "precheck" => hook'[n][tries[n]] = "none"
                         /\ worker'[n] = "forward" => hook'[n][tries[n]] \notin {"none", "done"}
                         /\ \A j \in Tries : j > tries[n] => hook'[n][j] = "none"
      BY <2>1 DEF Begun, Busy
    <3>2. worker[n] # "none" => tries[n] \in Tries
      BY DEF Begun, Typed, Tries
    <3>. QED BY <2>1, <2>2, <3>1, <3>2 DEF Begun, Busy, Typed, Tries
  <2>3. CASE worker'[m] \in {"accepted", "rejected"} /\ hook' = hook
    BY <2>1, <2>3 DEF Begun, Busy
  <2>. QED BY <1>5, <2>2, <2>3 DEF PreCheck, Ends, Typed
<1>6. ASSUME NEW m \in Mails, GiveUp(m) PROVE Begun'
  <2>1. /\ tries' = tries /\ hook' = hook /\ worker[m] # "none"
        /\ worker'[m] \in {"rejected", "failed"}
        /\ \A n \in Mails : n # m => worker'[n] = worker[n]
    BY <1>6 DEF GiveUp, Ends, Typed
  <2>. QED BY <2>1 DEF Begun, Busy
<1>7. CASE UNCHANGED vars
  BY <1>7 DEF vars, Begun, Busy
<1>. QED BY <1>1, <1>2, <1>3, <1>4, <1>5, <1>6, <1>7, BegunHook DEF Next

-----------------------------------------------------------------------------
(* The number of hand-offs.                                                *)

LEMMA EndedFinite ==
  ASSUME NEW m \in Mails
  PROVE  IsFiniteSet(Ended(m)) /\ Cardinality(Ended(m)) \in 0..MaxTries
<1>1. IsFiniteSet(Tries) /\ Cardinality(Tries) = MaxTries
  BY FS_Interval, CloudflareAssumption DEF Tries
<1>2. Ended(m) \in SUBSET Tries
  BY DEF Ended
<1>3. IsFiniteSet(Ended(m)) /\ Cardinality(Ended(m)) <= Cardinality(Tries)
  BY <1>1, <1>2, FS_Subset
<1>. QED BY <1>1, <1>3, FS_CardinalityType, CloudflareAssumption

\* A handler that has ended stays so.
LEMMA EndedGrows ==
  ASSUME NEW m \in Mails, Ended(m) \subseteq Ended(m)'
  PROVE  /\ Cardinality(Ended(m)) <= Cardinality(Ended(m)')
         /\ Cardinality(Ended(m)') \in Nat
<1>1. IsFiniteSet(Ended(m)')
  <2>1. IsFiniteSet(Tries) /\ Ended(m)' \in SUBSET Tries
    BY FS_Interval, CloudflareAssumption DEF Tries, Ended
  <2>. QED BY <2>1, FS_Subset
<1>. QED BY <1>1, FS_Subset, FS_CardinalityType

LEMMA CountedHook ==
  ASSUME Typed, Counted, NEW m \in Mails, NEW k \in Tries, Hook(m, k) PROVE Counted'
<1>. SUFFICES ASSUME NEW n \in Mails PROVE handoffs'[n] <= Cardinality(Ended(n)')
  BY DEF Counted
<1>1. handoffs[n] <= Cardinality(Ended(n)) /\ handoffs[n] \in Nat
  BY DEF Counted, Typed
<1>2. Cardinality(Ended(n)) \in Nat
  BY EndedFinite
<1>3. CASE /\ \E pc \in {"dedup", "rules", "enqueue"} : Moved(m, k, pc)
           /\ UNCHANGED handoffs
  <2>1. Ended(n)' = Ended(n)
    BY <1>3, MovedHook, HookStep DEF Ended, Busy, PCs
  <2>. QED BY <1>1, <1>3, <2>1
<1>4. CASE /\ Moved(m, k, "done")
           /\ handoffs' \in {handoffs, [handoffs EXCEPT ![m] = @ + 1]}
  <2>1. CASE n # m
    <3>1. Ended(n)' = Ended(n) /\ handoffs'[n] = handoffs[n]
      BY <1>4, <2>1, MovedHook DEF Ended, PCs, Typed
    <3>. QED BY <1>1, <3>1
  <2>2. CASE n = m
    <3>1. Ended(n)' = Ended(n) \cup {k} /\ k \notin Ended(n)
      BY <1>4, <2>2, MovedHook, HookStep DEF Ended, Busy, PCs
    <3>2. Cardinality(Ended(n)') = Cardinality(Ended(n)) + 1
      BY <3>1, EndedFinite, FS_AddElement
    <3>3. handoffs'[n] <= handoffs[n] + 1
      BY <1>1, <1>4, <2>2 DEF Typed
    <3>4. handoffs'[n] \in Nat
      BY <1>1, <1>4, <2>2 DEF Typed
    <3>. QED BY <1>1, <1>2, <3>2, <3>3, <3>4
  <2>. QED BY <2>1, <2>2
<1>. QED BY <1>3, <1>4, HookStep

LEMMA CountedStep == Typed /\ Begun /\ Counted /\ [Next]_vars => Counted'
<1>. SUFFICES ASSUME Typed, Begun, Counted, [Next]_vars PROVE Counted'
  OBVIOUS
<1>1. ASSUME UNCHANGED handoffs, \A m \in Mails : Ended(m) \subseteq Ended(m)' PROVE Counted'
  <2>. SUFFICES ASSUME NEW m \in Mails PROVE handoffs[m] <= Cardinality(Ended(m)')
    BY <1>1 DEF Counted
  <2>1. handoffs[m] <= Cardinality(Ended(m)) /\ handoffs[m] \in Nat
    BY DEF Counted, Typed
  <2>2. /\ Cardinality(Ended(m)) <= Cardinality(Ended(m)')
        /\ Cardinality(Ended(m)') \in Nat
    BY <1>1, EndedGrows
  <2>3. Cardinality(Ended(m)) \in Nat
    BY EndedFinite
  <2>. QED BY <2>1, <2>2, <2>3
<1>2. CASE UNCHANGED <<handoffs, hook>>
  BY <1>1, <1>2 DEF Ended
<1>3. CASE Edit
  BY <1>2, <1>3 DEF Edit
<1>4. CASE Crash
  BY <1>1, <1>4 DEF Crash, Ended, Busy
<1>5. ASSUME NEW i \in MessageIds, Expire(i) PROVE Counted'
  BY <1>2, <1>5 DEF Expire
<1>6. ASSUME NEW m \in Mails, Deliver(m) PROVE Counted'
  BY <1>2, <1>6 DEF Deliver
<1>7. ASSUME NEW m \in Mails, PreCheck(m) PROVE Counted'
  <2>1. worker[m] = "precheck" /\ UNCHANGED handoffs
    BY <1>7 DEF PreCheck
  <2>2. tries[m] \in Tries /\ hook[m][tries[m]] = "none"
    BY <2>1, LastTry DEF Begun
  <2>3. CASE hook' = hook
    BY <1>2, <2>1, <2>3
  <2>4. CASE Moved(m, tries[m], "lookup")
    <3>1. \A n \in Mails, j \in Tries : n # m \/ j # tries[m] => hook'[n][j] = hook[n][j]
      BY <2>2, <2>4, MovedHook DEF PCs
    <3>. QED BY <1>1, <2>1, <2>2, <3>1 DEF Ended
  <2>. QED BY <1>7, <2>3, <2>4 DEF PreCheck, Moved
<1>8. ASSUME NEW m \in Mails, GiveUp(m) PROVE Counted'
  BY <1>2, <1>8 DEF GiveUp
<1>9. CASE UNCHANGED vars
  BY <1>2, <1>9 DEF vars
<1>. QED BY <1>3, <1>4, <1>5, <1>6, <1>7, <1>8, <1>9, CountedHook DEF Next

-----------------------------------------------------------------------------
(* What is accepted is taken.                                              *)

\* What a mail's handler does to the mail itself.
LEMMA TakenHook ==
  ASSUME Typed, NEW m \in Mails, NEW k \in Tries, Hook(m, k)
  PROVE  /\ Past(m, k) => Taken(m)'
         /\ declined \cup crossed \cup spent \subseteq (declined \cup crossed \cup spent)'
<1>1. CASE HookLookup(m, k)
  BY <1>1 DEF HookLookup, At, Past
<1>2. CASE HookDedup(m, k)
  BY <1>2 DEF HookDedup, At, Past
<1>3. CASE HookRules(m, k)
  <2>1. CASE Goto(m, k, "enqueue")
    <3>1. hook'[m][k] = "enqueue"
      BY <2>1, MovedHook DEF Goto, Moved, PCs
    <3>. QED BY <1>3, <3>1 DEF HookRules, Failed, Taken, Past
  <2>2. CASE m \in declined' \cup spent'
    BY <1>3, <2>2 DEF HookRules, Failed, Taken
  <2>. QED BY <1>3, <2>1, <2>2 DEF HookRules, Failed
<1>4. CASE HookEnqueue(m, k)
  BY <1>4 DEF HookEnqueue, Failed, Taken, Typed
<1>. QED BY <1>1, <1>2, <1>3, <1>4 DEF Hook

LEMMA TakenStays ==
  ASSUME Typed, Begun, [Next]_vars, NEW n \in Mails, Taken(n)
  PROVE  Taken(n)'
<1>1. CASE UNCHANGED <<handoffs, hook, declined, crossed, spent>>
  BY <1>1 DEF Taken, Past
<1>2. CASE Edit
  BY <1>1, <1>2 DEF Edit, history
<1>3. CASE Crash
  BY <1>3 DEF Crash, Taken, Past, Typed
<1>4. ASSUME NEW i \in MessageIds, Expire(i) PROVE Taken(n)'
  BY <1>1, <1>4 DEF Expire
<1>5. ASSUME NEW m \in Mails, Deliver(m) PROVE Taken(n)'
  BY <1>1, <1>5 DEF Deliver, history
<1>6. ASSUME NEW m \in Mails, PreCheck(m) PROVE Taken(n)'
  <2>1. /\ worker[m] = "precheck" /\ UNCHANGED <<handoffs, crossed, spent>>
        /\ declined \subseteq declined'
    BY <1>6 DEF PreCheck
  <2>2. tries[m] \in Tries /\ hook[m][tries[m]] = "none"
    BY <2>1, LastTry DEF Begun
  <2>3. CASE hook' = hook
    BY <2>1, <2>3 DEF Taken, Past
  <2>4. CASE Moved(m, tries[m], "lookup")
    <3>1. \A j \in Tries : n # m \/ j # tries[m] => hook'[n][j] = hook[n][j]
      BY <2>2, <2>4, MovedHook DEF PCs
    <3>. QED BY <2>1, <2>2, <3>1 DEF Taken, Past
  <2>. QED BY <1>6, <2>3, <2>4 DEF PreCheck, Moved
<1>7. ASSUME NEW m \in Mails, GiveUp(m) PROVE Taken(n)'
  BY <1>1, <1>7 DEF GiveUp, history
<1>8. ASSUME NEW m \in Mails, NEW k \in Tries, Hook(m, k) PROVE Taken(n)'
  <2>1. CASE handoffs[n] > 0
    <3>1. handoffs' \in {handoffs, [handoffs EXCEPT ![m] = @ + 1]}
      BY <1>8, HookStep
    <3>. QED BY <2>1, <3>1 DEF Taken, Typed
  <2>2. CASE n \in declined \cup crossed \cup spent
    BY <1>8, <2>2, TakenHook DEF Taken
  <2>3. ASSUME NEW j \in Tries, Past(n, j) PROVE Taken(n)'
    <3>1. CASE n = m /\ j = k
      BY <1>8, <2>3, <3>1, TakenHook
    <3>2. CASE n # m \/ j # k
      <4>1. hook'[n][j] = hook[n][j]
        <5>1. \E pc \in PCs : Moved(m, k, pc)
          BY <1>8, HookStep DEF PCs
        <5>. QED BY <3>2, <5>1, MovedHook
      <4>. QED BY <2>3, <4>1 DEF Taken, Past
    <3>. QED BY <3>1, <3>2
  <2>. QED BY <2>1, <2>2, <2>3 DEF Taken
<1>9. CASE UNCHANGED vars
  BY <1>1, <1>9 DEF vars, history
<1>. QED BY <1>2, <1>3, <1>4, <1>5, <1>6, <1>7, <1>8, <1>9 DEF Next

LEMMA KeyTakenStep ==
  ASSUME Typed, Begun, KeyTaken, [Next]_vars
  PROVE  KeyTaken'
<1>. SUFFICES ASSUME NEW i \in MessageIds, NEW n \in Mails, key'[i] = n
              PROVE  n \in Arrived' /\ Taken(n)'
  BY DEF KeyTaken
<1>1. \A m \in Mails : tries[m] > 0 => tries'[m] > 0
  <2>1. ASSUME NEW m \in Mails, Deliver(m)
        PROVE  \A o \in Mails : tries[o] > 0 => tries'[o] > 0
    BY <2>1 DEF Deliver, Typed
  <2>2. CASE UNCHANGED tries
    BY <2>2
  <2>. QED BY <2>1, <2>2, HookStep DEF Next, Edit, Crash, Expire, PreCheck, GiveUp, owned, vars
<1>2. CASE key'[i] = key[i]
  <2>1. n \in Arrived /\ Taken(n)
    BY <1>2 DEF KeyTaken
  <2>. QED BY <1>1, <2>1, TakenStays DEF Arrived
<1>3. ASSUME NEW m \in Mails, NEW k \in Tries, HookDedup(m, k), key'[i] # key[i]
      PROVE  n \in Arrived' /\ Taken(n)'
  <2>1. n = m
    BY <1>3 DEF HookDedup, Typed
  <2>2. hook'[m][k] = "rules"
    <3>1. Goto(m, k, "rules")
      BY <1>3 DEF HookDedup
    <3>. QED BY <3>1, MovedHook DEF Goto, Moved, PCs
  <2>3. tries[m] > 0
    <3>1. Busy(m, k)
      BY <1>3 DEF HookDedup, At, Busy
    <3>2. k <= tries[m] /\ k \in 1..MaxTries /\ tries[m] \in 0..MaxTries
      BY <3>1, CloudflareAssumption DEF Begun, Busy, Typed, Tries
    <3>. QED BY <3>2, CloudflareAssumption
  <2>. QED BY <1>1, <2>1, <2>2, <2>3 DEF Arrived, Taken, Past
<1>4. ASSUME NEW j \in MessageIds, Expire(j), key'[i] # key[i] PROVE FALSE
  BY <1>4, CloudflareAssumption DEF Expire, Typed
<1>. QED BY <1>2, <1>3, <1>4 DEF Next, Edit, Crash, Deliver, PreCheck, GiveUp, Hook, HookLookup,
                                 HookRules, HookEnqueue, vars

LEMMA SaidTakenStep ==
  ASSUME Typed, Begun, KeyTaken, SaidTaken, [Next]_vars
  PROVE  SaidTaken'
<1>. SUFFICES ASSUME NEW n \in Mails, worker'[n] = "accepted" PROVE Taken(n)'
  BY DEF SaidTaken
<1>1. CASE worker[n] = "accepted"
  BY <1>1, TakenStays DEF SaidTaken
<1>2. ASSUME NEW m \in Mails, PreCheck(m), worker[n] # "accepted" PROVE Taken(n)'
  BY <1>2 DEF PreCheck, Ends, Typed, Taken
<1>3. ASSUME NEW m \in Mails, NEW k \in Tries, Hook(m, k), worker[n] # "accepted"
      PROVE  Taken(n)'
  <2>1. /\ \A pc : ~Goto(m, k, pc)
        /\ \A o : Answer(m, k, o) => n = m /\ o = "accepted"
    BY <1>3 DEF Goto, Answer, Typed
  <2>2. CASE HookLookup(m, k)
    BY <2>1, <2>2 DEF HookLookup, Taken
  <2>3. CASE HookDedup(m, k)
    <3>1. n = m /\ idOf[m] \in MessageIds /\ key[idOf[m]] # None
          /\ crossed' = IF key[idOf[m]] # m THEN crossed \cup {m} ELSE crossed
      BY <2>1, <2>3 DEF HookDedup, Claimed, Typed
    <3>2. CASE key[idOf[m]] # m
      BY <3>1, <3>2 DEF Taken
    <3>3. CASE key[idOf[m]] = m
      BY <3>1, <3>3, TakenStays DEF KeyTaken
    <3>. QED BY <3>2, <3>3
  <2>4. CASE HookRules(m, k)
    BY <2>1, <2>4 DEF HookRules, Failed, Taken
  <2>5. CASE HookEnqueue(m, k)
    <3>1. n = m /\ handoffs' = [handoffs EXCEPT ![m] = @ + 1]
      BY <2>1, <2>5 DEF HookEnqueue, Failed
    <3>. QED BY <3>1 DEF Taken, Typed
  <2>. QED BY <1>3, <2>2, <2>3, <2>4, <2>5 DEF Hook
<1>4. ASSUME NEW m \in Mails, Deliver(m), worker[n] # "accepted" PROVE FALSE
  BY <1>4 DEF Deliver, Typed
<1>5. ASSUME NEW m \in Mails, GiveUp(m), worker[n] # "accepted" PROVE FALSE
  BY <1>5 DEF GiveUp, Ends, Typed
<1>6. ASSUME Crash, worker[n] # "accepted" PROVE FALSE
  BY <1>6 DEF Crash, Typed
<1>. QED BY <1>1, <1>2, <1>3, <1>4, <1>5, <1>6 DEF Next, Edit, Expire, vars

-----------------------------------------------------------------------------
(* One handler past the check.                                             *)

LEMMA AloneHook ==
  ASSUME Typed, Begun, Alone, NEW m \in Mails, NEW k \in Tries, Hook(m, k)
  PROVE  Alone'
<1>. SUFFICES ASSUME NEW n \in Mails, ~Exempted(n)'
              PROVE  /\ handoffs'[n] <= 1
                     /\ handoffs'[n] > 0 => key'[idOf[n]] = n /\ \A j \in Tries : ~Past(n, j)'
                     /\ \A j \in Tries : Past(n, j)' =>
                          key'[idOf[n]] = n /\ \A l \in Tries : Past(n, l)' => l = j
  BY HookStep DEF Alone
<1>1. /\ ~Exempted(n) /\ idOf[n] \in MessageIds /\ handoffs[n] \in Nat
      /\ key[idOf[n]] = n => key'[idOf[n]] = n
  <2>1. bypassed \subseteq bypassed' /\ UNCHANGED <<idOf, expired>>
    BY HookStep DEF Hook, HookLookup, HookDedup, HookRules, HookEnqueue
  <2>2. idOf[n] \in MessageIds /\ ~Exempted(n)
    BY <2>1 DEF Exempted, Typed
  <2>3. \A i \in MessageIds : key[i] # None => key'[i] = key[i]
    BY DEF Hook, HookLookup, HookDedup, HookRules, HookEnqueue, Claimed, Typed
  <2>. QED BY <2>2, <2>3, CloudflareAssumption DEF Typed
<1>2. /\ handoffs[n] <= 1
      /\ handoffs[n] > 0 => key[idOf[n]] = n /\ \A j \in Tries : ~Past(n, j)
      /\ \A j \in Tries : Past(n, j) =>
           key[idOf[n]] = n /\ \A l \in Tries : Past(n, l) => l = j
  BY <1>1 DEF Alone
<1>3. \A j \in Tries : n # m \/ j # k => hook'[n][j] = hook[n][j]
  <2>1. \E pc \in PCs : Moved(m, k, pc)
    BY HookStep DEF PCs
  <2>. QED BY <2>1, MovedHook
<1>4. CASE n # m
  <2>1. handoffs'[n] = handoffs[n]
    BY <1>4, HookStep DEF Typed
  <2>. QED BY <1>1, <1>2, <1>3, <1>4, <2>1 DEF Past
<1>5. CASE n = m /\ ~Past(m, k)
  <2>1. CASE hook'[m][k] \notin {"rules", "enqueue"} /\ handoffs' = handoffs
    BY <1>1, <1>2, <1>3, <1>5, <2>1 DEF Past
  <2>2. CASE HookDedup(m, k) /\ Goto(m, k, "rules")
    <3>1. ~Claimed(m) /\ key'[idOf[m]] = m /\ handoffs' = handoffs
      BY <1>1, <1>5, <2>2 DEF HookDedup, Goto, Answer, Exempted, Typed
    <3>2. handoffs[n] = 0 /\ \A j \in Tries : ~Past(n, j)
      BY <1>1, <1>2, <1>5, <3>1, CloudflareAssumption DEF Claimed
    <3>. QED BY <1>3, <1>5, <3>1, <3>2 DEF Past
  <2>3. HookLookup(m, k) \/ HookDedup(m, k)
    BY <1>5 DEF Hook, HookRules, HookEnqueue, At, Past
  <2>4. CASE Goto(m, k, "dedup") /\ UNCHANGED handoffs
    BY <2>1, <2>4, MovedHook DEF Goto, Moved, PCs
  <2>5. CASE (\E o : Answer(m, k, o)) /\ UNCHANGED handoffs
    BY <2>1, <2>5, MovedHook DEF Answer, Moved, PCs
  <2>. QED BY <2>2, <2>3, <2>4, <2>5 DEF HookLookup, HookDedup
<1>6. CASE n = m /\ Past(m, k)
  <2>1. handoffs[n] = 0 /\ key'[idOf[n]] = n /\ \A j \in Tries : Past(n, j) => j = k
    BY <1>1, <1>2, <1>6
  <2>2. CASE UNCHANGED handoffs
    BY <1>3, <1>6, <2>1, <2>2 DEF Past
  <2>3. CASE Moved(m, k, "done") /\ handoffs' = [handoffs EXCEPT ![m] = @ + 1]
    <3>1. hook'[m][k] = "done"
      BY <2>3, MovedHook DEF PCs
    <3>2. handoffs'[n] = 1
      BY <1>6, <2>1, <2>3 DEF Typed
    <3>. QED BY <1>3, <1>6, <2>1, <3>1, <3>2 DEF Past
  <2>. QED BY <2>2, <2>3, HookStep
<1>. QED BY <1>4, <1>5, <1>6

LEMMA AloneStep == Typed /\ Begun /\ Alone /\ [Next]_vars => Alone'
<1>. SUFFICES ASSUME Typed, Begun, Alone, [Next]_vars PROVE Alone'
  OBVIOUS
\* A step that hands nothing off, sets no key and lets no handler past the check.
<1>1. ASSUME UNCHANGED <<idOf, handoffs>>, expired \subseteq expired', bypassed \subseteq bypassed',
             \A i \in MessageIds : key'[i] = key[i] \/ key[i] \in expired',
             \A m \in Mails, k \in Tries : Past(m, k)' => Past(m, k)
      PROVE  Alone'
  <2>. SUFFICES ASSUME NEW m \in Mails, ~Exempted(m)'
                PROVE  /\ handoffs[m] <= 1
                       /\ handoffs[m] > 0 => key'[idOf[m]] = m /\ \A k \in Tries : ~Past(m, k)'
                       /\ \A k \in Tries : Past(m, k)' =>
                            key'[idOf[m]] = m /\ \A j \in Tries : Past(m, j)' => j = k
    BY <1>1 DEF Alone
  <2>1. ~Exempted(m) /\ idOf[m] \in MessageIds /\ m \notin expired'
    BY <1>1 DEF Exempted, Typed
  <2>2. key[idOf[m]] = m => key'[idOf[m]] = m
    BY <1>1, <2>1
  <2>3. /\ handoffs[m] <= 1
        /\ handoffs[m] > 0 => key[idOf[m]] = m /\ \A k \in Tries : ~Past(m, k)
        /\ \A k \in Tries : Past(m, k) =>
             key[idOf[m]] = m /\ \A j \in Tries : Past(m, j) => j = k
    BY <2>1 DEF Alone
  <2>. QED BY <1>1, <2>2, <2>3
<1>2. CASE Edit
  BY <1>1, <1>2 DEF Edit, history, Past
<1>3. CASE Crash
  BY <1>1, <1>3 DEF Crash, owned, Past, Typed
<1>4. ASSUME NEW i \in MessageIds, Expire(i) PROVE Alone'
  <2>1. \A j \in MessageIds : key'[j] = key[j] \/ key[j] \in expired'
    BY <1>4 DEF Expire, Typed
  <2>. QED BY <1>1, <1>4, <2>1 DEF Expire, owned, Past
<1>5. ASSUME NEW m \in Mails, Deliver(m) PROVE Alone'
  BY <1>1, <1>5 DEF Deliver, owned, history, Past
<1>6. ASSUME NEW m \in Mails, PreCheck(m) PROVE Alone'
  <2>1. /\ worker[m] = "precheck"
        /\ UNCHANGED <<idOf, key, handoffs, expired, bypassed>>
    BY <1>6 DEF PreCheck, owned
  <2>2. tries[m] \in Tries /\ hook[m][tries[m]] = "none"
    BY <2>1, LastTry DEF Begun
  <2>3. CASE hook' = hook
    BY <1>1, <2>1, <2>3 DEF Past
  <2>4. CASE Moved(m, tries[m], "lookup")
    <3>1. /\ hook'[m][tries[m]] = "lookup"
          /\ \A n \in Mails, j \in Tries : n # m \/ j # tries[m] => hook'[n][j] = hook[n][j]
      BY <2>2, <2>4, MovedHook DEF PCs
    <3>2. \A n \in Mails, k \in Tries : Past(n, k)' => Past(n, k)
      BY <3>1 DEF Past
    <3>. QED BY <1>1, <2>1, <3>2
  <2>. QED BY <1>6, <2>3, <2>4 DEF PreCheck, Moved
<1>7. ASSUME NEW m \in Mails, GiveUp(m) PROVE Alone'
  BY <1>1, <1>7 DEF GiveUp, owned, history, Past
<1>8. CASE UNCHANGED vars
  BY <1>1, <1>8 DEF vars, owned, history, Past
<1>. QED BY <1>2, <1>3, <1>4, <1>5, <1>6, <1>7, <1>8, AloneHook DEF Next

-----------------------------------------------------------------------------
(* The theorems.                                                           *)

IInv == Typed /\ Begun /\ Counted /\ KeyTaken /\ SaidTaken /\ Alone

LEMMA Inductive == Spec => []IInv
<1>1. Init => IInv
  <2>. SUFFICES ASSUME Init PROVE IInv
    OBVIOUS
  <2>1. Typed /\ Begun
    BY TypedInit, BegunInit
  <2>2. Counted
    <3>. SUFFICES ASSUME NEW m \in Mails PROVE 0 <= Cardinality(Ended(m))
      BY DEF Init, Counted
    <3>. QED BY EndedFinite, CloudflareAssumption
  <2>3. KeyTaken /\ SaidTaken
    BY CloudflareAssumption DEF Init, KeyTaken, SaidTaken
  <2>4. Alone
    BY DEF Init, Alone, Past
  <2>. QED BY <2>1, <2>2, <2>3, <2>4 DEF IInv
<1>2. IInv /\ [Next]_vars => IInv'
  BY TypedStep, BegunStep, CountedStep, KeyTakenStep, SaidTakenStep, AloneStep DEF IInv
<1>. QED BY <1>1, <1>2, PTL DEF Spec

\* Every variable keeps its type; a mail is handed off at most once per delivery.
THEOREM TypeCorrect == Spec => []TypeOK
<1>1. IInv => TypeOK
  <2>. SUFFICES ASSUME IInv PROVE TypeOK
    OBVIOUS
  <2>1. ASSUME NEW m \in Mails PROVE handoffs[m] \in 0..MaxTries
    BY EndedFinite, CloudflareAssumption DEF IInv, Counted, Typed
  <2>. QED BY <2>1 DEF IInv, Typed, Begun, TypeOK
<1>. QED BY <1>1, Inductive, PTL

\* A mail its sender was told is accepted is handed off, in the hands of a handler,
\* declined, or met a key (cloudflare.go 189-206, 257).
THEOREM AcceptedTaken == Spec => []AcceptedIsTaken
<1>1. IInv => AcceptedIsTaken
  BY DEF IInv, SaidTaken, Taken, Past, Busy, AcceptedIsTaken
<1>. QED BY <1>1, Inductive, PTL

LEMMA RouteStep == IInv /\ [Next]_vars => [H!Next]_H!vars
<1>. SUFFICES ASSUME IInv, [Next]_vars PROVE [H!Next]_H!vars
  OBVIOUS
<1>. DEFINE Exempts == {m \in Arrived : idOf[m] = None} \cup bypassed \cup expired
<1>1. ASSUME UNCHANGED <<idOf, tries, handoffs, bypassed, expired>> PROVE UNCHANGED H!vars
  BY <1>1 DEF H!vars, Arrived
<1>2. ASSUME NEW i \in MessageIds, Expire(i) PROVE [H!Next]_H!vars
  <2>1. PICK m \in Mails : m = key[i]
    BY <1>2 DEF Expire, IInv, Typed
  <2>2. /\ m \in Arrived /\ expired' = expired \cup {m}
        /\ UNCHANGED <<idOf, tries, handoffs, bypassed>>
    BY <1>2, <2>1 DEF Expire, owned, IInv, KeyTaken
  <2>3. Arrived' = Arrived /\ Exempts' = Exempts \cup {m}
    BY <2>2 DEF Arrived
  <2>4. H!Exempt(m)
    BY <2>2, <2>3 DEF H!Exempt
  <2>. QED BY <2>4 DEF H!Next
<1>3. ASSUME NEW m \in Mails, Deliver(m) PROVE [H!Next]_H!vars
  <2>1. /\ UNCHANGED <<idOf, handoffs, bypassed, expired>>
        /\ tries' = [tries EXCEPT ![m] = @ + 1] /\ tries[m] \in Nat
    BY <1>3 DEF Deliver, owned, history, IInv, Typed
  <2>2. Arrived' = Arrived \cup {m}
    BY <2>1 DEF Arrived, IInv, Typed
  <2>3. CASE m \in Arrived
    BY <2>1, <2>2, <2>3 DEF H!vars
  <2>4. CASE m \notin Arrived
    <3>1. Exempts' \in {Exempts, Exempts \cup {m}}
      BY <2>1, <2>2
    <3>2. H!Arrive(m)
      BY <2>1, <2>2, <2>4, <3>1 DEF H!Arrive
    <3>. QED BY <3>2 DEF H!Next
  <2>. QED BY <2>3, <2>4
<1>4. ASSUME NEW m \in Mails, NEW k \in Tries, HookDedup(m, k) PROVE [H!Next]_H!vars
  <2>1. UNCHANGED <<idOf, tries, handoffs, expired>> /\ bypassed' \in {bypassed, bypassed \cup {m}}
    BY <1>4 DEF HookDedup, At, owned
  <2>2. m \in Arrived
    <3>1. Busy(m, k)
      BY <1>4 DEF HookDedup, At, Busy
    <3>2. k <= tries[m] /\ k \in 1..MaxTries /\ tries[m] \in 0..MaxTries
      BY <3>1, CloudflareAssumption DEF IInv, Begun, Busy, Typed, Tries
    <3>. QED BY <3>2, CloudflareAssumption DEF Arrived
  <2>3. CASE bypassed' = bypassed
    BY <1>1, <2>1, <2>3
  <2>4. CASE bypassed' = bypassed \cup {m}
    <3>1. Arrived' = Arrived /\ Exempts' = Exempts \cup {m}
      BY <2>1, <2>4 DEF Arrived
    <3>2. H!Exempt(m)
      BY <2>1, <2>2, <3>1 DEF H!Exempt
    <3>. QED BY <3>2 DEF H!Next
  <2>. QED BY <2>1, <2>3, <2>4
<1>5. ASSUME NEW m \in Mails, NEW k \in Tries, HookEnqueue(m, k) PROVE [H!Next]_H!vars
  <2>1. /\ UNCHANGED <<idOf, tries, bypassed, expired>>
        /\ handoffs' \in {handoffs, [handoffs EXCEPT ![m] = @ + 1]}
    BY <1>5 DEF HookEnqueue, At, owned
  <2>2. m \in Arrived /\ Past(m, k)
    <3>1. Busy(m, k) /\ Past(m, k)
      BY <1>5 DEF HookEnqueue, At, Busy, Past
    <3>2. k <= tries[m] /\ k \in 1..MaxTries /\ tries[m] \in 0..MaxTries
      BY <3>1, CloudflareAssumption DEF IInv, Begun, Busy, Typed, Tries
    <3>. QED BY <3>1, <3>2, CloudflareAssumption DEF Arrived
  <2>3. CASE handoffs' = handoffs
    BY <1>1, <2>1, <2>3
  <2>4. CASE handoffs' = [handoffs EXCEPT ![m] = @ + 1]
    <3>1. handoffs[m] = 0 \/ m \in Exempts
      BY <2>2 DEF IInv, Alone, Exempted, Typed
    <3>2. Arrived' = Arrived /\ Exempts' = Exempts
      BY <2>1 DEF Arrived
    <3>3. H!HandOff(m)
      BY <2>2, <2>4, <3>1, <3>2 DEF H!HandOff
    <3>. QED BY <3>3 DEF H!Next
  <2>. QED BY <2>1, <2>3, <2>4
<1>6. ASSUME NEW m \in Mails, NEW k \in Tries, HookLookup(m, k) \/ HookRules(m, k)
      PROVE  [H!Next]_H!vars
  BY <1>1, <1>6 DEF HookLookup, HookRules, At, owned
<1>7. CASE Edit
  BY <1>1, <1>7 DEF Edit, history
<1>8. CASE Crash
  BY <1>1, <1>8 DEF Crash, owned
<1>9. ASSUME NEW m \in Mails, PreCheck(m) \/ GiveUp(m) PROVE [H!Next]_H!vars
  BY <1>1, <1>9 DEF PreCheck, GiveUp, owned, history
<1>10. CASE UNCHANGED vars
  BY <1>1, <1>10 DEF vars, owned, history
<1>. QED BY <1>2, <1>3, <1>4, <1>5, <1>6, <1>7, <1>8, <1>9, <1>10 DEF Next, Hook

\* The route keeps the promise of Handoff: overlapping deliveries, late handlers, crashes
\* and lost answers hand a mail off once unless it is exempt.
THEOREM RouteImplementsHandoff == Spec => ImplementsHandoff
<1>1. Init => H!Init
  BY DEF Init, H!Init, Arrived
<1>. QED BY <1>1, RouteStep, Inductive, PTL DEF Spec, ImplementsHandoff, H!Spec
=============================================================================
