--------------------------- MODULE CloudflareRoute ---------------------------
(***************************************************************************)
(* Mail to a Cloudflare mailbox: the Email Worker                          *)
(* (external/cf-email-worker/main.js), which asks the service whether the  *)
(* mail is wanted and then forwards it, and the two handlers that answer   *)
(* (internal/webhook/cloudflare.go).  The worker's outcome is the answer   *)
(* the sending mail server gets: a rejection is final, a worker that dies  *)
(* makes it deliver again, as does an acceptance it did not hear.          *)
(*                                                                         *)
(* A mail of Mails is one for one mailbox; a message to several mailboxes  *)
(* is several mails with the same Message-ID.  Every call to PostgreSQL,   *)
(* Redis and the service is an action; the pre-check, which only reads, is *)
(* one.  Left out: mail the MIME parser refuses (answered 400).            *)
(***************************************************************************)
EXTENDS Naturals

CONSTANTS
  Mails, Mailboxes, MessageIds,
  MailboxOf,     \* MailboxOf[m]: the mailbox m is for
  None,
  MaxTries,      \* bound: how often a sender delivers a mail
  MaxEdits,      \* bound: changes of mailboxes and rules
  MaxFaults      \* bound: failing calls, lost answers, crashes

ASSUME CloudflareAssumption ==
  /\ MailboxOf \in [Mails -> Mailboxes]
  /\ None \notin Mails \cup MessageIds
  /\ MaxTries \in Nat \ {0} /\ MaxEdits \in Nat /\ MaxFaults \in Nat

VARIABLES
  idOf,       \* idOf[m]: the Message-ID of m, None if it has none; it never changes
  mailbox,    \* mailbox[b]: "ACTIVE", "other" status, or another "token" than the worker's
  wanted,     \* mails whose subject equals a rule of the tenant
  key,        \* key[i]: dedup:email:<i>, with the mail that set it, or None
  tries,      \* tries[m]: how often m has been delivered
  worker,     \* worker[m]: the worker of the last delivery, and its outcome
  hook,       \* hook[m][k]: HandleWebhook for the k-th delivery of m
  handoffs,   \* handoffs[m]: "email:process" tasks enqueued for m
  edits, faults,
  (* history *)
  bypassed,   \* mails whose dedup check Redis failed
  expired,    \* mails whose dedup key has expired
  declined,   \* mails no rule matched, or whose mailbox was not ACTIVE, when looked at
  crossed,    \* mails that met the key of another mail
  spent       \* mails that failed after they had set their key

history == <<bypassed, expired, declined, crossed, spent>>
owned == <<idOf, mailbox, wanted, edits>>
vars == <<owned, key, tries, worker, hook, handoffs, faults, history>>

Tries == 1..MaxTries
PCs   == {"none", "lookup", "dedup", "rules", "enqueue", "done"}
Outcomes == {"accepted", "rejected", "failed"}
Busy(m, k) == hook[m][k] \notin {"none", "done"}
Fault == faults < MaxFaults /\ faults' = faults + 1

Init ==
  /\ idOf \in [Mails -> MessageIds \cup {None}]
  /\ mailbox = [b \in Mailboxes |-> "ACTIVE"] /\ wanted = Mails
  /\ key = [i \in MessageIds |-> None]
  /\ tries = [m \in Mails |-> 0] /\ worker = [m \in Mails |-> "none"]
  /\ hook = [m \in Mails |-> [k \in Tries |-> "none"]]
  /\ handoffs = [m \in Mails |-> 0]
  /\ edits = 0 /\ faults = 0
  /\ bypassed = {} /\ expired = {} /\ declined = {} /\ crossed = {} /\ spent = {}

-----------------------------------------------------------------------------
(* Owners, time, and the sending mail server.                              *)

Edit ==
  /\ edits < MaxEdits /\ edits' = edits + 1
  /\ \/ \E b \in Mailboxes, s \in {"ACTIVE", "other", "token"} :
          mailbox' = [mailbox EXCEPT ![b] = s] /\ UNCHANGED wanted
     \/ \E m \in Mails : wanted' = (wanted \ {m}) \cup ({m} \ wanted) /\ UNCHANGED mailbox
  /\ UNCHANGED <<idOf, key, tries, worker, hook, handoffs, faults, history>>

\* 24 hours pass; no handler takes that long.
Expire(i) ==
  /\ key[i] # None /\ \A m \in Mails, k \in Tries : ~Busy(m, k)
  /\ key' = [key EXCEPT ![i] = None]
  /\ expired' = expired \cup {key[i]}
  /\ UNCHANGED <<owned, tries, worker, hook, handoffs, faults, bypassed,
                 declined, crossed, spent>>

Deliver(m) ==
  /\ tries[m] < MaxTries
  /\ \/ worker[m] \in {"none", "failed"} /\ UNCHANGED faults
     \/ worker[m] = "accepted" /\ Fault   \* the sender did not hear of it
  /\ tries' = [tries EXCEPT ![m] = @ + 1]
  /\ worker' = [worker EXCEPT ![m] = "precheck"]
  /\ UNCHANGED <<owned, key, hook, handoffs, history>>

-----------------------------------------------------------------------------
(* The worker.                                                             *)

Ends(m, outcome) == worker' = [worker EXCEPT ![m] = outcome]

\* HandlePreCheck and the worker's reading of its answer.  A call that fails, an answer
\* that is not ok and an exception reject the mail; {"match": false} drops it.
PreCheck(m) ==
  /\ worker[m] = "precheck"
  /\ \/ /\ mailbox[MailboxOf[m]] = "ACTIVE" /\ m \in wanted
        /\ Ends(m, "forward")
        /\ hook' = [hook EXCEPT ![m][tries[m]] = "lookup"]
        /\ UNCHANGED <<faults, declined>>
     \/ /\ mailbox[MailboxOf[m]] = "other" \/ (mailbox[MailboxOf[m]] = "ACTIVE" /\ m \notin wanted)
        /\ Ends(m, "accepted") /\ declined' = declined \cup {m}
        /\ UNCHANGED <<faults, hook>>
     \/ /\ Fault \/ (mailbox[MailboxOf[m]] = "token" /\ UNCHANGED faults)
        /\ Ends(m, "rejected")
        /\ UNCHANGED <<hook, declined>>
  /\ UNCHANGED <<owned, key, tries, handoffs, bypassed, expired, crossed, spent>>

\* The connection to the service breaks, or the worker dies; its handler does not notice.
GiveUp(m) ==
  /\ worker[m] \in {"precheck", "forward"} /\ Fault
  /\ \/ Ends(m, "rejected")
     \/ tries[m] < MaxTries /\ Ends(m, "failed")
  /\ UNCHANGED <<owned, key, tries, hook, handoffs, history>>

-----------------------------------------------------------------------------
(* HandleWebhook.                                                          *)

At(m, k, pc) == hook[m][k] = pc /\ UNCHANGED <<owned, tries, expired>>
Goto(m, k, pc) == hook' = [hook EXCEPT ![m][k] = pc] /\ UNCHANGED worker

\* The handler returns; its worker, if it still waits, accepts on 2xx and rejects else.
Answer(m, k, outcome) ==
  /\ hook' = [hook EXCEPT ![m][k] = "done"]
  /\ worker' = IF worker[m] = "forward" /\ k = tries[m]
               THEN [worker EXCEPT ![m] = outcome] ELSE worker

HookLookup(m, k) ==
  /\ At(m, k, "lookup")
  /\ \/ mailbox[MailboxOf[m]] = "ACTIVE" /\ Goto(m, k, "dedup") /\ UNCHANGED <<faults, declined>>
     \/ /\ mailbox[MailboxOf[m]] = "other" /\ Answer(m, k, "accepted")
        /\ declined' = declined \cup {m} /\ UNCHANGED faults
     \/ /\ Fault \/ (mailbox[MailboxOf[m]] = "token" /\ UNCHANGED faults)
        /\ Answer(m, k, "rejected") /\ UNCHANGED declined
  /\ UNCHANGED <<key, handoffs, bypassed, crossed, spent>>

\* SETNX dedup:email:<Message-ID>; a mail without one gets an id of its own.
Claimed_Never(m)  == FALSE
Claimed(m)        == key[idOf[m]] # None

HookDedup(m, k) ==
  /\ At(m, k, "dedup")
  /\ \/ idOf[m] = None /\ Goto(m, k, "rules") /\ UNCHANGED <<key, faults, bypassed, crossed>>
     \/ /\ idOf[m] # None /\ ~Claimed(m)
        /\ key' = [key EXCEPT ![idOf[m]] = m]
        /\ Goto(m, k, "rules") /\ UNCHANGED <<faults, bypassed, crossed>>
     \/ /\ idOf[m] # None /\ Claimed(m)
        /\ Answer(m, k, "accepted")
        /\ crossed' = IF key[idOf[m]] # m THEN crossed \cup {m} ELSE crossed
        /\ UNCHANGED <<key, faults, bypassed>>
     \/ \* the error is logged and the mail treated as new, whether or not the key was set
        /\ idOf[m] # None /\ Fault
        /\ key' \in {key, [key EXCEPT ![idOf[m]] = IF @ = None THEN m ELSE @]}
        /\ bypassed' = bypassed \cup {m}
        /\ Goto(m, k, "rules") /\ UNCHANGED crossed
  /\ UNCHANGED <<handoffs, declined, spent>>

\* What is answered when a call fails after the key is set; the key stays.
Failed_Again(m, k) == Goto(m, k, "enqueue") /\ UNCHANGED spent
Failed_Acked(m, k) == Answer(m, k, "accepted") /\ UNCHANGED spent
Failed(m, k)       == Answer(m, k, "rejected") /\ spent' = spent \cup {m}

HookRules(m, k) ==
  /\ At(m, k, "rules")
  /\ \/ m \in wanted /\ Goto(m, k, "enqueue") /\ UNCHANGED <<faults, declined, spent>>
     \/ /\ m \notin wanted /\ Answer(m, k, "accepted")
        /\ declined' = declined \cup {m} /\ UNCHANGED <<faults, spent>>
     \/ Fault /\ Failed(m, k) /\ UNCHANGED declined
  /\ UNCHANGED <<key, handoffs, bypassed, crossed>>

HookEnqueue(m, k) ==
  /\ At(m, k, "enqueue")
  /\ \/ /\ handoffs' = [handoffs EXCEPT ![m] = @ + 1]
        /\ Answer(m, k, "accepted") /\ UNCHANGED <<faults, spent>>
     \/ /\ Fault /\ Failed(m, k)
        /\ handoffs' \in {handoffs, [handoffs EXCEPT ![m] = @ + 1]}
  /\ UNCHANGED <<key, bypassed, declined, crossed>>

\* The server dies: every handler with it, and the workers that wait are refused.
Crash ==
  /\ Fault
  /\ hook' = [m \in Mails |-> [k \in Tries |-> IF Busy(m, k) THEN "done" ELSE hook[m][k]]]
  /\ worker' = [m \in Mails |-> IF worker[m] = "forward" THEN "rejected" ELSE worker[m]]
  /\ spent' = spent \cup {m \in Mails : \E k \in Tries : hook[m][k] \in {"rules", "enqueue"}}
  /\ UNCHANGED <<owned, key, tries, handoffs, bypassed, expired, declined, crossed>>

-----------------------------------------------------------------------------
Hook(m, k) == HookLookup(m, k) \/ HookDedup(m, k) \/ HookRules(m, k) \/ HookEnqueue(m, k)

Next ==
  \/ Edit \/ Crash
  \/ \E i \in MessageIds : Expire(i)
  \/ \E m \in Mails : Deliver(m) \/ PreCheck(m) \/ GiveUp(m) \/ \E k \in Tries : Hook(m, k)
Spec == Init /\ [][Next]_vars

\* A sender tries again after a temporary failure; workers and handlers run.
FairSpec ==
  /\ Spec
  /\ \A m \in Mails : /\ WF_vars(Deliver(m) /\ worker[m] = "failed")
                      /\ WF_vars(PreCheck(m))
                      /\ \A k \in Tries : WF_vars(Hook(m, k))

-----------------------------------------------------------------------------
(* Properties.                                                             *)

\* Every variable has its type.
TypeOK ==
  /\ idOf \in [Mails -> MessageIds \cup {None}]
  /\ mailbox \in [Mailboxes -> {"ACTIVE", "other", "token"}] /\ wanted \subseteq Mails
  /\ key \in [MessageIds -> Mails \cup {None}]
  /\ tries \in [Mails -> 0..MaxTries]
  /\ worker \in [Mails -> {"none", "precheck", "forward"} \cup Outcomes]
  /\ hook \in [Mails -> [Tries -> PCs]]
  /\ \A m \in Mails : worker[m] = "forward" => Busy(m, tries[m])
  /\ handoffs \in [Mails -> 0..MaxTries]
  /\ edits \in 0..MaxEdits /\ faults \in 0..MaxFaults
  /\ \A S \in {bypassed, expired, declined, crossed, spent} : S \subseteq Mails

\* CloudflareRoute implements Handoff: deliveries that overlap, lost acceptances and late
\* handlers hand a mail off at most once; exempt are mails without a Message-ID, and mails
\* whose dedup check failed or whose key expired (cloudflare.go 183-197, 268-278).
Arrived == {m \in Mails : tries[m] > 0}
H == INSTANCE Handoff WITH Messages <- Mails, arrived <- Arrived, handed <- handoffs,
       exempt <- {m \in Arrived : idOf[m] = None} \cup bypassed \cup expired
ImplementsHandoff == H!Spec

\* A mail whose sender was told that it is accepted is not lost: it was handed off, a
\* handler of it still runs, or it is one of those the service declines - or it met the
\* key of the same message to another mailbox, or the key an attempt of its own left
\* behind when it failed, whose retry is answered "duplicate" (cloudflare.go 189-206, 257).
AcceptedIsTaken == \A m \in Mails :
  worker[m] = "accepted" =>
    \/ handoffs[m] > 0
    \/ \E k \in Tries : Busy(m, k)
    \/ m \in declined \cup crossed \cup spent

\* Every mail comes to an end: handed off, declined, or rejected so that its sender knows -
\* with the same two exceptions.
Settled == \A m \in Mails :
  worker[m] # "none" ~> handoffs[m] > 0 \/ worker[m] = "rejected"
                          \/ m \in declined \cup crossed \cup spent
=============================================================================
