---------------------------- MODULE Subscriptions ----------------------------
(***************************************************************************)
(* What keeps a mailbox of Outlook or Gmail notified: the subscription (or *)
(* watch) the provider holds for it, the row of the account, the sorted    *)
(* set in Redis that says when the subscription ends, and the processes    *)
(* that change them: the OAuth callback (internal/oauth), the renewal      *)
(* cycle (internal/queue/renewer.go), the disconnect task and the fetch    *)
(* handlers (internal/queue/handler.go).  ONE account.                     *)
(*                                                                         *)
(* Every call to PostgreSQL, Redis or the provider is an action.  A tick   *)
(* is the 15 minutes between two cycles; a cycle and a callback take       *)
(* seconds.  Times are kept as what is left of them, so the clock needs no *)
(* bound.  The provider is external: a subscription exists until it is     *)
(* deleted or ends; a refresh token works until its grant is revoked.      *)
(***************************************************************************)
EXTENDS Integers, FiniteSets

CONSTANTS
  Providers,   \* providers the account may be of: "outlook", "gmail"
  Subs,        \* bound: subscription ids; none begins while all of them are in use
  Watch,       \* the one of them that stands for a mailbox's Gmail watch
  Life,        \* 4000 minutes, in ticks
  Horizon,     \* 24 hours: a cycle renews what ends within them
  None,
  MaxOwner,    \* bound: connections, disconnections, revocations
  MaxFaults    \* bound: failing calls
\* OUTLOOK_NOTIFICATION_URL is assumed set: without it no cycle renews (renewer.go 243).

Grants == 1..MaxOwner
Creds  == [sub : Subs \cup {None}, grant : Grants]

ASSUME SubscriptionAssumption ==
  /\ Providers \subseteq {"outlook", "gmail"}
  /\ Watch \in Subs /\ None \notin Subs \cup Nat \cup Creds
  /\ Horizon \in Nat \ {0} /\ Life \in Nat /\ Life > Horizon
  /\ MaxOwner \in Nat /\ MaxFaults \in Nat

VARIABLES
  provider,
  status, creds, project,   \* the row; creds is None for ''
  score,     \* time to the end noted in the sorted set, 0 once past; None: no entry
  life,      \* life[s]: how long s exists at the provider, 0 for not at all
  valid,     \* grants that have not been revoked
  due,       \* the ticker has fired
  ren,       \* the renewal cycle: its next step and the credentials it works on
  cb,        \* the callback: its next step, its grant and its subscription
  disc,      \* the "email:disconnect" task: its next step and the row it read
  fetch,     \* the credentials a fetch handler has read, or None
  owner, faults,
  (* history *)
  misses,    \* cycles in a row that should have renewed and did not (up to Horizon)
  gap        \* nothing may be live since the last registration failed, or was deleted

row  == <<status, creds, project>>
remote == <<life, valid>>
vars == <<provider, row, score, remote, due, ren, cb, disc, fetch, owner, faults, misses, gap>>

NoCycle == [pc |-> "idle", creds |-> None]
NoCall  == [pc |-> "idle", grant |-> 0, sub |-> None]
NoTask  == [pc |-> "idle", creds |-> None, project |-> FALSE]

Fault == faults < MaxFaults /\ faults' = faults + 1
Owner == owner < MaxOwner /\ owner' = owner + 1
Live  == {s \in Subs : life[s] > 0}
\* Ids are never reused; one that has ended and that nobody remembers is as good as new.
Named(c) == IF c = None THEN {} ELSE {c.sub}
Fresh == Subs \ (Live \cup Named(creds) \cup Named(ren.creds) \cup Named(disc.creds)
                      \cup Named(fetch) \cup {cb.sub})
\* Which of them the provider gives makes no difference.
NewSub == CHOOSE s \in Fresh : TRUE
Gmail == provider = "gmail"

Init ==
  /\ provider \in Providers
  /\ status = "DISCONNECTED" /\ creds = None /\ project = FALSE
  /\ score = None
  /\ life = [s \in Subs |-> 0] /\ valid = {}
  /\ due = FALSE
  /\ ren = NoCycle /\ cb = NoCall /\ disc = NoTask /\ fetch = None
  /\ owner = 0 /\ faults = 0
  /\ misses = 0 /\ gap = FALSE

\* 15 minutes pass.
Less(n) == IF n > 0 THEN n - 1 ELSE 0
Tick ==
  /\ ren.pc = "idle" /\ ~due /\ cb.pc = "idle"
  /\ due' = TRUE
  /\ life' = [s \in Subs |-> Less(life[s])]
  /\ score' = IF score = None THEN None ELSE Less(score)
  /\ UNCHANGED <<provider, row, valid, ren, cb, disc, fetch, owner, faults, misses, gap>>

\* UpdateEmailAccountCredentialsAndStatus(creds, "ACTIVE"), whatever the row says by now.
Save(c) == status' = "ACTIVE" /\ creds' = c /\ UNCHANGED project
\* UpdateEmailAccountStatus("REAUTH_REQUIRED"), whose own error is ignored.
Reauth  == /\ status' = "REAUTH_REQUIRED" \/ status' = status
           /\ UNCHANGED <<creds, project>>
\* A subscription or a watch begins or is extended.
Begin(s) == life' = [life EXCEPT ![s] = Life]

-----------------------------------------------------------------------------
(* runRenewalCycle.                                                        *)

Renewer(p) == ren.pc = p /\ UNCHANGED <<provider, due, cb, disc, fetch, owner, valid>>
Goto(p)    == ren' = [ren EXCEPT !.pc = p]
EndCycle   == ren' = NoCycle
Miss       == misses' = (IF misses < Horizon THEN misses + 1 ELSE misses) /\ UNCHANGED gap
Renewed    == misses' = 0 /\ gap' = FALSE

\* ZRANGEBYSCORE 0 (now + 24 hours)
Expiring_Past     == score = 0
Expiring_Upcoming == score # None /\ score > 0 /\ score <= Horizon
Expiring          == score # None /\ score <= Horizon

Scan ==
  /\ ren.pc = "idle" /\ due /\ due' = FALSE
  /\ \/ Expiring /\ Goto("read") /\ UNCHANGED <<faults, misses, gap>>
     \/ ~Expiring /\ UNCHANGED <<ren, faults, misses, gap>>
     \/ Expiring /\ Fault /\ Miss /\ UNCHANGED ren
  /\ UNCHANGED <<provider, row, score, remote, cb, disc, fetch, owner>>

\* GetEmailAccountByID; only an ACTIVE account is renewed, and a Gmail one only with a
\* project.
Renewable_Any == Gmail => project
Renewable == status = "ACTIVE" /\ creds # None /\ (Gmail => project)

RenewRead ==
  /\ Renewer("read")
  /\ \/ Renewable /\ ren' = [pc |-> "token", creds |-> creds] /\ UNCHANGED <<faults, misses, gap>>
     \/ ~Renewable /\ EndCycle /\ Miss /\ UNCHANGED faults
     \/ Fault /\ EndCycle /\ Miss
  /\ UNCHANGED <<row, score, life>>

\* The refresh is refused: 4xx.
Refused_Ignored == UNCHANGED row
Refused == Reauth

RenewToken ==
  /\ Renewer("token")
  /\ \/ /\ ren.creds.grant \in valid
        /\ Goto(IF Gmail THEN "watch" ELSE "patch")
        /\ UNCHANGED <<row, faults, misses, gap>>
     \/ /\ ren.creds.grant \notin valid
        /\ EndCycle /\ Miss /\ Refused
        /\ IF status' = "REAUTH_REQUIRED" THEN UNCHANGED faults ELSE Fault
     \/ Fault /\ EndCycle /\ Miss /\ (UNCHANGED row \/ Refused)
  /\ UNCHANGED <<score, life>>

\* PATCH extends the subscription; whatever else it answers, another one is created.
RenewPatch ==
  /\ Renewer("patch")
  /\ \/ ren.creds.sub \in Live /\ Begin(ren.creds.sub) /\ Renewed /\ Goto("save") /\ UNCHANGED faults
     \/ ren.creds.sub \notin Live /\ Goto("create") /\ UNCHANGED <<life, faults, misses, gap>>
     \/ /\ Fault /\ Goto("create") /\ UNCHANGED <<misses, gap>>
        /\ UNCHANGED life \/ (ren.creds.sub \in Live /\ Begin(ren.creds.sub))
  /\ UNCHANGED <<row, score>>

RenewCreate ==
  /\ Renewer("create") /\ Fresh # {}
  /\ LET s == NewSub IN
       \/ /\ Begin(s) /\ Renewed /\ UNCHANGED <<row, faults>>
          /\ ren' = [pc |-> "save", creds |-> [ren.creds EXCEPT !.sub = s]]
       \/ /\ Fault /\ EndCycle /\ Miss
          /\ UNCHANGED life \/ Begin(s)
          /\ UNCHANGED row \/ Reauth
  /\ UNCHANGED score

RenewWatch ==
  /\ Renewer("watch")
  /\ \/ Begin(Watch) /\ Renewed /\ Goto("save") /\ UNCHANGED <<row, faults>>
     \/ /\ Fault /\ EndCycle /\ Miss
        /\ UNCHANGED life \/ Begin(Watch)
        /\ UNCHANGED row \/ Reauth
  /\ UNCHANGED score

\* The errors of both writes are ignored.
RenewSave ==
  /\ Renewer("save") /\ Goto("zadd")
  /\ \/ Save(ren.creds) /\ UNCHANGED faults
     \/ Fault /\ UNCHANGED row
  /\ UNCHANGED <<score, life, misses, gap>>

RenewZAdd ==
  /\ Renewer("zadd") /\ EndCycle
  /\ \/ score' = Life /\ UNCHANGED faults
     \/ Fault /\ UNCHANGED score
  /\ UNCHANGED <<row, life, misses, gap>>

-----------------------------------------------------------------------------
(* HandleCallback, once the tokens are exchanged and the address matches.  *)

Connect ==
  /\ cb.pc = "idle" /\ Owner
  /\ cb' = [pc |-> "register", grant |-> owner', sub |-> None]
  /\ valid' = valid \cup {owner'}
  /\ UNCHANGED <<provider, row, score, life, due, ren, disc, fetch, faults, misses, gap>>

Callback(p) == cb.pc = p /\ UNCHANGED <<provider, due, ren, disc, fetch, owner, valid>>

\* RegisterOutlookSubscription, whose failure is logged, or users.watch, whose failure
\* ends the callback.
CbRegister ==
  /\ Callback("register") /\ (Gmail \/ Fresh # {})
  /\ LET s == IF Gmail THEN Watch ELSE NewSub IN
       \/ /\ Begin(s) /\ Renewed /\ cb' = [cb EXCEPT !.pc = "save", !.sub = s]
          /\ UNCHANGED faults
       \/ /\ Fault
          /\ UNCHANGED life \/ Begin(s)
          /\ IF Gmail THEN cb' = NoCall /\ UNCHANGED gap
                      ELSE cb' = [cb EXCEPT !.pc = "save"] /\ gap' = TRUE
          /\ UNCHANGED misses
  /\ UNCHANGED <<row, score>>

CbSave ==
  /\ Callback("save")
  /\ \/ /\ status' = "ACTIVE" /\ creds' = [sub |-> cb.sub, grant |-> cb.grant]
        /\ project' = Gmail
        /\ cb' = [cb EXCEPT !.pc = "zadd"] /\ UNCHANGED faults
     \/ Fault /\ cb' = NoCall /\ UNCHANGED row
  /\ UNCHANGED <<score, life, misses, gap>>

CbZAdd ==
  /\ Callback("zadd") /\ cb' = NoCall
  /\ \/ cb.sub # None /\ score' = Life /\ UNCHANGED faults
     \/ cb.sub = None /\ UNCHANGED <<score, faults>>
     \/ Fault /\ UNCHANGED score
  /\ UNCHANGED <<row, life, misses, gap>>

-----------------------------------------------------------------------------
(* The owner leaves (HandleEmailDisconnectTask) or revokes the grant        *)
(* (HandleRevoke, or at the provider).                                     *)

Leave ==
  /\ disc.pc = "idle" /\ Owner
  /\ disc' = [disc EXCEPT !.pc = "queued"]
  /\ UNCHANGED <<provider, row, score, remote, due, ren, cb, fetch, faults, misses, gap>>

Revoke ==
  /\ creds # None /\ creds.grant \in valid /\ Owner
  /\ valid' = valid \ {creds.grant}
  /\ UNCHANGED <<provider, row, score, life, due, ren, cb, disc, fetch, faults, misses, gap>>

Task(p) == disc.pc = p /\ UNCHANGED <<provider, score, due, ren, cb, fetch, owner, misses>>

\* An error of the query or of the UPDATE is returned: asynq runs the task again.
DiscRead ==
  /\ Task("queued")
  /\ \/ disc' = [pc |-> "cleanup", creds |-> creds, project |-> project] /\ UNCHANGED faults
     \/ Fault /\ UNCHANGED disc
  /\ UNCHANGED <<row, remote, gap>>

\* cleanupOutlookConnection: DELETE of the subscription.  cleanupGmailConnection: stop
\* and revoke.  Their answers are not looked at; without a valid grant they may be
\* refused.
Stopped == IF Gmail THEN disc.project /\ disc.creds # None
                    ELSE disc.creds # None /\ disc.creds.sub # None
Stop(s) == life' = [life EXCEPT ![s] = 0] /\ gap' = TRUE

DiscCleanup ==
  /\ Task("cleanup")
  /\ disc' = [disc EXCEPT !.pc = "clear"]
  /\ \/ ~Stopped /\ UNCHANGED <<remote, faults, gap>>
     \/ /\ Stopped
        /\ Stop(IF Gmail THEN Watch ELSE disc.creds.sub)
        /\ valid' = IF Gmail THEN valid \ {disc.creds.grant} ELSE valid
        /\ UNCHANGED faults
     \/ /\ Stopped
        /\ IF disc.creds.grant \in valid THEN Fault ELSE UNCHANGED faults
        /\ \/ UNCHANGED <<life, gap>>
           \/ Gmail /\ Stop(Watch)
        /\ valid' \in {valid, IF Gmail THEN valid \ {disc.creds.grant} ELSE valid}
  /\ UNCHANGED row

DiscClear ==
  /\ Task("clear")
  /\ \/ /\ status' = "DISCONNECTED" /\ creds' = None /\ project' = FALSE
        /\ disc' = NoTask /\ UNCHANGED faults
     \/ Fault /\ disc' = [NoTask EXCEPT !.pc = "queued"] /\ UNCHANGED row
  /\ UNCHANGED <<remote, gap>>

-----------------------------------------------------------------------------
(* A fetch handler: reads the ACTIVE account and may save what it read.    *)

FetchRead ==
  /\ fetch = None /\ status = "ACTIVE"
  /\ fetch' = creds
  /\ UNCHANGED <<provider, row, score, remote, due, ren, cb, disc, owner, faults, misses, gap>>

FetchEnd ==
  /\ fetch # None /\ fetch' = None
  /\ \/ UNCHANGED row
     \/ fetch.grant \in valid /\ Save(fetch)
     \/ fetch.grant \notin valid /\ Reauth
  /\ UNCHANGED <<provider, score, remote, due, ren, cb, disc, owner, faults, misses, gap>>

-----------------------------------------------------------------------------
Cycle      == \/ Scan \/ RenewRead \/ RenewToken \/ RenewPatch \/ RenewCreate \/ RenewWatch
              \/ RenewSave \/ RenewZAdd
Answer     == CbRegister \/ CbSave \/ CbZAdd
Disconnect == DiscRead \/ DiscCleanup \/ DiscClear

Next == \/ Tick \/ Cycle \/ Connect \/ Answer \/ Leave \/ Revoke \/ Disconnect
        \/ FetchRead \/ FetchEnd
Spec == Init /\ [][Next]_vars

\* Time passes, the ticker fires, the calls of a handler end, asynq runs its tasks.
Fairness == WF_vars(Tick) /\ WF_vars(Cycle) /\ WF_vars(Answer) /\ WF_vars(Disconnect)
            /\ WF_vars(FetchEnd)
FairSpec == Spec /\ Fairness

-----------------------------------------------------------------------------
(* Properties.                                                             *)

\* Every variable has its type.
TypeOK ==
  /\ provider \in Providers
  /\ status \in {"ACTIVE", "REAUTH_REQUIRED", "DISCONNECTED"}
  /\ creds \in Creds \cup {None} /\ project \in BOOLEAN
  /\ score \in (0..Life) \cup {None}
  /\ life \in [Subs -> 0..Life] /\ valid \subseteq Grants
  /\ due \in BOOLEAN
  /\ ren \in [pc : {"idle", "read", "token", "patch", "create", "watch", "save", "zadd"},
              creds : Creds \cup {None}]
  /\ ren.pc \in {"idle", "read"} \/ ren.creds # None
  /\ cb \in [pc : {"idle", "register", "save", "zadd"}, grant : 0..MaxOwner, sub : Subs \cup {None}]
  /\ cb.pc = "idle" \/ cb.grant # 0
  /\ disc \in [pc : {"idle", "queued", "cleanup", "clear"}, creds : Creds \cup {None},
               project : BOOLEAN]
  /\ fetch \in Creds \cup {None}
  /\ owner \in 0..MaxOwner /\ faults \in 0..MaxFaults
  /\ misses \in 0..Horizon /\ gap \in BOOLEAN

\* While an account is ACTIVE and tracked the provider notifies it: nothing is live only
\* after every cycle of the last 24 hours failed - however callbacks, cycles and late
\* saves overwrite each other's credentials - or when the last registration failed or
\* was deleted by a disconnect task (renewer.go 56-66, 186-327).
NoLapse == status = "ACTIVE" /\ score # None /\ Live = {} => misses = Horizon \/ gap

\* And then it recovers: once nothing is live, a cycle registers again or finds that the
\* account is no longer ACTIVE.  An account with no entry in the sorted set is left out:
\* the callback says its "subscription loop can pick it up" (outlook.go 207), and it
\* cannot.
Recovered == (Renewable /\ score # None /\ Live = {}) ~> (Live # {} \/ ~Renewable)

\* A grant that was revoked shows: the account does not stay ACTIVE on credentials that
\* no longer work (renewer.go 115-124, 223-232).
RevocationNoticed ==
  (Renewable /\ score # None /\ creds.grant \notin valid)
    ~> (~Renewable \/ creds.grant \in valid)
=============================================================================
