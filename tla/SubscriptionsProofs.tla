------------------------ MODULE SubscriptionsProofs ------------------------
(* Theorems of Subscriptions, for any number of ids, connections, failures   *)
(* and ticks, and for either provider.                                       *)
EXTENDS Subscriptions, TLAPS

USE SubscriptionAssumption DEF SubscriptionAssumption

LEMMA NewSubTyped == Fresh # {} => NewSub \in Subs
  BY DEF NewSub, Fresh

LEMMA BeginTyped ==
  ASSUME TypeOK, NEW s \in Subs, Begin(s)
  PROVE  /\ life' \in [Subs -> 0..Life] /\ life'[s] = Life
         /\ \A r \in Subs : life'[r] >= life[r]
  BY DEF TypeOK, Begin

LEMMA MissTyped == TypeOK /\ Miss => misses' \in 0..Horizon /\ gap' = gap
  BY DEF TypeOK, Miss
LEMMA RenewedTyped == Renewed => misses' \in 0..Horizon /\ gap' \in BOOLEAN
<1>1. Renewed => misses' \in 0..Horizon
  BY DEF Renewed
<1>2. Renewed => gap' \in BOOLEAN
  BY Zenon DEF Renewed
<1>. QED BY <1>1, <1>2
LEMMA FaultTyped == TypeOK /\ Fault => faults' \in 0..MaxFaults
  BY DEF TypeOK, Fault
LEMMA ReauthTyped ==
  TypeOK /\ Reauth => /\ status' \in {"ACTIVE", "REAUTH_REQUIRED", "DISCONNECTED"}
                      /\ creds' \in Creds \cup {None} /\ project' \in BOOLEAN
  BY DEF TypeOK, Reauth

\* The typing of the row, of the counts and of the cycle.
RowOK   == /\ status \in {"ACTIVE", "REAUTH_REQUIRED", "DISCONNECTED"}
           /\ creds \in Creds \cup {None} /\ project \in BOOLEAN
CountOK == faults \in 0..MaxFaults /\ misses \in 0..Horizon /\ gap \in BOOLEAN
RenOK   == /\ ren \in [pc : {"idle", "read", "token", "patch", "create", "watch", "save", "zadd"},
                       creds : Creds \cup {None}]
           /\ ren.pc \in {"idle", "read"} \/ ren.creds # None
LifeOK  == score \in (0..Life) \cup {None} /\ life \in [Subs -> 0..Life]

LEMMA CycleTyped ==
  ASSUME TypeOK, Cycle
  PROVE  RowOK' /\ CountOK' /\ RenOK' /\ LifeOK'
<1>. USE DEF TypeOK, RowOK, CountOK, RenOK, LifeOK
<1>1. CASE Scan
  BY <1>1, MissTyped, FaultTyped DEF Scan, Goto, row, remote
<1>2. CASE RenewRead
  BY <1>2, MissTyped, FaultTyped DEF RenewRead, Renewer, Renewable, EndCycle, NoCycle, row
<1>3. CASE RenewToken
  BY <1>3, MissTyped, FaultTyped, ReauthTyped
     DEF RenewToken, Renewer, Goto, Refused, EndCycle, NoCycle, row
<1>4. CASE RenewPatch
  <2>1. UNCHANGED life \/ (\E s \in Subs : Begin(s))
    BY <1>4 DEF RenewPatch, Live
  <2>2. life' \in [Subs -> 0..Life]
    BY <2>1, BeginTyped
  <2>. QED BY <1>4, <2>2, RenewedTyped, FaultTyped DEF RenewPatch, Renewer, Goto, row
<1>5. CASE RenewCreate
  <2>1. NewSub \in Subs
    BY <1>5, NewSubTyped DEF RenewCreate
  <2>2. life' \in [Subs -> 0..Life]
    BY <1>5, <2>1, BeginTyped DEF RenewCreate
  <2>3. [ren.creds EXCEPT !.sub = NewSub] \in Creds
    BY <1>5, <2>1 DEF RenewCreate, Renewer, Creds
  <2>4. RenOK'
    <3>1. \/ ren' = [pc |-> "save", creds |-> [ren.creds EXCEPT !.sub = NewSub]]
          \/ ren' = NoCycle
      BY <1>5 DEF RenewCreate, EndCycle
    <3>. DEFINE c == [ren.creds EXCEPT !.sub = NewSub]
    <3>2. c \in Creds /\ c # None
      BY <2>3
    <3>. HIDE DEF c, TypeOK
    <3>3. CASE ren' = [pc |-> "save", creds |-> c]
      BY <3>2, <3>3
    <3>4. CASE ren' = NoCycle
      BY <3>4 DEF NoCycle
    <3>. QED BY <3>1, <3>3, <3>4 DEF c
  <2>5. RowOK' /\ CountOK' /\ score' = score
    BY <1>5, MissTyped, RenewedTyped, FaultTyped, ReauthTyped DEF RenewCreate, row
  <2>. QED BY <2>2, <2>4, <2>5
<1>6. CASE RenewWatch
  <2>1. life' \in [Subs -> 0..Life]
    BY <1>6, BeginTyped DEF RenewWatch
  <2>. QED BY <1>6, <2>1, MissTyped, RenewedTyped, FaultTyped, ReauthTyped
           DEF RenewWatch, Renewer, Goto, EndCycle, NoCycle, row
<1>7. CASE RenewSave
  BY <1>7, FaultTyped DEF RenewSave, Renewer, Goto, Save, row
<1>8. CASE RenewZAdd
  BY <1>8, FaultTyped DEF RenewZAdd, Renewer, EndCycle, NoCycle, row
<1>. QED BY <1>1, <1>2, <1>3, <1>4, <1>5, <1>6, <1>7, <1>8 DEF Cycle

\* What a cycle leaves alone.
LEMMA CycleFrame == Cycle => UNCHANGED <<provider, valid, cb, disc, fetch, owner>> /\ due' \in {due, FALSE}
  BY DEF Cycle, Scan, RenewRead, RenewToken, RenewPatch, RenewCreate, RenewWatch, RenewSave,
         RenewZAdd, Renewer, remote

LEMMA AnswerTyped ==
  ASSUME TypeOK, Answer PROVE TypeOK'
<1>. USE DEF TypeOK
<1>1. CASE CbRegister
  <2>. DEFINE s == IF Gmail THEN Watch ELSE NewSub
  <2>1. s \in Subs
    BY <1>1, NewSubTyped DEF CbRegister
  <2>2. (Begin(s) \/ UNCHANGED life) /\ score' = score
    BY <1>1 DEF CbRegister
  <2>3. life' \in [Subs -> 0..Life]
    BY <2>1, <2>2, BeginTyped
  <2>4. \/ cb' = [cb EXCEPT !.pc = "save", !.sub = s]
        \/ cb' = [cb EXCEPT !.pc = "save"]
        \/ cb' = NoCall
    BY <1>1 DEF CbRegister
  <2>5. cb.pc = "register" /\ UNCHANGED <<provider, due, ren, disc, fetch, owner, valid, row>>
    BY <1>1 DEF CbRegister, Callback
  <2>6. /\ cb' \in [pc : {"idle", "register", "save", "zadd"}, grant : 0..MaxOwner, sub : Subs \cup {None}]
        /\ cb'.pc = "idle" \/ cb'.grant # 0
    <3>. HIDE DEF s
    <3>1. CASE cb' = [cb EXCEPT !.pc = "save", !.sub = s]
      BY <3>1, <2>1, <2>5
    <3>2. CASE cb' = [cb EXCEPT !.pc = "save"]
      BY <3>2, <2>5
    <3>3. CASE cb' = NoCall
      BY <3>3 DEF NoCall
    <3>. QED BY <3>1, <3>2, <3>3, <2>4
  <2>7. CountOK'
    BY <1>1, RenewedTyped, FaultTyped DEF CbRegister, CountOK
  <2>. QED BY <2>2, <2>3, <2>5, <2>6, <2>7 DEF CountOK, row
<1>2. CASE CbSave
  <2>1. [sub |-> cb.sub, grant |-> cb.grant] \in Creds
    BY <1>2 DEF CbSave, Callback, Creds, Grants
  <2>2. /\ cb' \in [pc : {"idle", "register", "save", "zadd"}, grant : 0..MaxOwner, sub : Subs \cup {None}]
        /\ cb'.pc = "idle" \/ cb'.grant # 0
    BY <1>2 DEF CbSave, Callback, NoCall
  <2>3. RowOK'
    <3>1. CASE UNCHANGED row
      BY <3>1 DEF RowOK, row
    <3>2. CASE ~UNCHANGED row
      <4>1. status' = "ACTIVE" /\ creds' \in Creds
        BY <3>2, <1>2, <2>1 DEF CbSave
      <4>2. project' \in BOOLEAN
        BY <3>2, <1>2 DEF CbSave, Gmail
      <4>. QED BY <4>1, <4>2 DEF RowOK
    <3>. QED BY <3>1, <3>2
  <2>4. faults' \in 0..MaxFaults
    BY <1>2, FaultTyped DEF CbSave
  <2>. QED BY <1>2, <2>2, <2>3, <2>4 DEF CbSave, Callback, RowOK
<1>3. CASE CbZAdd
  BY <1>3, FaultTyped DEF CbZAdd, Callback, NoCall, row
<1>. QED BY <1>1, <1>2, <1>3 DEF Answer

LEMMA DisconnectTyped ==
  ASSUME TypeOK, Disconnect PROVE TypeOK'
<1>. USE DEF TypeOK
<1>1. CASE DiscRead
  BY <1>1, FaultTyped DEF DiscRead, Task, row, remote
<1>2. CASE DiscCleanup
  <2>1. \A s \in Subs : Stop(s) => life' \in [Subs -> 0..Life] /\ gap' = TRUE
    BY DEF Stop
  <2>2. Stopped => (IF Gmail THEN Watch ELSE disc.creds.sub) \in Subs
    BY DEF Stopped, Creds
  <2>3. \/ UNCHANGED <<life, gap>>
        \/ Stop(IF Gmail THEN Watch ELSE disc.creds.sub) /\ Stopped
        \/ Stop(Watch)
    BY <1>2, Zenon DEF DiscCleanup, remote
  <2>4. life' \in [Subs -> 0..Life] /\ gap' \in BOOLEAN
    BY <2>1, <2>2, <2>3
  <2>5. valid' \subseteq valid /\ faults' \in 0..MaxFaults
    BY <1>2, FaultTyped DEF DiscCleanup, remote
  <2>6. disc' = [disc EXCEPT !.pc = "clear"] /\ Task("cleanup") /\ UNCHANGED row
    BY <1>2 DEF DiscCleanup
  <2>. QED BY <2>4, <2>5, <2>6 DEF Task, row
<1>3. CASE DiscClear
  <2>1. /\ disc' \in [pc : {"idle", "queued", "cleanup", "clear"}, creds : Creds \cup {None},
                     project : BOOLEAN]
    <3>1. NoTask \in [pc : {"idle", "queued", "cleanup", "clear"}, creds : Creds \cup {None},
                      project : BOOLEAN]
      BY DEF NoTask
    <3>. QED BY <1>3, <3>1 DEF DiscClear
  <2>2. RowOK'
    BY <1>3 DEF DiscClear, RowOK, row
  <2>. QED BY <1>3, <2>1, <2>2, FaultTyped DEF DiscClear, Task, RowOK, remote
<1>. QED BY <1>1, <1>2, <1>3 DEF Disconnect

LEMMA TypeStep == TypeOK /\ [Next]_vars => TypeOK'
<1>. SUFFICES ASSUME TypeOK, [Next]_vars PROVE TypeOK'
  OBVIOUS
<1>1. CASE Tick
  BY <1>1 DEF TypeOK, Tick, Less, row
<1>2. CASE Cycle
  BY <1>2, CycleTyped, CycleFrame DEF TypeOK, RowOK, CountOK, RenOK, LifeOK
<1>3. CASE Connect
  BY <1>3 DEF TypeOK, Connect, Owner, Grants, row
<1>4. CASE Answer
  BY <1>4, AnswerTyped
<1>5. CASE Leave
  BY <1>5 DEF TypeOK, Leave, Owner, row, remote
<1>6. CASE Revoke
  BY <1>6 DEF TypeOK, Revoke, Owner, row
<1>7. CASE Disconnect
  BY <1>7, DisconnectTyped
<1>8. CASE FetchRead
  BY <1>8 DEF TypeOK, FetchRead, row, remote
<1>9. CASE FetchEnd
  BY <1>9 DEF TypeOK, FetchEnd, Save, Reauth, row, remote
<1>10. CASE UNCHANGED vars
  BY <1>10 DEF TypeOK, vars, row, remote
<1>. QED BY <1>1, <1>2, <1>3, <1>4, <1>5, <1>6, <1>7, <1>8, <1>9, <1>10 DEF Next

\* TypeOK holds in every reachable state.
THEOREM TypeCorrect == Spec => []TypeOK
<1>1. ASSUME Init PROVE TypeOK
  <2>1. /\ disc \in [pc : {"idle", "queued", "cleanup", "clear"}, creds : Creds \cup {None},
                    project : BOOLEAN]
        /\ cb.pc = "idle"
        /\ cb \in [pc : {"idle", "register", "save", "zadd"}, grant : 0..MaxOwner, sub : Subs \cup {None}]
    BY <1>1 DEF Init, NoTask, NoCall
  <2>2. /\ ren \in [pc : {"idle", "read", "token", "patch", "create", "watch", "save", "zadd"},
                   creds : Creds \cup {None}]
        /\ ren.pc = "idle"
    BY <1>1 DEF Init, NoCycle
  <2>3. life \in [Subs -> 0..Life]
    BY <1>1 DEF Init
  <2>4. /\ provider \in Providers /\ status = "DISCONNECTED" /\ creds = None
        /\ score = None /\ valid = {} /\ fetch = None /\ owner = 0 /\ faults = 0 /\ misses = 0
    BY <1>1 DEF Init
  <2>5. project \in BOOLEAN /\ due \in BOOLEAN /\ gap \in BOOLEAN
    BY <1>1 DEF Init
  <2>. QED BY <2>1, <2>2, <2>3, <2>4, <2>5 DEF TypeOK
<1>. QED BY <1>1, TypeStep, PTL DEF Spec

-----------------------------------------------------------------------------
\* A subscription that lives at least as long as the sorted set says, and whose loss of
\* time the misses account for.
Covers(s) ==
  /\ score <= life[s]
  /\ misses + life[s] >= Horizon
  /\ due \/ ren.pc # "idle" \/ misses = Horizon \/ misses + life[s] > Horizon

\* Somebody is about to note the full life of what it has registered.
Renewing == ren.pc \in {"save", "zadd"} \/ (cb.pc \in {"save", "zadd"} /\ cb.sub # None)

\* What makes NoLapse inductive: what the sorted set tracks is covered, and what is
\* about to be noted is true.
LapseInv ==
  gap \/ /\ score = None \/ \E s \in Subs : Covers(s)
         /\ Renewing => \E s \in Subs : life[s] = Life

\* A registration covers whatever the sorted set says.
LEMMA RenewedCovers ==
  ASSUME TypeOK, TypeOK', UNCHANGED score, NEW s \in Subs, Begin(s), Renewed
  PROVE  LapseInv'
<1>1. life'[s] = Life /\ misses' = 0
  BY BeginTyped DEF Renewed
<1>2. score' = None \/ Covers(s)'
  BY <1>1 DEF Covers, TypeOK
<1>. QED BY <1>1, <1>2 DEF LapseInv

\* A write to the sorted set notes a life that some subscription has.
LEMMA NotedCovers ==
  ASSUME TypeOK, Renewing, LapseInv, UNCHANGED <<life, gap, misses>>, score' \in {score, Life}
  PROVE  gap' \/ /\ score' = None \/ \E s \in Subs : Covers(s)'
                 /\ \E s \in Subs : life'[s] = Life
<1>. SUFFICES ASSUME ~gap
     PROVE  /\ score' = None \/ \E s \in Subs : Covers(s)'
            /\ \E s \in Subs : life'[s] = Life
  OBVIOUS
<1>1. PICK s \in Subs : life[s] = Life
  BY DEF LapseInv
<1>2. score' = None \/ Covers(s)'
  BY <1>1 DEF Covers, TypeOK
<1>. QED BY <1>1, <1>2

\* Lives that do not shrink, with misses that do not fall and a cycle that is still to
\* come or has been counted, cover what they covered.
LEMMA StillCovers ==
  ASSUME TypeOK, TypeOK', LapseInv, UNCHANGED score,
         \A s \in Subs : life'[s] >= life[s],
         gap => gap',
         misses' >= misses,
         due' \/ ren'.pc # "idle" \/ (~due /\ ren.pc = "idle") \/ misses' > misses \/ misses' = Horizon,
         Renewing' => Renewing
  PROVE  LapseInv'
<1>. SUFFICES ASSUME ~gap' PROVE LapseInv'
  BY DEF LapseInv
<1>1. ASSUME NEW s \in Subs, Covers(s), score # None PROVE Covers(s)'
  BY <1>1 DEF Covers, TypeOK
<1>2. ASSUME NEW s \in Subs, life[s] = Life PROVE life'[s] = Life
  BY <1>2 DEF TypeOK
<1>. QED BY <1>1, <1>2 DEF LapseInv

\* A cycle that fails is counted as a miss.
LEMMA MissCovers ==
  ASSUME TypeOK, TypeOK', LapseInv, UNCHANGED <<score, cb>>, Miss, ren'.pc = "idle",
         \A s \in Subs : life'[s] >= life[s]
  PROVE  LapseInv'
<1>1. gap' = gap /\ misses' >= misses /\ (misses' > misses \/ misses' = Horizon)
  BY DEF Miss, TypeOK
<1>2. Renewing' => Renewing
  BY DEF Renewing
<1>. QED BY <1>1, <1>2, StillCovers

LEMMA CycleCovers ==
  ASSUME TypeOK, TypeOK', LapseInv, Cycle PROVE LapseInv'
<1>0. UNCHANGED <<life, score>> => \A s \in Subs : life'[s] >= life[s]
  BY DEF TypeOK
<1>. USE DEF row, remote
<1>1. CASE Scan
  <2>0. /\ ren.pc = "idle" /\ due /\ ~due' /\ UNCHANGED <<score, life, cb>>
    BY <1>1 DEF Scan
  <2>1. CASE Expiring /\ Goto("read") /\ UNCHANGED <<misses, gap>>
    <3>1. ren'.pc = "read" /\ misses' >= misses
      BY <2>1 DEF Goto, TypeOK
    <3>. QED BY <1>0, <2>0, <2>1, <3>1, StillCovers DEF Renewing
  <2>2. CASE ~Expiring /\ UNCHANGED <<ren, misses, gap>>
    <3>1. ASSUME NEW s \in Subs, Covers(s), score # None PROVE Covers(s)'
      BY <2>0, <2>2, <3>1 DEF Expiring, Covers, TypeOK
    <3>. QED BY <2>0, <2>2, <3>1 DEF LapseInv, Renewing
  <2>3. CASE Miss /\ UNCHANGED ren
    BY <1>0, <2>0, <2>3, MissCovers
  <2>. QED BY <1>1, <2>1, <2>2, <2>3 DEF Scan
<1>2. CASE RenewRead
  <2>1. CASE EndCycle /\ Miss
    BY <1>0, <1>2, <2>1, MissCovers DEF RenewRead, Renewer, EndCycle, NoCycle
  <2>2. CASE ren' = [pc |-> "token", creds |-> creds] /\ UNCHANGED <<misses, gap>>
    BY <1>0, <1>2, <2>2, StillCovers DEF RenewRead, Renewer, Renewing, TypeOK
  <2>. QED BY <1>2, <2>1, <2>2 DEF RenewRead
<1>3. CASE RenewToken
  <2>1. CASE EndCycle /\ Miss
    BY <1>0, <1>3, <2>1, MissCovers DEF RenewToken, Renewer, EndCycle, NoCycle
  <2>2. CASE Goto(IF Gmail THEN "watch" ELSE "patch") /\ UNCHANGED <<misses, gap>>
    <3>1. ren'.pc \in {"watch", "patch"} /\ misses' >= misses
      BY <2>2 DEF Goto, TypeOK
    <3>. QED BY <1>0, <1>3, <2>2, <3>1, StillCovers DEF RenewToken, Renewer, Renewing
  <2>. QED BY <1>3, <2>1, <2>2 DEF RenewToken
<1>4. CASE RenewPatch
  <2>1. CASE Renewed /\ ren.creds.sub \in Live /\ Begin(ren.creds.sub)
    BY <1>4, <2>1, RenewedCovers DEF RenewPatch, Live
  <2>2. CASE Goto("create") /\ UNCHANGED <<misses, gap>>
             /\ (UNCHANGED life \/ (ren.creds.sub \in Live /\ Begin(ren.creds.sub)))
    <3>1. ren'.pc = "create" /\ misses' >= misses
      BY <2>2 DEF Goto, TypeOK
    <3>2. \A s \in Subs : life'[s] >= life[s]
      BY <1>0, <1>4, <2>2, BeginTyped DEF RenewPatch, Live
    <3>. QED BY <1>4, <2>2, <3>1, <3>2, StillCovers DEF RenewPatch, Renewer, Renewing
  <2>. QED BY <1>4, <2>1, <2>2 DEF RenewPatch
<1>5. CASE RenewCreate
  <2>0. NewSub \in Subs /\ UNCHANGED <<score, cb>>
    BY <1>5, NewSubTyped DEF RenewCreate, Renewer
  <2>1. CASE Renewed /\ Begin(NewSub)
    BY <2>0, <2>1, RenewedCovers
  <2>2. CASE EndCycle /\ Miss /\ (UNCHANGED life \/ Begin(NewSub))
    <3>1. \A s \in Subs : life'[s] >= life[s]
      BY <1>0, <2>0, <2>2, BeginTyped
    <3>. QED BY <2>0, <2>2, <3>1, MissCovers DEF EndCycle, NoCycle
  <2>. QED BY <1>5, <2>1, <2>2 DEF RenewCreate
<1>6. CASE RenewWatch
  <2>0. Watch \in Subs /\ UNCHANGED <<score, cb>>
    BY <1>6 DEF RenewWatch, Renewer
  <2>1. CASE Renewed /\ Begin(Watch)
    BY <2>0, <2>1, RenewedCovers
  <2>2. CASE EndCycle /\ Miss /\ (UNCHANGED life \/ Begin(Watch))
    <3>1. \A s \in Subs : life'[s] >= life[s]
      BY <1>0, <2>0, <2>2, BeginTyped
    <3>. QED BY <2>0, <2>2, <3>1, MissCovers DEF EndCycle, NoCycle
  <2>. QED BY <1>6, <2>1, <2>2 DEF RenewWatch
<1>7. CASE RenewSave
  <2>1. ren'.pc = "zadd" /\ misses' >= misses
    BY <1>7 DEF RenewSave, Goto, TypeOK
  <2>. QED BY <1>0, <1>7, <2>1, StillCovers DEF RenewSave, Renewer, Renewing
<1>8. CASE RenewZAdd
  BY <1>8, NotedCovers DEF RenewZAdd, Renewer, Renewing, LapseInv
<1>. QED BY <1>1, <1>2, <1>3, <1>4, <1>5, <1>6, <1>7, <1>8 DEF Cycle

LEMMA AnswerCovers ==
  ASSUME TypeOK, TypeOK', LapseInv, Answer PROVE LapseInv'
<1>0. misses' = misses => misses' >= misses
  BY DEF TypeOK
<1>1. CASE CbRegister
  <2>. DEFINE s == IF Gmail THEN Watch ELSE NewSub
  <2>0. s \in Subs /\ UNCHANGED <<score, ren, due>> /\ cb.pc = "register"
    BY <1>1, NewSubTyped DEF CbRegister, Callback
  <2>1. CASE Renewed /\ Begin(s)
    BY <2>0, <2>1, RenewedCovers
  <2>2. CASE gap' = TRUE
    BY <2>2 DEF LapseInv
  <2>3. CASE cb' = NoCall /\ UNCHANGED <<gap, misses>> /\ (UNCHANGED life \/ Begin(s))
    <3>1. \A r \in Subs : life'[r] >= life[r]
      BY <2>0, <2>3, BeginTyped DEF TypeOK
    <3>. QED BY <1>0, <2>0, <2>3, <3>1, StillCovers DEF NoCall, Renewing
  <2>. QED BY <1>1, <2>1, <2>2, <2>3 DEF CbRegister
<1>2. CASE CbSave
  <2>1. \A r \in Subs : life'[r] >= life[r]
    BY <1>2 DEF CbSave, TypeOK
  <2>2. Renewing' => Renewing
    BY <1>2 DEF CbSave, Callback, NoCall, Renewing, TypeOK
  <2>. QED BY <1>0, <1>2, <2>1, <2>2, StillCovers DEF CbSave, Callback
<1>3. CASE CbZAdd
  <2>0. UNCHANGED <<life, misses, gap, ren, due>> /\ cb.pc = "zadd" /\ cb'.pc = "idle"
    BY <1>3 DEF CbZAdd, Callback, NoCall
  <2>1. CASE cb.sub # None /\ score' = Life
    BY <2>0, <2>1, NotedCovers DEF Renewing, LapseInv
  <2>2. CASE UNCHANGED score
    <3>1. \A r \in Subs : life'[r] >= life[r]
      BY <2>0 DEF TypeOK
    <3>. QED BY <1>0, <2>0, <2>2, <3>1, StillCovers DEF Renewing
  <2>. QED BY <1>3, <2>1, <2>2 DEF CbZAdd
<1>. QED BY <1>1, <1>2, <1>3 DEF Answer

LEMMA LapseStep == TypeOK /\ TypeOK' /\ LapseInv /\ [Next]_vars => LapseInv'
<1>. SUFFICES ASSUME TypeOK, TypeOK', LapseInv, [Next]_vars PROVE LapseInv'
  OBVIOUS
<1>1. CASE Tick
  <2>1. /\ ~due /\ ren.pc = "idle" /\ cb.pc = "idle" /\ due'
        /\ UNCHANGED <<ren, cb, misses, gap>>
        /\ score' = IF score = None THEN None ELSE Less(score)
        /\ \A s \in Subs : life'[s] = Less(life[s])
    BY <1>1 DEF Tick
  <2>2. ASSUME NEW s \in Subs, Covers(s), score # None PROVE Covers(s)'
    <3>1. score \in Nat /\ life[s] \in Nat /\ misses \in 0..Horizon
      BY <2>2 DEF TypeOK
    <3>. QED BY <2>1, <2>2, <3>1 DEF Covers, Less
  <2>. QED BY <2>1, <2>2 DEF LapseInv, Renewing
<1>2. CASE Cycle
  BY <1>2, CycleCovers
<1>3. CASE Answer
  BY <1>3, AnswerCovers
<1>4. CASE Disconnect
  <2>1. UNCHANGED <<score, misses, due, ren, cb>> /\ (gap' = TRUE \/ UNCHANGED <<life, gap>>)
    BY <1>4 DEF Disconnect, DiscRead, DiscCleanup, DiscClear, Task, Stop, remote
  <2>. QED BY <2>1 DEF LapseInv, Covers, Renewing
<1>5. CASE Connect
  <2>1. UNCHANGED <<score, misses, due, ren, life, gap>> /\ cb.pc = "idle" /\ cb'.pc = "register"
    BY <1>5 DEF Connect
  <2>. QED BY <2>1 DEF LapseInv, Covers, Renewing
<1>6. CASE UNCHANGED <<score, misses, due, ren, cb, life, gap>>
  BY <1>6 DEF LapseInv, Covers, Renewing
<1>. QED BY <1>1, <1>2, <1>3, <1>4, <1>5, <1>6
         DEF Next, Leave, Revoke, FetchRead, FetchEnd, vars, remote

\* NoLapse: an ACTIVE, tracked account of either provider has a live subscription until
\* every cycle of a day has failed, whatever callbacks, cycles, disconnect tasks and
\* late saves do to each other.
THEOREM NeverLapses == Spec => []NoLapse
<1>1. Init => LapseInv
  BY DEF Init, LapseInv, Renewing, NoCycle, NoCall
<1>2. TypeOK /\ LapseInv => NoLapse
  <2>. SUFFICES ASSUME TypeOK, LapseInv, score # None, Live = {}, ~gap PROVE misses = Horizon
    BY DEF NoLapse
  <2>1. PICK s \in Subs : Covers(s)
    BY DEF LapseInv
  <2>2. life[s] = 0
    BY DEF Live, TypeOK
  <2>. QED BY <2>1, <2>2 DEF Covers, TypeOK
<1>. QED BY <1>1, <1>2, LapseStep, TypeCorrect, PTL DEF Spec
=============================================================================
