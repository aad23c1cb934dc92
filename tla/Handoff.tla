------------------------------- MODULE Handoff -------------------------------
(***************************************************************************)
(* What the service promises about every message, whichever provider       *)
(* brings it: a message that has arrived is handed to processing (an       *)
(* "email:process" task is enqueued for it) at most once.  A message may   *)
(* become exempt - Redis failed its dedup check, its key ran out - and can *)
(* then be handed off again.  Nothing is taken back.                       *)
(*                                                                         *)
(* MessagePipeline, GmailFetch, ImapFetch and CloudflareRoute implement    *)
(* this: notifications, tasks, retries, crashes, keys and windows of theirs *)
(* are steps that leave these three variables alone.                       *)
(***************************************************************************)
EXTENDS Naturals

CONSTANT Messages

VARIABLES
  arrived,   \* messages the provider has received
  handed,    \* handed[m]: how often m has been handed to processing
  exempt     \* messages the promise no longer covers

vars == <<arrived, handed, exempt>>

Init == arrived = {} /\ handed = [m \in Messages |-> 0] /\ exempt = {}

\* A message may be exempt from the start: ImapFetch takes the sender's date.
Arrive(m) ==
  /\ m \notin arrived
  /\ arrived' = arrived \cup {m}
  /\ exempt' \in {exempt, exempt \cup {m}}
  /\ UNCHANGED handed

Exempt(m) ==
  /\ m \in arrived
  /\ exempt' = exempt \cup {m}
  /\ UNCHANGED <<arrived, handed>>

HandOff(m) ==
  /\ m \in arrived
  /\ handed[m] = 0 \/ m \in exempt
  /\ handed' = [handed EXCEPT ![m] = @ + 1]
  /\ UNCHANGED <<arrived, exempt>>

Next == \E m \in Messages : Arrive(m) \/ Exempt(m) \/ HandOff(m)
Spec == Init /\ [][Next]_vars
=============================================================================
