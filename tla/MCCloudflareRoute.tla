-------------------------- MODULE MCCloudflareRoute --------------------------
(* A small instance of CloudflareRoute for TLC: two mails to two mailboxes,   *)
(* of the same message, of different ones, or without a Message-ID.           *)
EXTENDS CloudflareRoute

CONSTANTS m1, m2, b1, b2

Apart == [m \in Mails |-> IF m = m1 THEN b1 ELSE b2]
=============================================================================
