---------------------------- MODULE MCImapFetch -----------------------------
(* ImapFetch for TLC: how far the Date headers are off.                      *)
EXTENDS ImapFetch

\* Dates of a slow clock, of a fast one and of one that is hours ahead.
Drift == {-2, 1, 3}
=============================================================================
