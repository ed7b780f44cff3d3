----------------------------- MODULE MCSyncJobs -----------------------------
(* Two processes; the backoff of 300 and 1800 seconds is one and two steps. *)
EXTENDS SyncJobs, TLC

MCBackoff == <<1, 2>>

Symmetry == Permutations(Workers)
=============================================================================
