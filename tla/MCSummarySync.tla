---------------------------- MODULE MCSummarySync ----------------------------
(* Small instances of SummarySync for TLC. *)
EXTENDS SummarySync, TLC

(* The names of sessions, clients and snapshots are interchangeable. *)
Interchangeable == Permutations(Ids) \cup Permutations(Clients) \cup Permutations(Snaps)
=============================================================================
