---------------------------- MODULE MCTaskReminders ----------------------------
(* The instance of TaskReminders that TLC checks. *)
EXTENDS TaskReminders, TLC

\* Documents, and rows the app inserts, are interchangeable.
Symmetry == Permutations(Doc) \cup Permutations(Draft)
=============================================================================
