------------------------- MODULE MCFirestoreWrites --------------------------
(* FirestoreWrites on a small instance.  A third write is made in the runs   *)
(* that have at most two of: a change of account, a failure, a crash.  None  *)
(* of these has fairness, so the runs left out are not needed for liveness.  *)
EXTENDS FirestoreWrites

ThirdWriteInCalmerRuns ==
    Len(by) <= 2 \/ spent.accounts + spent.faults + spent.crashes <= 2
=============================================================================
