----------------------------- MODULE MCTaskSync -----------------------------
(* TaskSync on small instances.  Contents and draft objects are              *)
(* interchangeable; liveness is checked without symmetry.                    *)
EXTENDS TaskSync, TLC

Symmetry == Permutations(Text) \cup Permutations(Draft)

\* A run either crashes, or has faults of the network and another device.
OneKindOfFault == used.crash = 0 \/ (used.remote = 0 /\ used.reject = 0)
=============================================================================
