--------------------------- MODULE UploadContract ---------------------------
(***************************************************************************)
(* What the upload of local changes promises, without Core Data, screens   *)
(* or threads: a change the app took from the user is owed to the server   *)
(* until a call that carries its content is queued for Firestore.  Changes *)
(* may become owed at any time (and again, when a crash forgot that they   *)
(* were uploaded); the only way to stop owing one is to hand it over.      *)
(***************************************************************************)
EXTENDS Sequences

VARIABLES owed,   \* set of [obj, content]: changes not handed over
          calls   \* calls queued for Firestore's worker

Init == owed = {}

Take == owed \subseteq owed'

HandOver ==
  /\ calls' # << >>
  /\ LET call == calls'[Len(calls')] IN
     /\ calls' = Append(calls, call) /\ call.op = "set"
     /\ \E x \in owed : call.content = x.content /\ owed' = owed \ {x}

Next == Take \/ HandOver

Spec == Init /\ [][Next]_owed
=============================================================================
