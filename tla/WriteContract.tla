---------------------------- MODULE WriteContract ----------------------------
(***************************************************************************)
(* What the Firestore client promises about local writes, without streams, *)
(* tokens or retries.  Every user has a queue of writes the device owes to *)
(* the backend.  The backend applies a write at least once, never before   *)
(* the writes the same user made earlier, and never again after a write    *)
(* has left the queue, so what a user wrote last is what stays.            *)
(***************************************************************************)
EXTENDS Integers, Sequences

CONSTANTS Users,    \* who may be signed in
          Writes,   \* the writes, numbered in the order the app makes them
          Refused   \* the writes the backend's rules turn down

VARIABLES owed,     \* for each user, the writes still owed, oldest first
          applied,  \* the writes the backend has applied
          latest    \* for each user, the write the backend applied last

vars == <<owed, applied, latest>>

Init == /\ owed = [u \in Users |-> <<>>]
        /\ applied = {}
        /\ latest = [u \in Users |-> 0]

\* The app hands over a write, which is stored behind the user's others.
Store(u, w) ==
    /\ \A v \in Users : \A i \in DOMAIN owed[v] : owed[v][i] < w
    /\ w \notin applied /\ w > latest[u]
    /\ owed' = [owed EXCEPT ![u] = Append(@, w)]
    /\ UNCHANGED <<applied, latest>>

\* The backend applies an owed write once the earlier ones were applied.
Apply(u, i) ==
    /\ i \in DOMAIN owed[u]
    /\ owed[u][i] \notin Refused
    /\ \A j \in 1..(i - 1) : owed[u][j] \in applied
    /\ applied' = applied \cup {owed[u][i]}
    /\ latest' = [latest EXCEPT ![u] = owed[u][i]]
    /\ UNCHANGED owed

\* The oldest write leaves the queue: applied, and nothing older than it was
\* applied after it, or refused by the backend's rules.
Settle(u) ==
    /\ owed[u] # <<>>
    /\ \/ Head(owed[u]) \in applied /\ Head(owed[u]) <= latest[u]
       \/ Head(owed[u]) \in Refused
    /\ owed' = [owed EXCEPT ![u] = Tail(@)]
    /\ UNCHANGED <<applied, latest>>

Next == \E u \in Users :
            \/ \E w \in Writes : Store(u, w)
            \/ \E i \in 1..Len(owed[u]) : Apply(u, i)
            \/ Settle(u)

Spec == Init /\ [][Next]_vars
=============================================================================
