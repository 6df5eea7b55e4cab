---------------------------- MODULE FirestoreWatch ----------------------------
(***************************************************************************)
(* The listening side of the Firestore client: the targets of the remote   *)
(* store, the watch stream, the aggregator that counts the backend's       *)
(* responses, the tracker that decides whether the client is online, and   *)
(* what the listeners of each target were shown.  As in FirestoreWrites    *)
(* every operation of the worker queue is one action.  A view starts with  *)
(* nothing in the local cache, and nobody else's query shares its target.  *)
(* The backend never sends the target change RESET, the versions of its    *)
(* snapshots never go back (the guard of remote_store.cc:282 holds), and   *)
(* every message can be read (stream.cc:210).                              *)
(***************************************************************************)
EXTENDS FirestoreStream, FiniteSets

CONSTANTS Targets,        \* queries the app may listen to
          Refused,        \* those the backend's rules turn down
          MaxListens,     \* bounds: listens of the app,
          MaxFaults,      \*   failures and network switches,
          MaxNews,        \*   changes of documents the backend tells of,
          MaxMismatches,  \*   existence filters that do not match,
          MaxUnread       \*   messages on their way to the client

ASSUME ParametersAssumption ==
    /\ IsFiniteSet(Targets)
    /\ Refused \subseteq Targets
    /\ MaxUnread \in Nat \ {0}

VARIABLES
    client,    \* sync engine, remote store, watch stream, online state tracker
    asking,    \* close counts of the GetToken calls not answered yet
    backend,   \* [watching, news] of the open stream
    spent      \* how much of the bounds was used

vars == <<client, asking, backend, spent>>

-----------------------------------------------------------------------------
(* The online state.  Listeners take "Unknown" for online. *)

\* Going offline, a view is shown as far as it is known, and is from the cache.
Broadcast(c, state) ==
    [c EXCEPT !.online = state,
              !.view = [t \in Targets |->
                  IF state = "Offline" /\ c.online # "Offline" /\ c.view[t] # "absent"
                  THEN "cached" ELSE c.view[t]]]

UpdateState(c, state) ==
    Broadcast([c EXCEPT !.timer = FALSE, !.failures = 0], state)

HandleWatchStreamStart(c) ==
    IF c.failures # 0 THEN c
    ELSE [HardAssert(Broadcast(c, "Unknown"), ~c.timer) EXCEPT !.timer = TRUE]

MaxWatchStreamFailures == 1   \* kMaxWatchStreamFailures, where the count stops

HandleWatchStreamFailure(c) ==
    IF c.online = "Online"
    THEN HardAssert(Broadcast(c, "Unknown"), c.failures = 0 /\ ~c.timer)
    ELSE Broadcast([c EXCEPT !.failures = MaxWatchStreamFailures, !.timer = FALSE],
                   "Offline")

-----------------------------------------------------------------------------
(* The aggregator.  A target's watch requests on a stream are numbered; the *)
(* numbers in changes and current tell for which of them they came.  kept is *)
(* history: the mark of current stood when the target was watched again.     *)

NoState == [known |-> FALSE, due |-> 0, changes |-> {}, current |-> 0, kept |-> FALSE]
NewState == [NoState EXCEPT !.known = TRUE]
NoStates == [t \in Targets |-> NoState]

Active(c, t) == t \in c.listening /\ c.states[t].due = 0

Ensured(c, t) == [c.states[t] EXCEPT !.known = TRUE]

\* The streams' requests; each one of a target makes a response due.
Watch(c, t) == [kind |-> "watch", target |-> t, number |-> c.sent[t] + 1]
Unwatch(c, t) == [kind |-> "unwatch", target |-> t, number |-> c.sent[t]]

Rewatched(c, t) == [Ensured(c, t) EXCEPT !.due = @ + 1, !.kept = c.states[t].current # 0]

SendWatchRequest(c, t) ==
    Send([HardAssert(c, c.aggregating) EXCEPT
             !.states[t] = Rewatched(c, t),
             !.sent[t] = @ + 1], <<Watch(c, t)>>)

\* Mutant: no response is counted for an unwatch.
UnwatchUncounted(c, t) ==
    Send([HardAssert(c, c.aggregating) EXCEPT !.states[t] = Ensured(c, t)],
         <<Unwatch(c, t)>>)

SendUnwatchRequest(c, t) ==
    Send([HardAssert(c, c.aggregating) EXCEPT
             !.states[t] = [Ensured(c, t) EXCEPT !.due = @ + 1]], <<Unwatch(c, t)>>)

\* HandleTargetChange.  A target that was added again keeps its mark of current.
Added(c, t) ==
    LET due == c.states[t].due - 1
    IN  [c EXCEPT !.states[t] = [Ensured(c, t) EXCEPT
            !.due = due, !.changes = IF due = 0 THEN {} ELSE @]]

Removed(c, t) ==
    LET due == c.states[t].due - 1
    IN  [c EXCEPT !.states[t] = IF due = 0 THEN NoState
                                ELSE [Ensured(c, t) EXCEPT !.due = due]]

Current(c, t, number) ==
    [c EXCEPT !.states[t] = [Ensured(c, t) EXCEPT
        !.current = IF Active(c, t) THEN number ELSE @,
        !.kept = @ /\ ~Active(c, t)]]

Change(c, t, number) ==
    IF ~Active(c, t) THEN c
    ELSE [c EXCEPT !.states[t] = [Ensured(c, t) EXCEPT !.changes = @ \cup {number}]]

\* A filter that does not match resets the target, to watch it anew with the
\* next snapshot.
Mismatch(c, t) ==
    IF ~Active(c, t) THEN c
    ELSE [HardAssert(c, c.states[t].due = 0) EXCEPT
             !.states[t] = NewState, !.resets = @ \cup {t}]

-----------------------------------------------------------------------------
(* The remote store and, in view, the sync engine with the listeners: a     *)
(* target without listeners is absent, one whose listeners were shown       *)
(* nothing yet is waiting, the others are from the cache or synced.         *)

ShouldStartWatchStream(c) ==
    c.network /\ ~IsStarted(c.stream) /\ c.listening # {}

CleanUp(c) == [c EXCEPT !.aggregating = FALSE, !.states = NoStates,
                        !.resets = {}, !.sent = [t \in Targets |-> 0]]

StartWatchStream(c) ==
    HandleWatchStreamStart(StartStream(
        [CleanUp(HardAssert(c, ShouldStartWatchStream(c))) EXCEPT !.aggregating = TRUE]))

Listen(c, t) ==
    LET shown == [HardAssert(c, c.view[t] = "absent") EXCEPT
                     !.view[t] = IF c.online = "Offline" THEN "cached" ELSE "waiting"]
        listened == [shown EXCEPT !.listening = @ \cup {t}]
    IN  IF t \in c.listening THEN shown
        ELSE IF ShouldStartWatchStream(listened) THEN StartWatchStream(listened)
        ELSE IF IsOpen(c.stream) THEN SendWatchRequest(listened, t) ELSE listened

StopListening(c, t) ==
    LET erased == [HardAssert(c, t \in c.listening) EXCEPT
                      !.listening = @ \ {t}, !.view[t] = "absent"]
        sent == IF IsOpen(c.stream) THEN SendUnwatchRequest(erased, t) ELSE erased
    IN  IF sent.listening # {} THEN sent
        ELSE IF IsOpen(c.stream) THEN MarkIdle(sent)
        ELSE IF c.network THEN UpdateState(sent, "Unknown") ELSE sent

\* Mutant: a stream that opens does not restore the existing watches.
RestoresNothing(c, order) == c

\* Every target is watched again, in the order of a hash table.
OnWatchStreamOpen(c, order) ==
    IF c.listening = {} THEN c
    ELSE Send([HardAssert(c, c.aggregating) EXCEPT
                  !.states = [t \in Targets |-> IF t \notin c.listening THEN @[t]
                                 ELSE Rewatched(c, t)],
                  !.sent = [t \in Targets |-> IF t \in c.listening THEN @[t] + 1 ELSE @[t]]],
              [i \in DOMAIN order |-> Watch(c, order[i])])

\* Mutant: the online state survives the end of a stream nobody needs.
CloseStaysOnline(c, status) ==
    LET clean == CleanUp(HardAssert(c, status = "ok" => ~ShouldStartWatchStream(c)))
    IN  IF ShouldStartWatchStream(clean)
        THEN StartWatchStream(HandleWatchStreamFailure(clean)) ELSE clean

OnWatchStreamClose(c, status) ==
    LET clean == CleanUp(HardAssert(c, status = "ok" => ~ShouldStartWatchStream(c)))
    IN  IF ShouldStartWatchStream(clean)
        THEN StartWatchStream(HandleWatchStreamFailure(clean))
        ELSE UpdateState(clean, "Unknown")

Close(c, status) ==
    IF StaysClosed(c, status) THEN c
    ELSE OnWatchStreamClose(CloseStream(c, status), status)

DisableNetworkInternal(c) == CleanUp(Close([c EXCEPT !.network = FALSE], "ok"))

EnableNetworkInternal(c) ==
    LET enabled == [c EXCEPT !.network = TRUE]
    IN  IF ShouldStartWatchStream(enabled) THEN StartWatchStream(enabled)
        ELSE UpdateState(enabled, "Unknown")

RestartNetwork(c) ==
    EnableNetworkInternal(InhibitBackoff(
        UpdateState(DisableNetworkInternal(c), "Unknown")))

\* The listeners of a target that changed: its view is current or not, and is
\* shown when it is or has documents.
View(c, t) ==
    IF c.states[t].current # 0 THEN "synced"
    ELSE IF c.view[t] = "waiting" /\ c.states[t].changes = {} THEN "waiting"
    ELSE "cached"

\* The message of a global snapshot marks every active target as changed.  The
\* targets that were reset, in order, are watched anew.
RaiseWatchSnapshot(c, order) ==
    LET changed == {t \in Targets : c.states[t].known /\ Active(c, t)}
        again == {order[i] : i \in DOMAIN order}
        raised == [c EXCEPT
            !.view = [t \in Targets |-> IF t \in changed THEN View(c, t) ELSE @[t]],
            !.states = [t \in Targets |-> [c.states[t] EXCEPT
                !.changes = IF t \in changed THEN {} ELSE @,
                !.due = IF t \in again THEN @ + 2 ELSE @,
                !.kept = IF t \in again THEN c.states[t].current # 0 ELSE @]],
            !.sent = [t \in Targets |-> IF t \in again THEN @[t] + 1 ELSE @[t]],
            !.resets = {}]
    IN  IF order = <<>> THEN raised
        ELSE Send(raised, [j \in 1..(2 * Len(order)) |->
                 LET t == order[(j + 1) \div 2]
                 IN  IF j % 2 = 1 THEN Unwatch(c, t) ELSE Watch(c, t)])

\* An error of a target that was stopped meanwhile is ignored.
ProcessTargetError(c, t) ==
    IF t \notin c.listening THEN c
    ELSE [HardAssert(c, c.view[t] # "absent") EXCEPT
             !.listening = @ \ {t}, !.states[t] = NoState, !.view[t] = "absent"]

OnWatchStreamChange(c, order) ==
    LET m == Head(c.stream.down)
        read == UpdateState([HardAssert(c, c.aggregating) EXCEPT
                                !.stream.down = Tail(@)], "Online")
    IN  CASE m.kind = "rejected" -> ProcessTargetError(read, m.target)
          [] m.kind = "added" -> Added(read, m.target)
          [] m.kind = "removed" -> Removed(read, m.target)
          [] m.kind = "current" -> Current(read, m.target, m.number)
          [] m.kind = "change" -> Change(read, m.target, m.number)
          [] m.kind = "filter" -> Mismatch(read, m.target)
          [] OTHER -> RaiseWatchSnapshot(read, order)

-----------------------------------------------------------------------------
(* Actions. *)

NotWatched == [number |-> 0, current |-> FALSE]
NewBackend == [watching |-> [t \in Targets |-> NotWatched], news |-> FALSE]

\* The backend forgets what a closed stream watched.
Perform(c) ==
    /\ client' = [c EXCEPT !.stream.asked = FALSE]
    /\ asking' = IF c.stream.asked THEN asking \cup {c.stream.closes} ELSE asking
    /\ backend' = IF c.stream.closes = client.stream.closes THEN backend ELSE NewBackend

Spend(kind, limit) ==
    /\ spent[kind] < limit
    /\ spent' = [spent EXCEPT ![kind] = @ + 1]

AppListens(t) ==
    /\ client.view[t] = "absent"
    /\ Spend("listens", MaxListens)
    /\ Perform(Listen(client, t))

AppStops(t) ==
    /\ client.view[t] # "absent"
    /\ Perform(StopListening(client, t))
    /\ UNCHANGED spent

Orders(S) == {f \in [1..Cardinality(S) -> S] :
                 \A i, j \in 1..Cardinality(S) : f[i] = f[j] => i = j}

\* A credential arrives on the worker queue, to be ignored by a stream that was
\* closed meanwhile.
Answered(closes, c) ==
    IF Stale(client, closes)
    THEN asking' = asking \ {closes} /\ UNCHANGED <<client, backend>>
    ELSE /\ client' = [c EXCEPT !.stream.asked = FALSE]
         /\ asking' = (asking \ {closes}) \cup
                          (IF c.stream.asked THEN {c.stream.closes} ELSE {})
         /\ backend' = NewBackend

TokenArrives(closes) ==
    /\ \E order \in Orders(client.listening) :
           Answered(closes, OnWatchStreamOpen(Open(client, "user"), order))
    /\ UNCHANGED spent

TokenFails(closes) ==
    /\ Spend("faults", MaxFaults)
    /\ Answered(closes, Close(HardAssert(client, client.stream.state = "Starting"),
                              "transient"))

RunBackoff ==
    /\ client.stream.backoff
    /\ Perform(EndBackoff(client))
    /\ UNCHANGED spent

RunIdle ==
    /\ client.stream.idle
    /\ Perform(Close(client, "ok"))
    /\ UNCHANGED spent

\* The backend did not respond within the online state's timeout.
RunOnlineStateTimer ==
    /\ client.timer
    /\ Perform(Broadcast([HardAssert(client, client.online = "Unknown") EXCEPT
                             !.timer = FALSE], "Offline"))
    /\ UNCHANGED spent

RunAnswer ==
    /\ client.stream.down # <<>>
    /\ \E order \in Orders(client.resets \cap client.listening) :
           Perform(OnWatchStreamChange(client, order))
    /\ UNCHANGED spent

Room == Len(client.stream.down) < MaxUnread

Tell(kind, t) ==
    /\ Room
    /\ client' = [client EXCEPT !.stream.down =
        Append(@, [kind |-> kind, target |-> t, number |-> backend.watching[t].number])]

\* The backend takes up a request: it watches a target, says that it does not
\* any more, or turns the target down.  A target it does not watch is left alone.
BackendTakes ==
    /\ client.stream.up # <<>> /\ Room
    /\ LET r == Head(client.stream.up)
           kind == IF r.kind = "unwatch" THEN "removed"
                   ELSE IF r.target \in Refused THEN "rejected" ELSE "added"
           silent == r.kind = "unwatch" /\ backend.watching[r.target] = NotWatched
       IN  /\ client' = [client EXCEPT !.stream.up = Tail(@),
                 !.stream.down = IF silent THEN @
                     ELSE Append(@, [kind |-> kind, target |-> r.target, number |-> r.number])]
           /\ backend' = [watching |-> [backend.watching EXCEPT ![r.target] =
                              IF kind = "added" THEN [number |-> r.number, current |-> FALSE]
                              ELSE NotWatched],
                          news |-> backend.news \/ kind = "added"]
    /\ UNCHANGED <<asking, spent>>

Watched(t) == backend.watching[t].number # 0

\* All there was when the target was added has been sent.
BackendIsCurrent(t) ==
    /\ Watched(t) /\ ~backend.watching[t].current
    /\ Tell("current", t)
    /\ backend' = [backend EXCEPT !.watching[t].current = TRUE, !.news = TRUE]
    /\ UNCHANGED <<asking, spent>>

BackendChanges(t) ==
    /\ Watched(t)
    /\ Spend("news", MaxNews)
    /\ Tell("change", t)
    /\ backend' = [backend EXCEPT !.news = TRUE]
    /\ UNCHANGED asking

BackendFilters(t) ==
    /\ Watched(t)
    /\ Spend("mismatches", MaxMismatches)
    /\ Tell("filter", t)
    /\ backend' = [backend EXCEPT !.news = TRUE]
    /\ UNCHANGED asking

\* A consistent snapshot of all targets ends what was told.
BackendSnapshot ==
    /\ backend.news /\ Room
    /\ client' = [client EXCEPT !.stream.down = Append(@, [kind |-> "snapshot"])]
    /\ backend' = [backend EXCEPT !.news = FALSE]
    /\ UNCHANGED <<asking, spent>>

StreamBreaks ==
    /\ IsOpen(client.stream)
    /\ Spend("faults", MaxFaults)
    /\ Perform(Close(client, "transient"))

\* The connectivity monitor sees the network come back, or the user changes.
NetworkRestarts ==
    /\ client.network
    /\ Spend("faults", MaxFaults)
    /\ Perform(RestartNetwork(client))

DisableNetwork ==
    /\ Spend("faults", MaxFaults)
    /\ Perform(UpdateState(DisableNetworkInternal(client), "Offline"))

EnableNetwork ==
    /\ Spend("faults", MaxFaults)
    /\ Perform(EnableNetworkInternal(client))

Init ==
    /\ client = EnableNetworkInternal(
           [network |-> FALSE, stream |-> NewStream, listening |-> {},
            aggregating |-> FALSE, states |-> NoStates, resets |-> {},
            sent |-> [t \in Targets |-> 0], view |-> [t \in Targets |-> "absent"],
            online |-> "Unknown", failures |-> 0, timer |-> FALSE, failed |-> FALSE])
    /\ asking = {}
    /\ backend = NewBackend
    /\ spent = [listens |-> 0, faults |-> 0, news |-> 0, mismatches |-> 0]

Next ==
    \/ \E t \in Targets :
           \/ AppListens(t) \/ AppStops(t)
           \/ BackendIsCurrent(t) \/ BackendChanges(t) \/ BackendFilters(t)
    \/ \E closes \in asking : TokenArrives(closes) \/ TokenFails(closes)
    \/ RunBackoff \/ RunIdle \/ RunOnlineStateTimer \/ RunAnswer
    \/ BackendTakes \/ BackendSnapshot
    \/ StreamBreaks \/ NetworkRestarts \/ DisableNetwork \/ EnableNetwork

Spec == Init /\ [][Next]_vars

\* The timers of the worker queue elapse and what is read is handled.  Where the
\* step is large its WF_vars is written out, since TLC's ENABLED is slow for it.
ClientFairness ==
    /\ WF_vars(RunOnlineStateTimer)
    /\ WF_vars(RunBackoff)
    /\ []<>(client.stream.down = <<>>) \/ []<><<RunAnswer>>_vars

\* Tokens come, and the backend answers and sends what it has.
AuthAnswers == \E closes \in asking : TokenArrives(closes)
BackendSends == BackendSnapshot \/ \E t \in Targets : BackendIsCurrent(t)
Told == ~backend.news /\ \A t \in Targets : Watched(t) => backend.watching[t].current

ServiceFairness ==
    /\ []<>(asking = {}) \/ []<><<AuthAnswers>>_vars
    /\ []<>(client.stream.up = <<>> \/ ~Room) \/ []<><<BackendTakes>>_vars
    /\ []<>(Told \/ ~Room) \/ []<><<BackendSends>>_vars

ClientFairSpec == Spec /\ ClientFairness
FairSpec == ClientFairSpec /\ ServiceFairness

-----------------------------------------------------------------------------
(* Properties. *)

Numbers == 0..(MaxListens + MaxMismatches)

\* The values the variables take.
TypeOK ==
    /\ client.network \in BOOLEAN /\ client.aggregating \in BOOLEAN
    /\ client.listening \subseteq Targets /\ client.resets \subseteq Targets
    /\ client.states \in [Targets -> [known : BOOLEAN, due : Nat,
                                      changes : SUBSET Nat, current : Nat,
                                      kept : BOOLEAN]]
    /\ client.view \in [Targets -> {"absent", "waiting", "cached", "synced"}]
    /\ client.online \in {"Unknown", "Online", "Offline"}
    /\ client.failures \in 0..MaxWatchStreamFailures /\ client.timer \in BOOLEAN

\* No HARD_ASSERT fails: no stream is closed gracefully, by a call or by its
\* idle timer, while a target needs it, none is started twice, the online-state
\* timer is never set twice nor fires in another state than Unknown, and the
\* aggregator is there whenever the stream is.
NoAssertFails == ~client.failed

\* Counting responses alone, the aggregator never takes what the backend sent
\* for an earlier listen of a target, since stopped or reset, for the answer to
\* the latest one: its changes and its CURRENT are those of that listen.  What
\* it does keep is a mark of current taken before the target was watched again
\* (kept): Added clears the changes alone, remote_event.cc:160 though says "any
\* state that we had previously", so that the view may be called synced before
\* the backend has answered the latest listen.
AcceptedAreFresh ==
    \A t \in Targets : Active(client, t) =>
        LET s == client.states[t]
        IN  /\ s.changes \subseteq {client.sent[t]}
            /\ s.current \in {0, client.sent[t]} \/ s.kept

\* The client says it is online only while its stream is open; while it says it
\* is offline no listener holds its snapshot for the backend's, nor waits for a
\* first one.
OnlineIsHonest ==
    /\ client.online = "Online" => IsOpen(client.stream)
    /\ client.online = "Offline" =>
           \A t \in Targets : client.view[t] \in {"absent", "cached"}

\* view.cc:315: a view that is behind becomes current with the backend again, or
\* its listeners are told that the target is turned down, unless the app stops
\* listening or turns the network off.
ViewsCatchUp ==
    \A t \in Targets :
        (client.view[t] \in {"waiting", "cached"}) ~>
            (client.view[t] \in {"synced", "absent"} \/ ~client.network)

\* query_listener.cc: Unknown "should become Offline or Online if we wait long
\* enough", which listeners with an empty cache rely on for their first event.
UnknownEnds ==
    (client.online = "Unknown" /\ client.listening # {} /\ client.network) ~>
        (client.online # "Unknown" \/ client.listening = {} \/ ~client.network)
=============================================================================
