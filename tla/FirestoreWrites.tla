--------------------------- MODULE FirestoreWrites ---------------------------
(***************************************************************************)
(* The write side of the Firestore client the TasksTracker app is built    *)
(* with: the mutation queues on disk, the pipeline of the remote store,    *)
(* the write stream with its credentials, backoff and idle timer, and the  *)
(* backend at the other end.  Everything the client does runs as one       *)
(* operation at a time on its worker queue, so each operation is one       *)
(* action, and the functions it calls are operators that take the client's *)
(* state and return the next one.                                          *)
(***************************************************************************)
EXTENDS FirestoreStream

CONSTANTS Users,             \* accounts, being signed out is one of them
          MaxPendingWrites,  \* kMaxPendingWrites
          Refused,           \* the writes the backend's rules turn down
          MaxWrites,         \* bounds: writes the app makes,
          MaxAccounts,       \*   changes of account and token refreshes,
          MaxFaults,         \*   failures and network switches,
          MaxCrashes         \*   crashes of the app

ASSUME ParametersAssumption ==
    /\ NoUser \notin Users
    /\ MaxPendingWrites \in Nat \ {0}
    /\ MaxWrites \in Nat
    /\ Refused \subseteq 1..MaxWrites

VARIABLES
    client,       \* sync engine, local store, remote store and write stream
    worker,       \* operations waiting on the worker queue
    main,         \* blocks waiting on the main queue
    account,      \* the user FIRAuth has
    credentials,  \* [user, counter] of the credentials provider
    asking,       \* GetToken calls FIRAuth has not answered yet
    by,           \* the user each write was made for, in the app's order
    backend,      \* [applied, latest] of the writes that arrived
    spent         \* how much of the bounds was used

vars == <<client, worker, main, account, credentials, asking, by, backend, spent>>

Writes == 1..MaxWrites

-----------------------------------------------------------------------------
(* The write stream. *)

Handshake == 0   \* the first request of a stream; the others are writes

WriteHandshake(c) == Send(HardAssert(c, ~c.handshake), <<Handshake>>)

WriteMutations(c, batches) ==
    IF batches = <<>> THEN c
    ELSE Send(HardAssert(c, c.handshake),
              [i \in 1..Len(batches) |-> batches[i].write])

-----------------------------------------------------------------------------
(* The mutation queues on disk: rows [id, write] in the order of their ids. *)

RowsAfter(rows, id) ==
    LET later == {i \in 1..Len(rows) : rows[i].id > id}
    IN  IF later = {} THEN <<>>
        ELSE SubSeq(rows, CHOOSE i \in later : \A j \in later : i <= j, Len(rows))

\* One more than the highest id in any user's rows.
NextBatchId(queue) ==
    LET ids == {0} \cup UNION {{queue[u][i].id : i \in 1..Len(queue[u])} : u \in Users}
    IN  CHOOSE n \in 1..(MaxWrites + 1) : n - 1 \in ids /\ \A id \in ids : id < n

RemoveMutationBatch(c, id) ==
    LET rows == c.queue[c.user]
        at == {i \in 1..Len(rows) : rows[i].id = id}
        first == CHOOSE i \in at : TRUE
    IN  IF at = {} THEN HardAssert(c, FALSE)
        ELSE [c EXCEPT !.queue[c.user] =
                 SubSeq(@, 1, first - 1) \o SubSeq(@, first + 1, Len(@))]

-----------------------------------------------------------------------------
(* The pipeline of the remote store. *)

ShouldStartWriteStream(c) ==
    c.network /\ ~IsStarted(c.stream) /\ c.pipeline # <<>>

StartIfNeeded(c) == IF ShouldStartWriteStream(c) THEN StartStream(c) ELSE c

Room(c) == IF c.network THEN MaxPendingWrites - Len(c.pipeline) ELSE 0

FillWritePipeline(c) ==
    LET last == IF c.pipeline = <<>> THEN 0 ELSE c.pipeline[Len(c.pipeline)].id
        rest == RowsAfter(c.queue[c.user], last)
        taken == IF Len(rest) < Room(c) THEN rest ELSE SubSeq(rest, 1, Room(c))
        full == [c EXCEPT !.pipeline = @ \o taken]
        sent == IF IsOpen(c.stream) /\ c.handshake
                THEN WriteMutations(full, taken) ELSE full
        idle == IF Len(rest) < Room(c) /\ sent.pipeline = <<>>
                THEN MarkIdle(sent) ELSE sent
    IN  StartIfNeeded(idle)

\* NotifyUser: the callback registered for the batch runs and is forgotten.
NotifyUser(c, id, verdict) ==
    LET due == {k \in c.callbacks[c.user] : k.id = id}
    IN  [c EXCEPT !.callbacks[c.user] = @ \ due,
                  !.told = [w \in Writes |->
                      IF \E k \in due : k.write = w THEN verdict ELSE @[w]]]

\* Mutant: the callback of a rejected write reports success.
RejectAsSuccess(c) ==
    LET batch == Head(c.pipeline)
        restartable == InhibitBackoff([c EXCEPT !.pipeline = Tail(@)])
    IN  FillWritePipeline(NotifyUser(RemoveMutationBatch(restartable, batch.id),
                                     batch.id, "ok"))

HandleWriteError(c) ==
    LET batch == Head(c.pipeline)
        restartable == InhibitBackoff([c EXCEPT !.pipeline = Tail(@)])
        rejected == RemoveMutationBatch(restartable, batch.id)
    IN  FillWritePipeline(NotifyUser(rejected, batch.id, "refused"))

\* Mutant: a stream that failed is not started again.
NoRestart(c, status) ==
    LET checked == HardAssert(c, status = "ok" => ~ShouldStartWriteStream(c))
    IN  IF status = "permanent" /\ c.pipeline # <<>> /\ c.handshake
        THEN HandleWriteError(checked) ELSE checked

\* Mutant: every error counts as a permanent one.
RejectOnAnyError(c, status) ==
    LET checked == HardAssert(c, status = "ok" => ~ShouldStartWriteStream(c))
    IN  StartIfNeeded(IF status # "ok" /\ c.pipeline # <<>> /\ c.handshake
                      THEN HandleWriteError(checked) ELSE checked)

OnWriteStreamClose(c, status) ==
    LET checked == HardAssert(c, status = "ok" => ~ShouldStartWriteStream(c))
    IN  StartIfNeeded(IF /\ status = "permanent" /\ c.pipeline # <<>>
                         /\ c.handshake
                      THEN HandleWriteError(checked) ELSE checked)

\* Stopping is a no-op on a stream that was not started.  The listener is told
\* before the flag of the handshake is cleared.
Close(c, status) ==
    IF StaysClosed(c, status) THEN c
    ELSE [OnWriteStreamClose(CloseStream(c, status), status) EXCEPT !.handshake = FALSE]

\* Mutant: the pipeline survives the stop.
DisableKeepsPipeline(c) == Close([c EXCEPT !.network = FALSE], "ok")

DisableNetworkInternal(c) ==
    [Close([c EXCEPT !.network = FALSE], "ok") EXCEPT !.pipeline = <<>>]

EnableNetworkInternal(c) == FillWritePipeline([c EXCEPT !.network = TRUE])

RestartNetwork(c) == EnableNetworkInternal(InhibitBackoff(DisableNetworkInternal(c)))

ChangeUser(c, u) ==
    IF u = c.user THEN c
    ELSE [c EXCEPT !.user = u, !.nextId = NextBatchId(c.queue)]

\* Mutant: the remote store is not told of the change.
ChangeWithoutRestart(c, u) == ChangeUser(c, u)

HandleCredentialChange(c, u) ==
    LET changed == ChangeUser(c, u)
    IN  IF changed.network THEN RestartNetwork(changed) ELSE changed

WriteLocally(c, w) ==
    LET batch == [id |-> c.nextId, write |-> w]
        known == {k.id : k \in c.callbacks[c.user]}
    IN  [c EXCEPT !.queue[c.user] = Append(@, batch), !.nextId = @ + 1,
                  !.fresh = @ \cup {w},
                  !.callbacks[c.user] = IF batch.id \in known THEN @
                                        ELSE @ \cup {batch}]

\* Mutant: an acknowledged write makes room that nobody fills.
AnswerWithoutRefill(c) ==
    IF c.pipeline = <<>> THEN HardAssert(c, FALSE)
    ELSE LET batch == Head(c.pipeline)
             told == NotifyUser([c EXCEPT !.pipeline = Tail(@)], batch.id, "ok")
         IN  RemoveMutationBatch(told, batch.id)

OnWriteStreamMutationResult(c) ==
    IF c.pipeline = <<>> THEN HardAssert(c, FALSE)
    ELSE LET batch == Head(c.pipeline)
             told == NotifyUser([c EXCEPT !.pipeline = Tail(@)], batch.id, "ok")
         IN  FillWritePipeline(RemoveMutationBatch(told, batch.id))

\* Mutant: nothing is sent when the handshake completes.
HandshakeSendsNothing(c) ==
    LET read == [c EXCEPT !.stream.down = Tail(@)]
    IN  IF ~c.handshake THEN [read EXCEPT !.handshake = TRUE]
        ELSE OnWriteStreamMutationResult(read)

\* The first answer of a stream completes its handshake.  Every answer can be
\* read: one that cannot be parsed, for which the client itself ends the stream
\* (stream.cc 210-217), is left out.
NotifyStreamResponse(c) ==
    LET read == [c EXCEPT !.stream.down = Tail(@)]
    IN  IF ~c.handshake
        THEN WriteMutations([read EXCEPT !.handshake = TRUE], c.pipeline)
        ELSE OnWriteStreamMutationResult(read)

\* What Initialize builds from the queues on disk: fresh are the writes this
\* run of the app has stored, told what their callbacks were told.
Boot(queue, u, told) ==
    EnableNetworkInternal(
        [user |-> u, network |-> FALSE, queue |-> queue,
         nextId |-> NextBatchId(queue), pipeline |-> <<>>, stream |-> NewStream,
         handshake |-> FALSE,
         callbacks |-> [v \in Users |-> {}], told |-> told, fresh |-> {},
         failed |-> FALSE])

-----------------------------------------------------------------------------
(* Actions. *)

\* GetToken notes the provider's counter and the stream's close count.
Ask(closes) == [closes |-> closes, counter |-> credentials.counter, user |-> NoUser]

Perform(c) ==
    /\ client' = [c EXCEPT !.stream.asked = FALSE]
    /\ asking' = IF c.stream.asked THEN asking \cup {Ask(c.stream.closes)} ELSE asking

Spend(kind, limit) ==
    /\ spent[kind] < limit
    /\ spent' = [spent EXCEPT ![kind] = @ + 1]

\* The app makes a write for the user it was last told of.
AppWrites ==
    /\ Len(by) < MaxWrites
    /\ by' = Append(by, credentials.user)
    /\ worker' = Append(worker, [kind |-> "write", write |-> Len(by) + 1])
    /\ UNCHANGED <<client, main, account, credentials, asking, backend, spent>>

\* FIRAuth signs somebody in or out, or refreshes the token of the same user,
\* and posts the notification on the main queue.
AccountChanges(u) ==
    /\ Spend("accounts", MaxAccounts)
    /\ account' = u
    /\ main' = Append(main, [kind |-> "notify", user |-> u])
    /\ UNCHANGED <<client, worker, credentials, asking, by, backend>>

\* FIRAuth takes up a call: it answers for the user it has now, at once or
\* when the token was fetched.
AuthTakesCall(ask) ==
    /\ ask.user = NoUser
    /\ asking' = (asking \ {ask}) \cup {[ask EXCEPT !.user = account]}
    /\ UNCHANGED <<client, worker, main, account, credentials, by, backend, spent>>

AuthAnswers(ask, token) ==
    /\ ask.user # NoUser
    /\ main' = Append(main, [kind |-> "token", closes |-> ask.closes,
                             counter |-> ask.counter, user |-> token])
    /\ asking' = asking \ {ask}
    /\ UNCHANGED <<client, worker, account, credentials, by, backend>>

AuthGivesToken(ask) == AuthAnswers(ask, ask.user) /\ UNCHANGED spent
AuthFails(ask) == AuthAnswers(ask, NoUser) /\ Spend("faults", MaxFaults)

\* The provider's notification block.
CredentialsNotified ==
    /\ main # <<>> /\ Head(main).kind = "notify"
    /\ main' = Tail(main)
    /\ credentials' = [user |-> Head(main).user, counter |-> credentials.counter + 1]
    /\ worker' = Append(worker, [kind |-> "credential", user |-> Head(main).user])
    /\ UNCHANGED <<client, account, asking, by, backend, spent>>

\* Mutant: an answer from before a notification is dropped.
LateAnswerDropped ==
    /\ main # <<>> /\ Head(main).kind = "token"
    /\ main' = Tail(main)
    /\ LET answer == Head(main)
       IN  IF answer.counter # credentials.counter THEN UNCHANGED worker
           ELSE worker' = Append(worker, [kind |-> "token",
                    closes |-> answer.closes, user |-> answer.user])
    /\ UNCHANGED <<client, account, credentials, asking, by, backend, spent>>

\* The provider's token block: an answer from before a notification is asked
\* for again.
TokenAnswered ==
    /\ main # <<>> /\ Head(main).kind = "token"
    /\ main' = Tail(main)
    /\ LET answer == Head(main)
       IN  IF answer.counter # credentials.counter
           THEN asking' = asking \cup {Ask(answer.closes)} /\ UNCHANGED worker
           ELSE /\ worker' = Append(worker, [kind |-> "token",
                       closes |-> answer.closes, user |-> answer.user])
                /\ UNCHANGED asking
    /\ UNCHANGED <<client, account, credentials, by, backend, spent>>

\* SyncEngine::WriteMutations.
RunWrite ==
    /\ worker # <<>> /\ Head(worker).kind = "write"
    /\ worker' = Tail(worker)
    /\ Perform(FillWritePipeline(WriteLocally(client, Head(worker).write)))
    /\ UNCHANGED <<main, account, credentials, by, backend, spent>>

RunCredentialChange ==
    /\ worker # <<>> /\ Head(worker).kind = "credential"
    /\ worker' = Tail(worker)
    /\ Perform(HandleCredentialChange(client, Head(worker).user))
    /\ UNCHANGED <<main, account, credentials, by, backend, spent>>

ResumeStartWithCredentials(c, token) ==
    IF token.user = NoUser
    THEN Close(HardAssert(c, c.stream.state = "Starting"), "transient")
    ELSE WriteHandshake(Open(c, token.user))

RunToken ==
    /\ worker # <<>> /\ Head(worker).kind = "token"
    /\ worker' = Tail(worker)
    /\ IF Stale(client, Head(worker).closes) THEN UNCHANGED <<client, asking>>
       ELSE Perform(ResumeStartWithCredentials(client, Head(worker)))
    /\ UNCHANGED <<main, account, credentials, by, backend, spent>>

RunBackoff ==
    /\ client.stream.backoff
    /\ Perform(EndBackoff(client))
    /\ UNCHANGED <<worker, main, account, credentials, by, backend, spent>>

RunIdle ==
    /\ client.stream.idle
    /\ Perform(Close(client, "ok"))
    /\ UNCHANGED <<worker, main, account, credentials, by, backend, spent>>

\* The backend handles the requests of a stream in their order and ends the
\* stream at a write its rules turn down.
BackendHandles ==
    LET s == client.stream
    IN  /\ s.up # <<>> /\ \A i \in DOMAIN s.down : s.down[i].ok
        /\ LET w == Head(s.up)
           IN  /\ client' = [client EXCEPT !.stream.up = Tail(@),
                     !.stream.down = Append(@, [write |-> w, ok |-> w \notin Refused])]
               /\ backend' = IF w = Handshake \/ w \in Refused THEN backend
                             ELSE [applied |-> backend.applied \cup {w},
                                   latest |-> [backend.latest EXCEPT ![by[w]] = w]]
        /\ UNCHANGED <<worker, main, account, credentials, asking, by, spent>>

RunAnswer ==
    /\ client.stream.down # <<>>
    /\ Perform(IF Head(client.stream.down).ok THEN NotifyStreamResponse(client)
               ELSE Close(client, "permanent"))
    /\ UNCHANGED <<worker, main, account, credentials, by, backend, spent>>

\* The stream breaks: what was on its way is lost.
StreamBreaks ==
    /\ IsOpen(client.stream)
    /\ Spend("faults", MaxFaults)
    /\ Perform(Close(client, "transient"))
    /\ UNCHANGED <<worker, main, account, credentials, by, backend>>

\* The connectivity monitor sees the network come back.
ConnectivityChanges ==
    /\ client.network
    /\ Spend("faults", MaxFaults)
    /\ Perform(RestartNetwork(client))
    /\ UNCHANGED <<worker, main, account, credentials, by, backend>>

DisableNetwork ==
    /\ Spend("faults", MaxFaults)
    /\ Perform(DisableNetworkInternal(client))
    /\ UNCHANGED <<worker, main, account, credentials, by, backend>>

EnableNetwork ==
    /\ Spend("faults", MaxFaults)
    /\ Perform(EnableNetworkInternal(client))
    /\ UNCHANGED <<worker, main, account, credentials, by, backend>>

\* The process dies between two operations and starts again: only the queues
\* on disk and FIRAuth's user are left.
Crash ==
    /\ Spend("crashes", MaxCrashes)
    /\ LET c == Boot(client.queue, account, client.told)
       IN  /\ client' = [c EXCEPT !.stream.asked = FALSE]
           /\ asking' = IF c.stream.asked
                        THEN {[closes |-> 0, counter |-> 0, user |-> NoUser]} ELSE {}
    /\ credentials' = [user |-> account, counter |-> 0]
    /\ worker' = <<>> /\ main' = <<>>
    /\ UNCHANGED <<account, by, backend>>

Init ==
    /\ account \in Users
    /\ credentials = [user |-> account, counter |-> 0]
    /\ client = Boot([u \in Users |-> <<>>], account, [w \in Writes |-> "no"])
    /\ worker = <<>> /\ main = <<>> /\ asking = {} /\ by = <<>>
    /\ backend = [applied |-> {}, latest |-> [u \in Users |-> 0]]
    /\ spent = [accounts |-> 0, faults |-> 0, crashes |-> 0]

Works ==
    \/ \E ask \in asking : AuthTakesCall(ask)
    \/ \E ask \in asking : AuthGivesToken(ask)
    \/ CredentialsNotified \/ TokenAnswered
    \/ RunWrite \/ RunCredentialChange \/ RunToken
    \/ RunBackoff
    \/ BackendHandles \/ RunAnswer

Next ==
    \/ Works
    \/ RunIdle
    \/ AppWrites
    \/ \E u \in Users : AccountChanges(u)
    \/ \E ask \in asking : AuthFails(ask)
    \/ StreamBreaks \/ ConnectivityChanges \/ DisableNetwork \/ EnableNetwork
    \/ Crash

Spec == Init /\ [][Next]_vars

\* Queues run what they hold, timers elapse, FIRAuth and the backend answer:
\* each line is WF_vars of a step with its ENABLED written out, since TLC's own
\* evaluation of ENABLED is slow for the nested operators.
AuthTakesOne == \E ask \in asking : AuthTakesCall(ask)
AuthGivesOne == \E ask \in asking : AuthGivesToken(ask)
MainRuns == CredentialsNotified \/ TokenAnswered
WorkerRuns == RunWrite \/ RunCredentialChange \/ RunToken

Unread == client.stream.up # <<>> /\ \A i \in 1..Len(client.stream.down) : client.stream.down[i].ok

Fairness ==
    /\ []<>(\A ask \in asking : ask.user # NoUser) \/ []<><<AuthTakesOne>>_vars
    /\ []<>(\A ask \in asking : ask.user = NoUser) \/ []<><<AuthGivesOne>>_vars
    /\ []<>(main = <<>>) \/ []<><<MainRuns>>_vars
    /\ []<>(worker = <<>>) \/ []<><<WorkerRuns>>_vars
    /\ []<>~client.stream.backoff \/ []<><<RunBackoff>>_vars
    /\ []<>~Unread \/ []<><<BackendHandles>>_vars
    /\ []<>(client.stream.down = <<>>) \/ []<><<RunAnswer>>_vars

FairSpec == Spec /\ Fairness

-----------------------------------------------------------------------------
(* Properties. *)

Answer == [write : Nat, ok : BOOLEAN]
Batch == [id : Nat, write : Nat]

\* The values the variables take.
TypeOK ==
    /\ client.user \in Users /\ client.network \in BOOLEAN
    /\ client.queue \in [Users -> Seq(Batch)] /\ client.nextId \in Nat
    /\ client.pipeline \in Seq(Batch) /\ Len(client.pipeline) <= MaxPendingWrites
    /\ client.stream.state \in {"Initial", "Starting", "Open", "Error", "Backoff"}
    /\ client.stream.token \in Users \cup {NoUser}
    /\ client.stream.up \in Seq(Nat) /\ client.stream.down \in Seq(Answer)
    /\ client.told \in [Writes -> {"no", "ok", "refused"}]
    /\ account \in Users /\ credentials.user \in Users
    /\ by \in Seq(Users)

\* No HARD_ASSERT of the write side ever fails: no stream is closed gracefully
\* while it is needed, started twice or restarted without its token, no backoff
\* ends in another state, and every batch to remove is in the queue.
NoAssertFails == ~client.failed

WritesOf(batches) == [i \in 1..Len(batches) |-> batches[i].write]

\* While the network is on, no write waits that the pipeline has room for.
PipelineIsFull ==
    LET rows == Len(client.queue[client.user])
    IN  client.network =>
            Len(client.pipeline) = IF rows < MaxPendingWrites THEN rows ELSE MaxPendingWrites

\* The pipeline holds the oldest writes of the user who is signed in, so the
\* answer to its head settles the head of the queue on disk, and while the
\* network is on it holds all of them that fit: only an answer, a rejection or a
\* restart of the network looks for more.
PipelineHeadsQueue ==
    LET rows == client.queue[client.user]
    IN  /\ Len(client.pipeline) <= Len(rows)
        /\ client.pipeline = SubSeq(rows, 1, Len(client.pipeline))
        /\ PipelineIsFull

\* Answers carry no batch id; they are matched by position alone.  Once the
\* handshake is done, what is on the way in both directions is the pipeline.
AnswersMatchPipeline ==
    LET s == client.stream
    IN  IsOpen(s) /\ client.handshake =>
            [i \in 1..Len(s.down) |-> s.down[i].write] \o s.up = WritesOf(client.pipeline)

\* A write is only sent with the token of the user it was made for, whatever
\* the order of sign-ins, token refreshes, callbacks and restarts.
SentAsOwner ==
    \A i \in 1..Len(client.stream.up) :
        client.stream.up[i] # Handshake => client.stream.token = by[client.stream.up[i]]

Queued(w) == \E u \in Users : \E i \in 1..Len(client.queue[u]) : client.queue[u][i].write = w

\* The app's completion handler runs once, when the write leaves the queue and
\* not before, and is told what the backend did with this write, although
\* batch ids are used again after a change of user or a restart.
CallbacksAreTrue ==
    /\ \A w \in client.fresh : client.told[w] = "no" <=> Queued(w)
    /\ \A w \in Writes : /\ client.told[w] = "ok" => w \in backend.applied
                         /\ client.told[w] = "refused" => w \in Refused

HoldsToken(q, closes) == \E i \in 1..Len(q) : q[i].kind = "token" /\ q[i].closes = closes

\* The token the stream waits for: asked for, answered or about to be used.
TokenComing ==
    \/ \E ask \in asking : ask.closes = client.stream.closes
    \/ HoldsToken(main, client.stream.closes) \/ HoldsToken(worker, client.stream.closes)

\* While the network is on, a queued write of the user is never left to nobody:
\* a token or the end of a backoff is due, or a request or answer on its way.
QueueIsServed ==
    client.network /\ client.queue[client.user] # <<>> =>
        \/ client.stream.state = "Starting" /\ TokenComing
        \/ client.stream.state = "Backoff" /\ client.stream.backoff
        \/ /\ IsOpen(client.stream)
           /\ client.stream.up # <<>> \/ client.stream.down # <<>>

\* Writes that are sent again after a failure do not undo newer ones for good:
\* once a user's queue is empty, the newest of the writes that were applied for
\* this user is the one that was applied last.
LastWriteStays ==
    \A u \in Users : client.queue[u] = <<>> =>
        \A w \in backend.applied : by[w] = u => w <= backend.latest[u]

\* A healthy stream is timed for closing exactly while it has nothing to send.
IdleTimerFits ==
    IsOpen(client.stream) =>
        (client.stream.idle <=> client.handshake /\ client.pipeline = <<>>)

Contract == INSTANCE WriteContract WITH
    owed <- [u \in Users |-> WritesOf(client.queue[u])],
    applied <- backend.applied,
    latest <- backend.latest

\* Over every disconnection, restart and change of user, each user's writes
\* reach the backend in their order, at least once, and none is applied after
\* a newer one of the same user has been acknowledged.
ImplementsContract == Contract!Spec

\* A queued write leaves the queue unless another user signs in or the network
\* is turned off.
EveryWriteSettles ==
    \A w \in Writes : Queued(w) ~>
        (~Queued(w) \/ client.user # by[w] \/ ~client.network)
=============================================================================
