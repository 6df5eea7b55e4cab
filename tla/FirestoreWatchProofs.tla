------------------------- MODULE FirestoreWatchProofs -------------------------
(***************************************************************************)
(* TLAPS proofs about FirestoreWatch, for every finite set of targets and  *)
(* every bound: no HARD_ASSERT of the listening side fails, the online     *)
(* state is what the listeners may take it for, and counting responses is  *)
(* enough to tell the changes of a target's latest watch from older ones.  *)
(***************************************************************************)
EXTENDS FirestoreWatch, FiniteSetTheorems, SequenceTheorems, TLAPS

Request == [kind : {"watch", "unwatch"}, target : Targets, number : Nat]
OfTarget == {"added", "removed", "rejected", "current", "change", "filter"}
OfListen == {"current", "change"}
Message == [kind : OfTarget, target : Targets, number : Nat] \cup [kind : {"snapshot"}]

StreamState == {"Initial", "Starting", "Open", "Error", "Backoff"}
StreamType == [state : StreamState, closes : Nat, asked : BOOLEAN,
               token : {NoUser, "user"}, idle : BOOLEAN, backoff : BOOLEAN,
               up : Seq(Request), down : Seq(Message)]
TargetState == [known : BOOLEAN, due : Int, changes : SUBSET Nat, current : Nat,
                kept : BOOLEAN]
OnlineState == {"Unknown", "Online", "Offline"}
Shown == {"absent", "waiting", "cached", "synced"}

Client == [network : BOOLEAN, stream : StreamType, listening : SUBSET Targets,
           aggregating : BOOLEAN, states : [Targets -> TargetState],
           resets : SUBSET Targets, sent : [Targets -> Nat],
           view : [Targets -> Shown], online : OnlineState,
           failures : 0..MaxWatchStreamFailures, timer : BOOLEAN, failed : BOOLEAN]

\* What holds of the stream alone.
StreamSane(s) ==
    /\ s.backoff <=> s.state = "Backoff"
    /\ s.idle => IsOpen(s)
    /\ s.up # <<>> \/ s.down # <<>> => IsOpen(s)
    /\ s.asked => s.state = "Starting"

\* What holds of the listeners and the online state.
ShownSane(c) ==
    /\ \A t \in Targets : c.view[t] # "absent" <=> t \in c.listening
    /\ c.online = "Offline" => \A t \in Targets : c.view[t] \in {"absent", "cached"}
    /\ c.timer => c.online = "Unknown" /\ c.failures = 0
    /\ c.online = "Online" => c.failures = 0

\* What holds at every point of an operation.
Sane(c) ==
    /\ c \in Client /\ ~c.failed
    /\ StreamSane(c.stream) /\ ShownSane(c)
    /\ c.stream.idle => c.listening = {}

\* What ties the stream to the rest of the client between two operations.
Linked(c) ==
    /\ c.aggregating <=> IsStarted(c.stream)
    /\ c.timer => IsStarted(c.stream)
    /\ c.online = "Online" => IsOpen(c.stream)
    /\ IsStarted(c.stream) => c.network
    /\ c.network /\ c.listening # {} => IsStarted(c.stream)

Sound(c) == Sane(c) /\ Linked(c)

\* Unless it is closed, a stream that waits for its token or is open stays so.
Follows(c, d) ==
    \/ d.stream.closes > c.stream.closes
    \/ /\ d.stream.closes = c.stream.closes
       /\ c.stream.state \in {"Starting", "Open"} => d.stream.state = c.stream.state

\* What a stream that is not open leaves of the targets' states, and what an
\* operation that does not concern them leaves of them.
Emptied(c) == ~IsOpen(c.stream) /\ c.states = NoStates
Undisturbed(c, d) ==
    /\ d.listening = c.listening /\ d.states = c.states /\ d.sent = c.sent
    /\ d.stream.state = c.stream.state /\ d.stream.closes = c.stream.closes
    /\ d.stream.up = c.stream.up /\ d.stream.down = c.stream.down

-----------------------------------------------------------------------------
(* Types. *)

\* A field of a client or of a stream may take any value of its type.
LEMMA SetClient ==
    /\ \A c \in Client : \A x \in BOOLEAN : [c EXCEPT !.network = x] \in Client
    /\ \A c \in Client : \A x \in StreamType : [c EXCEPT !.stream = x] \in Client
    /\ \A c \in Client : \A x \in SUBSET Targets : [c EXCEPT !.listening = x] \in Client
    /\ \A c \in Client : \A x \in BOOLEAN : [c EXCEPT !.aggregating = x] \in Client
    /\ \A c \in Client : \A x \in [Targets -> TargetState] : [c EXCEPT !.states = x] \in Client
    /\ \A c \in Client : \A x \in SUBSET Targets : [c EXCEPT !.resets = x] \in Client
    /\ \A c \in Client : \A x \in [Targets -> Nat] : [c EXCEPT !.sent = x] \in Client
    /\ \A c \in Client : \A x \in [Targets -> Shown] : [c EXCEPT !.view = x] \in Client
    /\ \A c \in Client : \A x \in OnlineState : [c EXCEPT !.online = x] \in Client
    /\ \A c \in Client : \A x \in 0..MaxWatchStreamFailures : [c EXCEPT !.failures = x] \in Client
    /\ \A c \in Client : \A x \in BOOLEAN : [c EXCEPT !.timer = x] \in Client
    /\ \A c \in Client : \A x \in BOOLEAN : [c EXCEPT !.failed = x] \in Client
  <1>1. \A c \in Client : \A x \in BOOLEAN : [c EXCEPT !.network = x] \in Client
    BY DEF Client
  <1>2. \A c \in Client : \A x \in StreamType : [c EXCEPT !.stream = x] \in Client
    BY DEF Client
  <1>3. \A c \in Client : \A x \in SUBSET Targets : [c EXCEPT !.listening = x] \in Client
    BY DEF Client
  <1>4. \A c \in Client : \A x \in BOOLEAN : [c EXCEPT !.aggregating = x] \in Client
    BY DEF Client
  <1>5. \A c \in Client : \A x \in [Targets -> TargetState] : [c EXCEPT !.states = x] \in Client
    BY DEF Client
  <1>6. \A c \in Client : \A x \in SUBSET Targets : [c EXCEPT !.resets = x] \in Client
    BY DEF Client
  <1>7. \A c \in Client : \A x \in [Targets -> Nat] : [c EXCEPT !.sent = x] \in Client
    BY DEF Client
  <1>8. \A c \in Client : \A x \in [Targets -> Shown] : [c EXCEPT !.view = x] \in Client
    BY DEF Client
  <1>9. \A c \in Client : \A x \in OnlineState : [c EXCEPT !.online = x] \in Client
    BY DEF Client
  <1>10. \A c \in Client : \A x \in 0..MaxWatchStreamFailures : [c EXCEPT !.failures = x] \in Client
    BY DEF Client
  <1>11. \A c \in Client : \A x \in BOOLEAN : [c EXCEPT !.timer = x] \in Client
    BY DEF Client
  <1>12. \A c \in Client : \A x \in BOOLEAN : [c EXCEPT !.failed = x] \in Client
    BY DEF Client
  <1> QED BY <1>1, <1>2, <1>3, <1>4, <1>5, <1>6, <1>7, <1>8, <1>9, <1>10, <1>11, <1>12

\* The fields of a stream.
LEMMA SetStream ==
    /\ \A c \in StreamType : \A x \in StreamState : [c EXCEPT !.state = x] \in StreamType
    /\ \A c \in StreamType : \A x \in Nat : [c EXCEPT !.closes = x] \in StreamType
    /\ \A c \in StreamType : \A x \in BOOLEAN : [c EXCEPT !.asked = x] \in StreamType
    /\ \A c \in StreamType : \A x \in {NoUser, "user"} : [c EXCEPT !.token = x] \in StreamType
    /\ \A c \in StreamType : \A x \in BOOLEAN : [c EXCEPT !.idle = x] \in StreamType
    /\ \A c \in StreamType : \A x \in BOOLEAN : [c EXCEPT !.backoff = x] \in StreamType
    /\ \A c \in StreamType : \A x \in Seq(Request) : [c EXCEPT !.up = x] \in StreamType
    /\ \A c \in StreamType : \A x \in Seq(Message) : [c EXCEPT !.down = x] \in StreamType
  <1>1. \A c \in StreamType : \A x \in StreamState : [c EXCEPT !.state = x] \in StreamType
    BY DEF StreamType
  <1>2. \A c \in StreamType : \A x \in Nat : [c EXCEPT !.closes = x] \in StreamType
    BY DEF StreamType
  <1>3. \A c \in StreamType : \A x \in BOOLEAN : [c EXCEPT !.asked = x] \in StreamType
    BY DEF StreamType
  <1>4. \A c \in StreamType : \A x \in {NoUser, "user"} : [c EXCEPT !.token = x] \in StreamType
    BY DEF StreamType
  <1>5. \A c \in StreamType : \A x \in BOOLEAN : [c EXCEPT !.idle = x] \in StreamType
    BY DEF StreamType
  <1>6. \A c \in StreamType : \A x \in BOOLEAN : [c EXCEPT !.backoff = x] \in StreamType
    BY DEF StreamType
  <1>7. \A c \in StreamType : \A x \in Seq(Request) : [c EXCEPT !.up = x] \in StreamType
    BY DEF StreamType
  <1>8. \A c \in StreamType : \A x \in Seq(Message) : [c EXCEPT !.down = x] \in StreamType
    BY DEF StreamType
  <1> QED BY <1>1, <1>2, <1>3, <1>4, <1>5, <1>6, <1>7, <1>8

\* The fields of a client's stream.
LEMMA SetBoth ==
    /\ \A c \in Client : \A x \in StreamState : [c EXCEPT !.stream.state = x] \in Client
    /\ \A c \in Client : \A x \in Nat : [c EXCEPT !.stream.closes = x] \in Client
    /\ \A c \in Client : \A x \in BOOLEAN : [c EXCEPT !.stream.asked = x] \in Client
    /\ \A c \in Client : \A x \in {NoUser, "user"} : [c EXCEPT !.stream.token = x] \in Client
    /\ \A c \in Client : \A x \in BOOLEAN : [c EXCEPT !.stream.idle = x] \in Client
    /\ \A c \in Client : \A x \in BOOLEAN : [c EXCEPT !.stream.backoff = x] \in Client
    /\ \A c \in Client : \A x \in Seq(Request) : [c EXCEPT !.stream.up = x] \in Client
    /\ \A c \in Client : \A x \in Seq(Message) : [c EXCEPT !.stream.down = x] \in Client
  <1> SUFFICES ASSUME NEW c \in Client
               PROVE
    /\ \A x \in StreamState : [c EXCEPT !.stream.state = x] \in Client
    /\ \A x \in Nat : [c EXCEPT !.stream.closes = x] \in Client
    /\ \A x \in BOOLEAN : [c EXCEPT !.stream.asked = x] \in Client
    /\ \A x \in {NoUser, "user"} : [c EXCEPT !.stream.token = x] \in Client
    /\ \A x \in BOOLEAN : [c EXCEPT !.stream.idle = x] \in Client
    /\ \A x \in BOOLEAN : [c EXCEPT !.stream.backoff = x] \in Client
    /\ \A x \in Seq(Request) : [c EXCEPT !.stream.up = x] \in Client
    /\ \A x \in Seq(Message) : [c EXCEPT !.stream.down = x] \in Client
    OBVIOUS
  <1>0. c.stream \in StreamType
    BY DEF Client
  <1>1. ASSUME NEW x \in StreamState PROVE [c EXCEPT !.stream.state = x] \in Client
    <2>1. [c EXCEPT !.stream.state = x] = [c EXCEPT !.stream = [c.stream EXCEPT !.state = x]]
      OBVIOUS
    <2> QED BY <2>1, <1>0, SetClient, SetStream, Zenon
  <1>2. ASSUME NEW x \in Nat PROVE [c EXCEPT !.stream.closes = x] \in Client
    <2>1. [c EXCEPT !.stream.closes = x] = [c EXCEPT !.stream = [c.stream EXCEPT !.closes = x]]
      OBVIOUS
    <2> QED BY <2>1, <1>0, SetClient, SetStream, Zenon
  <1>3. ASSUME NEW x \in BOOLEAN PROVE [c EXCEPT !.stream.asked = x] \in Client
    <2>1. [c EXCEPT !.stream.asked = x] = [c EXCEPT !.stream = [c.stream EXCEPT !.asked = x]]
      OBVIOUS
    <2> QED BY <2>1, <1>0, SetClient, SetStream, Zenon
  <1>4. ASSUME NEW x \in {NoUser, "user"} PROVE [c EXCEPT !.stream.token = x] \in Client
    <2>1. [c EXCEPT !.stream.token = x] = [c EXCEPT !.stream = [c.stream EXCEPT !.token = x]]
      OBVIOUS
    <2> QED BY <2>1, <1>0, SetClient, SetStream, Zenon
  <1>5. ASSUME NEW x \in BOOLEAN PROVE [c EXCEPT !.stream.idle = x] \in Client
    <2>1. [c EXCEPT !.stream.idle = x] = [c EXCEPT !.stream = [c.stream EXCEPT !.idle = x]]
      OBVIOUS
    <2> QED BY <2>1, <1>0, SetClient, SetStream, Zenon
  <1>6. ASSUME NEW x \in BOOLEAN PROVE [c EXCEPT !.stream.backoff = x] \in Client
    <2>1. [c EXCEPT !.stream.backoff = x] = [c EXCEPT !.stream = [c.stream EXCEPT !.backoff = x]]
      OBVIOUS
    <2> QED BY <2>1, <1>0, SetClient, SetStream, Zenon
  <1>7. ASSUME NEW x \in Seq(Request) PROVE [c EXCEPT !.stream.up = x] \in Client
    <2>1. [c EXCEPT !.stream.up = x] = [c EXCEPT !.stream = [c.stream EXCEPT !.up = x]]
      OBVIOUS
    <2> QED BY <2>1, <1>0, SetClient, SetStream, Zenon
  <1>8. ASSUME NEW x \in Seq(Message) PROVE [c EXCEPT !.stream.down = x] \in Client
    <2>1. [c EXCEPT !.stream.down = x] = [c EXCEPT !.stream = [c.stream EXCEPT !.down = x]]
      OBVIOUS
    <2> QED BY <2>1, <1>0, SetClient, SetStream, Zenon
  <1> QED BY <1>1, <1>2, <1>3, <1>4, <1>5, <1>6, <1>7, <1>8

\* The values the operators give to fields are of the fields' types.
LEMMA Values ==
    /\ TRUE \in BOOLEAN /\ FALSE \in BOOLEAN
    /\ 0 \in 0..MaxWatchStreamFailures /\ MaxWatchStreamFailures \in 0..MaxWatchStreamFailures
    /\ "Initial" \in StreamState /\ "Starting" \in StreamState /\ "Open" \in StreamState
    /\ "Error" \in StreamState /\ "Backoff" \in StreamState
    /\ NoUser \in {NoUser, "user"} /\ "user" \in {NoUser, "user"}
    /\ <<>> \in Seq(Request) /\ <<>> \in Seq(Message)
    /\ "Unknown" \in OnlineState /\ "Online" \in OnlineState /\ "Offline" \in OnlineState
    /\ {} \in SUBSET Targets
    /\ NoStates \in [Targets -> TargetState]
    /\ [t \in Targets |-> 0] \in [Targets -> Nat]
  BY DEF StreamState, OnlineState, MaxWatchStreamFailures, NoStates, NoState, TargetState

-----------------------------------------------------------------------------
(* The operators. *)

\* An assertion that holds changes nothing.
LEMMA AssertHolds ==
    ASSUME NEW c \in Client, ~c.failed, NEW holds, holds = TRUE
    PROVE  HardAssert(c, holds) = c
  <1>1. (c.failed \/ ~holds) = c.failed
    BY DEF Client
  <1>2. HardAssert(c, holds) = [c EXCEPT !.failed = c.failed]
    BY <1>1 DEF HardAssert
  <1> QED BY <1>2 DEF Client

\* An operation on the stream or the online state leaves the targets alone.
SameTargets(c, d) ==
    /\ d.network = c.network /\ d.listening = c.listening
    /\ d.states = c.states /\ d.resets = c.resets /\ d.sent = c.sent
    /\ d.failed = c.failed

\* What a new online state does to the views.
LEMMA BroadcastView ==
    ASSUME NEW c \in Client, NEW state \in OnlineState,
           NEW d, d = Broadcast(c, state)
    PROVE  /\ d \in Client /\ d.online = state /\ SameTargets(c, d)
           /\ d.aggregating = c.aggregating /\ d.stream = c.stream
           /\ d.failures = c.failures /\ d.timer = c.timer
           /\ \A t \in Targets : d.view[t] =
                  IF state = "Offline" /\ c.online # "Offline" /\ c.view[t] # "absent"
                  THEN "cached" ELSE c.view[t]
  <1> DEFINE v == [t \in Targets |->
                     IF state = "Offline" /\ c.online # "Offline" /\ c.view[t] # "absent"
                     THEN "cached" ELSE c.view[t]]
  <1>1. d = [c EXCEPT !.online = state, !.view = v]
    BY DEF Broadcast
  <1>2. v \in [Targets -> Shown]
    BY DEF Client, Shown
  <1>3. \A t \in Targets : v[t] =
            IF state = "Offline" /\ c.online # "Offline" /\ c.view[t] # "absent"
            THEN "cached" ELSE c.view[t]
    OBVIOUS
  <1> HIDE DEF v
  <1>4. [c EXCEPT !.online = state, !.view = v] \in Client
    BY <1>2, SetClient, Zenon
  <1>5. /\ d.view = v /\ d.online = state /\ SameTargets(c, d)
        /\ d.aggregating = c.aggregating /\ d.stream = c.stream
        /\ d.failures = c.failures /\ d.timer = c.timer
    BY <1>1 DEF Client, SameTargets
  <1> QED BY <1>1, <1>3, <1>4, <1>5

\* The online state may be updated at any point of an operation.
LEMMA UpdateSane ==
    ASSUME NEW c, Sane(c), NEW state \in OnlineState,
           NEW d, d = UpdateState(c, state)
    PROVE  /\ Sane(d) /\ d.online = state /\ ~d.timer /\ SameTargets(c, d)
           /\ d.aggregating = c.aggregating /\ d.stream = c.stream
  <1> DEFINE b == [c EXCEPT !.timer = FALSE, !.failures = 0]
  <1>1. b \in Client
    BY SetClient, Values, Zenon DEF Sane
  <1>2. d = Broadcast(b, state)
    BY DEF UpdateState
  <1>3. /\ SameTargets(c, b) /\ b.aggregating = c.aggregating /\ b.stream = c.stream
        /\ b.view = c.view /\ b.online = c.online /\ b.failures = 0 /\ b.timer = FALSE
    BY DEF Sane, Client, SameTargets
  <1> HIDE DEF b
  <1>4. /\ d \in Client /\ d.online = state /\ SameTargets(b, d)
        /\ d.aggregating = b.aggregating /\ d.stream = b.stream
        /\ d.failures = b.failures /\ d.timer = b.timer
        /\ \A t \in Targets : d.view[t] =
               IF state = "Offline" /\ b.online # "Offline" /\ b.view[t] # "absent"
               THEN "cached" ELSE b.view[t]
    BY <1>1, <1>2, BroadcastView
  <1>5. SameTargets(c, d) /\ d.aggregating = c.aggregating /\ d.stream = c.stream
    BY <1>3, <1>4 DEF SameTargets
  <1>6. ShownSane(d)
    BY <1>3, <1>4, <1>5 DEF Sane, ShownSane, SameTargets
  <1> QED BY <1>3, <1>4, <1>5, <1>6 DEF Sane, SameTargets

\* A stream that was not started starts, or waits for its backoff to elapse.
LEMMA StartSane ==
    ASSUME NEW c, Sane(c), ~IsStarted(c.stream), NEW d, d = StartStream(c)
    PROVE  /\ Sane(d) /\ IsStarted(d.stream) /\ ~IsOpen(d.stream)
           /\ d.stream.closes = c.stream.closes
           /\ SameTargets(c, d) /\ d.aggregating = c.aggregating
           /\ d.view = c.view /\ d.online = c.online
           /\ d.failures = c.failures /\ d.timer = c.timer
  <1> USE Values
  <1>1. c \in Client /\ c.stream \in StreamType
    BY DEF Sane, Client
  <1>2. CASE c.stream.state = "Error"
    <2>1. d = [c EXCEPT !.stream.state = "Backoff", !.stream.backoff = TRUE]
      BY <1>2 DEF StartStream
    <2>2. [c EXCEPT !.stream.state = "Backoff", !.stream.backoff = TRUE] \in Client
      BY <1>1, SetBoth, Zenon
    <2>3. d.stream = [c.stream EXCEPT !.state = "Backoff", !.backoff = TRUE]
      BY <2>1, <1>1 DEF Client
    <2>4. StreamSane(d.stream) /\ IsStarted(d.stream) /\ ~IsOpen(d.stream) /\ d.stream.closes = c.stream.closes
          /\ d.stream.idle = c.stream.idle
      BY <2>3, <1>1, <1>2 DEF Sane, StreamSane, StreamType, IsStarted, IsOpen
    <2>5. /\ SameTargets(c, d) /\ d.aggregating = c.aggregating
          /\ d.view = c.view /\ d.online = c.online
          /\ d.failures = c.failures /\ d.timer = c.timer
      BY <2>1, <1>1 DEF Client, SameTargets
    <2> QED BY <2>1, <2>2, <2>4, <2>5 DEF Sane, ShownSane, SameTargets
  <1>3. CASE c.stream.state = "Initial"
    <2>1. d = [c EXCEPT !.stream.state = "Starting", !.stream.asked = TRUE]
      BY <1>3 DEF StartStream
    <2>2. [c EXCEPT !.stream.state = "Starting", !.stream.asked = TRUE] \in Client
      BY <1>1, SetBoth, Zenon
    <2>3. d.stream = [c.stream EXCEPT !.state = "Starting", !.asked = TRUE]
      BY <2>1, <1>1 DEF Client
    <2>4. StreamSane(d.stream) /\ IsStarted(d.stream) /\ ~IsOpen(d.stream) /\ d.stream.closes = c.stream.closes
          /\ d.stream.idle = c.stream.idle
      BY <2>3, <1>1, <1>3 DEF Sane, StreamSane, StreamType, IsStarted, IsOpen
    <2>5. /\ SameTargets(c, d) /\ d.aggregating = c.aggregating
          /\ d.view = c.view /\ d.online = c.online
          /\ d.failures = c.failures /\ d.timer = c.timer
      BY <2>1, <1>1 DEF Client, SameTargets
    <2> QED BY <2>1, <2>2, <2>4, <2>5 DEF Sane, ShownSane, SameTargets
  <1> QED BY <1>1, <1>2, <1>3 DEF IsStarted, StreamType, StreamState

\* The timer of the online state is set for a first attempt only.
LEMMA StreamStartSane ==
    ASSUME NEW c, Sane(c), ~c.timer, c.online # "Online",
           NEW d, d = HandleWatchStreamStart(c)
    PROVE  /\ Sane(d) /\ d.online # "Online" /\ SameTargets(c, d)
           /\ d.stream = c.stream /\ d.aggregating = c.aggregating
  <1>1. CASE c.failures # 0
    BY <1>1 DEF HandleWatchStreamStart, SameTargets
  <1>2. CASE c.failures = 0
    <2> DEFINE b == Broadcast(c, "Unknown")
    <2>1. /\ b \in Client /\ b.online = "Unknown" /\ SameTargets(c, b)
          /\ b.aggregating = c.aggregating /\ b.stream = c.stream
          /\ b.failures = c.failures /\ b.timer = c.timer
          /\ \A t \in Targets : b.view[t] = c.view[t]
      BY BroadcastView, Values DEF Sane
    <2> HIDE DEF b
    <2>2. HardAssert(b, ~c.timer) = b
      BY <2>1, AssertHolds DEF Sane, SameTargets
    <2>3. d = [b EXCEPT !.timer = TRUE]
      BY <1>2, <2>2 DEF HandleWatchStreamStart, b
    <2>4. d \in Client
      BY <2>1, <2>3, SetClient, Values, Zenon
    <2>5. /\ SameTargets(b, d) /\ d.aggregating = b.aggregating /\ d.stream = b.stream
          /\ d.failures = b.failures /\ d.timer = TRUE /\ d.view = b.view
          /\ d.online = b.online
      BY <2>1, <2>3 DEF Client, SameTargets
    <2>6. SameTargets(c, d)
      BY <2>1, <2>5 DEF SameTargets
    <2>7. ShownSane(d)
      BY <1>2, <2>1, <2>5, <2>6 DEF Sane, ShownSane, SameTargets
    <2> QED BY <2>1, <2>4, <2>5, <2>6, <2>7 DEF Sane, SameTargets
  <1> QED BY <1>1, <1>2

\* Cleaning up touches the aggregator alone.
LEMMA CleanUpSane ==
    ASSUME NEW c, Sane(c), NEW d, d = CleanUp(c)
    PROVE  /\ Sane(d) /\ ~d.aggregating /\ d.network = c.network
           /\ d.listening = c.listening /\ d.stream = c.stream
           /\ d.online = c.online /\ d.failures = c.failures /\ d.timer = c.timer
           /\ d.view = c.view /\ d.states = NoStates
  <1>1. d = [c EXCEPT !.aggregating = FALSE, !.states = NoStates,
                      !.resets = {}, !.sent = [t \in Targets |-> 0]]
    BY DEF CleanUp
  <1>2. d \in Client
    <2> DEFINE none == [t \in Targets |-> 0]
    <2>1. none \in [Targets -> Nat]
      OBVIOUS
    <2> HIDE DEF none
    <2>2. [c EXCEPT !.aggregating = FALSE, !.states = NoStates,
                    !.resets = {}, !.sent = none] \in Client
      BY <2>1, SetClient, Values, Zenon DEF Sane
    <2> QED BY <1>1, <2>2 DEF none
  <1>3. /\ d.aggregating = FALSE /\ d.network = c.network
        /\ d.listening = c.listening /\ d.stream = c.stream
        /\ d.online = c.online /\ d.failures = c.failures /\ d.timer = c.timer
        /\ d.view = c.view /\ d.failed = c.failed /\ d.states = NoStates
    BY <1>1 DEF Sane, Client
  <1> QED BY <1>2, <1>3 DEF Sane, ShownSane

\* After the watch stream was started the client is sound again.
LEMMA StartWatchSound ==
    ASSUME NEW c, Sane(c), ShouldStartWatchStream(c), ~c.timer, c.online # "Online",
           NEW d, d = StartWatchStream(c)
    PROVE  /\ Sound(d) /\ d.stream.closes = c.stream.closes
           /\ d.network = c.network /\ d.listening = c.listening
           /\ IsStarted(d.stream) /\ Emptied(d)
  <1>1. HardAssert(c, ShouldStartWatchStream(c)) = c
    BY AssertHolds DEF Sane
  <1> DEFINE b == CleanUp(c)
             g == [b EXCEPT !.aggregating = TRUE]
             e == StartStream(g)
  <1>2. d = HandleWatchStreamStart(e)
    BY <1>1 DEF StartWatchStream
  <1>3. /\ Sane(b) /\ b.network = c.network
        /\ b.listening = c.listening /\ b.stream = c.stream
        /\ b.online = c.online /\ b.failures = c.failures /\ b.timer = c.timer
        /\ b.view = c.view /\ b.states = NoStates
    BY CleanUpSane
  <1> HIDE DEF b
  <1>4. g \in Client
    BY <1>3, SetClient, Values, Zenon DEF Sane
  <1>5. /\ SameTargets(b, g) /\ g.aggregating = TRUE /\ g.stream = b.stream
        /\ g.online = b.online /\ g.failures = b.failures /\ g.timer = b.timer
        /\ g.view = b.view
    BY <1>3 DEF Sane, Client, SameTargets
  <1> HIDE DEF g
  <1>6. Sane(g)
    BY <1>3, <1>4, <1>5 DEF Sane, ShownSane, SameTargets
  <1>7. ~IsStarted(g.stream)
    BY <1>3, <1>5 DEF ShouldStartWatchStream
  <1>8. /\ Sane(e) /\ IsStarted(e.stream) /\ ~IsOpen(e.stream) /\ e.stream.closes = g.stream.closes
        /\ SameTargets(g, e) /\ e.aggregating = g.aggregating
        /\ e.online = g.online /\ e.timer = g.timer
    BY <1>6, <1>7, StartSane
  <1> HIDE DEF e
  <1>9. /\ Sane(d) /\ d.online # "Online" /\ SameTargets(e, d)
        /\ d.stream = e.stream /\ d.aggregating = e.aggregating
    BY <1>2, <1>3, <1>5, <1>8, StreamStartSane
  <1>10. c.network /\ d.network = c.network /\ d.listening = c.listening
    BY <1>3, <1>5, <1>8, <1>9 DEF SameTargets, ShouldStartWatchStream
  <1>11. Emptied(d)
    BY <1>3, <1>5, <1>8, <1>9 DEF Emptied, SameTargets
  <1> QED BY <1>3, <1>5, <1>8, <1>9, <1>10, <1>11 DEF Sound, Linked

\* A failed attempt takes the client offline, unless it was online.
LEMMA StreamFailureSane ==
    ASSUME NEW c, Sane(c), NEW d, d = HandleWatchStreamFailure(c)
    PROVE  /\ Sane(d) /\ ~d.timer /\ d.online # "Online" /\ SameTargets(c, d)
           /\ d.stream = c.stream
  <1>1. CASE c.online = "Online"
    <2> DEFINE b == Broadcast(c, "Unknown")
    <2>1. /\ b \in Client /\ b.online = "Unknown" /\ SameTargets(c, b)
          /\ b.stream = c.stream /\ b.failures = c.failures /\ b.timer = c.timer
          /\ \A t \in Targets : b.view[t] = c.view[t]
      BY BroadcastView, Values DEF Sane
    <2> HIDE DEF b
    <2>2. c.failures = 0 /\ ~c.timer
      BY <1>1 DEF Sane, ShownSane
    <2>3. HardAssert(b, c.failures = 0 /\ ~c.timer) = b
      BY <2>1, <2>2, AssertHolds DEF Sane, SameTargets
    <2>4. d = b
      BY <1>1, <2>3 DEF HandleWatchStreamFailure, b
    <2> QED BY <2>1, <2>2, <2>4 DEF Sane, ShownSane, SameTargets
  <1>2. CASE c.online # "Online"
    <2> DEFINE b == [c EXCEPT !.failures = MaxWatchStreamFailures, !.timer = FALSE]
    <2>1. d = Broadcast(b, "Offline")
      BY <1>2 DEF HandleWatchStreamFailure
    <2>2. b \in Client
      BY SetClient, Values, Zenon DEF Sane
    <2>3. /\ SameTargets(c, b) /\ b.stream = c.stream /\ b.view = c.view
          /\ b.online = c.online /\ b.timer = FALSE
      BY DEF Sane, Client, SameTargets
    <2> HIDE DEF b
    <2>4. /\ d \in Client /\ d.online = "Offline" /\ SameTargets(b, d)
          /\ d.stream = b.stream /\ d.timer = b.timer
          /\ \A t \in Targets : d.view[t] =
                 IF b.online # "Offline" /\ b.view[t] # "absent"
                 THEN "cached" ELSE b.view[t]
      BY <2>1, <2>2, BroadcastView, Values
    <2>5. SameTargets(c, d)
      BY <2>3, <2>4 DEF SameTargets
    <2>6. ShownSane(d)
      BY <2>3, <2>4, <2>5 DEF Sane, ShownSane, SameTargets
    <2> QED BY <2>3, <2>4, <2>5, <2>6 DEF Sane, SameTargets
  <1> QED BY <1>1, <1>2

\* The end of a stream, whether or not it is started again at once.
LEMMA OnCloseSound ==
    ASSUME NEW c, Sane(c), ~IsStarted(c.stream), NEW status,
           status = "ok" => ~ShouldStartWatchStream(c),
           NEW d, d = OnWatchStreamClose(c, status)
    PROVE  /\ Sound(d) /\ d.stream.closes = c.stream.closes
           /\ d.network = c.network /\ d.listening = c.listening
           /\ ~c.network => ~IsStarted(d.stream)
           /\ Emptied(d)
  <1> DEFINE clean == CleanUp(c)
             fallen == HandleWatchStreamFailure(clean)
  <1>1. HardAssert(c, status = "ok" => ~ShouldStartWatchStream(c)) = c
    BY AssertHolds DEF Sane
  <1>2. d = IF ShouldStartWatchStream(clean) THEN StartWatchStream(fallen)
            ELSE UpdateState(clean, "Unknown")
    BY <1>1 DEF OnWatchStreamClose
  <1>3. /\ Sane(clean) /\ ~clean.aggregating /\ clean.network = c.network
        /\ clean.listening = c.listening /\ clean.stream = c.stream
        /\ clean.states = NoStates
    BY CleanUpSane
  <1> HIDE DEF clean
  <1>4. CASE ShouldStartWatchStream(clean)
    <2>1. /\ Sane(fallen) /\ ~fallen.timer /\ fallen.online # "Online"
          /\ SameTargets(clean, fallen) /\ fallen.stream = clean.stream
      BY <1>3, StreamFailureSane
    <2> HIDE DEF fallen
    <2>2. ShouldStartWatchStream(fallen)
      BY <1>4, <2>1 DEF ShouldStartWatchStream, SameTargets
    <2>3. d = StartWatchStream(fallen)
      BY <1>2, <1>4
    <2>4. /\ Sound(d) /\ d.stream.closes = fallen.stream.closes
          /\ d.network = fallen.network /\ d.listening = fallen.listening
          /\ Emptied(d)
      BY <2>1, <2>2, <2>3, StartWatchSound
    <2> QED BY <1>3, <1>4, <2>1, <2>4 DEF SameTargets, ShouldStartWatchStream
  <1>5. CASE ~ShouldStartWatchStream(clean)
    <2>1. d = UpdateState(clean, "Unknown")
      BY <1>2, <1>5
    <2>2. /\ Sane(d) /\ d.online = "Unknown" /\ ~d.timer /\ SameTargets(clean, d)
          /\ d.aggregating = clean.aggregating /\ d.stream = clean.stream
      BY <1>3, <2>1, UpdateSane, Values
    <2> QED BY <1>3, <1>5, <2>2
            DEF Sound, Linked, SameTargets, ShouldStartWatchStream, Emptied, IsOpen, IsStarted
  <1> QED BY <1>4, <1>5

\* The stream's part of a close.
LEMMA CloseStreamSane ==
    ASSUME NEW c, Sane(c), IsStarted(c.stream), ~c.stream.asked, NEW status,
           NEW d, d = CloseStream(c, status)
    PROVE  /\ Sane(d) /\ ~IsStarted(d.stream) /\ SameTargets(c, d)
           /\ d.stream.closes = c.stream.closes + 1
  <1> DEFINE state == IF status = "ok" THEN "Initial" ELSE "Error"
  <1>1. HardAssert(c, IsStarted(c.stream)) = c
    BY AssertHolds DEF Sane
  <1>2. d = [c EXCEPT
        !.stream.idle = FALSE, !.stream.backoff = FALSE,
        !.stream.closes = c.stream.closes + 1, !.stream.token = NoUser,
        !.stream.up = <<>>, !.stream.down = <<>>,
        !.stream.state = state]
    BY <1>1 DEF CloseStream
  <1>3. /\ state \in StreamState /\ state \in {"Initial", "Error"}
        /\ c.stream.closes + 1 \in Nat /\ c \in Client /\ c.stream \in StreamType
    BY DEF StreamState, Sane, Client, StreamType
  <1> HIDE DEF state
  <1>4. d.stream = [c.stream EXCEPT !.idle = FALSE, !.backoff = FALSE,
                       !.closes = c.stream.closes + 1, !.token = NoUser, !.up = <<>>, !.down = <<>>,
                       !.state = state]
    BY <1>2, <1>3 DEF Client
  <1>5. /\ SameTargets(c, d) /\ d.aggregating = c.aggregating
        /\ d.online = c.online /\ d.failures = c.failures /\ d.timer = c.timer
        /\ d.view = c.view
    BY <1>2, <1>3 DEF Client, SameTargets
  <1>6. /\ d.stream.idle = FALSE /\ d.stream.backoff = FALSE /\ d.stream.up = <<>>
        /\ d.stream.down = <<>> /\ d.stream.state = state
        /\ d.stream.closes = c.stream.closes + 1 /\ d.stream.asked = c.stream.asked
    BY <1>3, <1>4 DEF StreamType
  <1>7. d \in Client
    <2> DEFINE n == c.stream.closes + 1
               s == [c.stream EXCEPT !.idle = FALSE, !.backoff = FALSE,
                       !.closes = n, !.token = NoUser, !.up = <<>>, !.down = <<>>,
                       !.state = state]
    <2>1. d.stream = s
      BY <1>4
    <2>2. n \in Nat
      BY <1>3
    <2>3. d = [c EXCEPT !.stream = d.stream]
      BY <1>2, <1>3 DEF Client
    <2> HIDE DEF n
    <2>4. s \in StreamType
      BY <1>3, <2>2, SetStream, Values, Zenon
    <2> HIDE DEF s
    <2>5. [c EXCEPT !.stream = s] \in Client
      BY <1>3, <2>4, SetClient, Zenon
    <2> QED BY <2>1, <2>3, <2>5
  <1> QED BY <1>3, <1>5, <1>6, <1>7 DEF Sane, StreamSane, ShownSane, SameTargets, IsOpen, IsStarted

\* A started stream is closed, gracefully only when no target needs it.
LEMMA CloseSound ==
    ASSUME NEW c, Sane(c), IsStarted(c.stream), ~c.stream.asked, NEW status,
           status = "ok" => ~(c.network /\ c.listening # {}),
           NEW d, d = Close(c, status)
    PROVE  /\ Sound(d) /\ d.stream.closes = c.stream.closes + 1
           /\ d.network = c.network /\ d.listening = c.listening
           /\ ~c.network => ~IsStarted(d.stream)
           /\ Emptied(d)
  <1> DEFINE e == CloseStream(c, status)
  <1>1. d = OnWatchStreamClose(e, status)
    BY DEF Close, StaysClosed
  <1>2. /\ Sane(e) /\ ~IsStarted(e.stream) /\ SameTargets(c, e)
        /\ e.stream.closes = c.stream.closes + 1
    BY CloseStreamSane
  <1> HIDE DEF e
  <1>3. status = "ok" => ~ShouldStartWatchStream(e)
    BY <1>2 DEF SameTargets, ShouldStartWatchStream
  <1>4. /\ Sound(d) /\ d.stream.closes = e.stream.closes
        /\ d.network = e.network /\ d.listening = e.listening
        /\ ~e.network => ~IsStarted(d.stream)
        /\ Emptied(d)
    BY <1>1, <1>2, <1>3, OnCloseSound
  <1> QED BY <1>2, <1>4 DEF SameTargets

-----------------------------------------------------------------------------
(* The network. *)

\* The online state is set to another one than Online.
LEMMA UpdateSound ==
    ASSUME NEW c, Sound(c), NEW state \in OnlineState, state # "Online",
           NEW d, d = UpdateState(c, state)
    PROVE  /\ Sound(d) /\ d.stream = c.stream /\ d.network = c.network
           /\ d.online # "Online" /\ ~d.timer /\ SameTargets(c, d)
  <1>1. /\ Sane(d) /\ d.online = state /\ ~d.timer /\ SameTargets(c, d)
        /\ d.aggregating = c.aggregating /\ d.stream = c.stream
    BY UpdateSane DEF Sound
  <1> QED BY <1>1 DEF Sound, Linked, SameTargets

\* The network switch alone.
LEMMA SwitchSane ==
    ASSUME NEW c, Sane(c), NEW on \in BOOLEAN, NEW d, d = [c EXCEPT !.network = on]
    PROVE  /\ Sane(d) /\ d.network = on /\ d.stream = c.stream
           /\ d.listening = c.listening /\ d.aggregating = c.aggregating
           /\ d.online = c.online /\ d.timer = c.timer
           /\ d.states = c.states /\ d.sent = c.sent
  <1>1. d \in Client
    BY SetClient, Zenon DEF Sane
  <1>2. /\ d.network = on /\ d.stream = c.stream /\ d.view = c.view
        /\ d.listening = c.listening /\ d.aggregating = c.aggregating
        /\ d.online = c.online /\ d.timer = c.timer /\ d.failures = c.failures
        /\ d.failed = c.failed /\ d.states = c.states /\ d.sent = c.sent
    BY DEF Sane, Client
  <1> QED BY <1>1, <1>2 DEF Sane, ShownSane

\* The network is turned off.
LEMMA DisableSound ==
    ASSUME NEW c, Sound(c), ~c.stream.asked, NEW d, d = DisableNetworkInternal(c)
    PROVE  /\ Sound(d) /\ ~d.network /\ ~IsStarted(d.stream) /\ Follows(c, d)
           /\ Emptied(d)
  <1> DEFINE off == [c EXCEPT !.network = FALSE]
             shut == Close(off, "ok")
  <1>1. d = CleanUp(shut)
    BY DEF DisableNetworkInternal
  <1>2. /\ Sane(off) /\ off.network = FALSE /\ off.stream = c.stream
        /\ off.listening = c.listening /\ off.aggregating = c.aggregating
        /\ off.online = c.online /\ off.timer = c.timer
    BY SwitchSane DEF Sound
  <1> HIDE DEF off
  <1>3. Sound(shut) /\ ~shut.network /\ ~IsStarted(shut.stream) /\ Follows(c, shut)
    <2>1. CASE IsStarted(c.stream)
      <3>1. /\ Sound(shut) /\ shut.stream.closes = off.stream.closes + 1
            /\ shut.network = off.network
            /\ ~off.network => ~IsStarted(shut.stream)
        BY <1>2, <2>1, CloseSound
      <3>2. c.stream.closes \in Nat
        BY DEF Sound, Sane, Client, StreamType
      <3> HIDE DEF shut
      <3> QED BY <1>2, <3>1, <3>2 DEF Follows
    <2>2. CASE ~IsStarted(c.stream)
      <3>1. shut = off
        BY <1>2, <2>2 DEF Close, StaysClosed
      <3> QED BY <1>2, <2>2, <3>1 DEF Sound, Linked, Follows, IsStarted
    <2> QED BY <2>1, <2>2
  <1> HIDE DEF shut
  <1>4. /\ Sane(d) /\ ~d.aggregating /\ d.network = shut.network
        /\ d.listening = shut.listening /\ d.stream = shut.stream
        /\ d.online = shut.online /\ d.timer = shut.timer /\ d.states = NoStates
    BY <1>1, <1>3, CleanUpSane DEF Sound
  <1> QED BY <1>3, <1>4 DEF Sound, Linked, Follows, Emptied, IsOpen, IsStarted

\* The network is turned on, or was on already.
LEMMA EnableSound ==
    ASSUME NEW c, Sound(c), NEW d, d = EnableNetworkInternal(c)
    PROVE  /\ Sound(d) /\ Follows(c, d)
           /\ Emptied(d) \/ Undisturbed(c, d)
  <1> DEFINE on == [c EXCEPT !.network = TRUE]
  <1>1. d = IF ShouldStartWatchStream(on) THEN StartWatchStream(on)
            ELSE UpdateState(on, "Unknown")
    BY DEF EnableNetworkInternal
  <1>2. /\ Sane(on) /\ on.network = TRUE /\ on.stream = c.stream
        /\ on.listening = c.listening /\ on.aggregating = c.aggregating
        /\ on.online = c.online /\ on.timer = c.timer
        /\ on.states = c.states /\ on.sent = c.sent
    BY SwitchSane DEF Sound
  <1> HIDE DEF on
  <1>3. CASE ShouldStartWatchStream(on)
    <2>1. ~IsStarted(c.stream)
      BY <1>2, <1>3 DEF ShouldStartWatchStream
    <2>2. ~on.timer /\ on.online # "Online"
      BY <1>2, <2>1 DEF Sound, Linked, IsOpen, IsStarted
    <2>3. Sound(d) /\ d.stream.closes = on.stream.closes /\ Emptied(d)
      BY <1>1, <1>2, <1>3, <2>2, StartWatchSound
    <2> QED BY <1>2, <2>1, <2>3 DEF Follows, IsStarted
  <1>4. CASE ~ShouldStartWatchStream(on)
    <2>1. d = UpdateState(on, "Unknown")
      BY <1>1, <1>4
    <2>2. Sound(on)
      BY <1>2, <1>4 DEF Sound, Linked, ShouldStartWatchStream
    <2>3. Sound(d) /\ d.stream = on.stream /\ SameTargets(on, d)
      BY <2>1, <2>2, UpdateSound, Values
    <2> QED BY <1>2, <2>3 DEF Follows, Undisturbed, SameTargets
  <1> QED BY <1>3, <1>4

\* A stream that is not started forgets its backoff.
LEMMA InhibitSound ==
    ASSUME NEW c, Sound(c), ~IsStarted(c.stream), NEW d, d = InhibitBackoff(c)
    PROVE  /\ Sound(d) /\ ~IsStarted(d.stream) /\ d.stream.closes = c.stream.closes
           /\ SameTargets(c, d)
  <1>1. HardAssert(c, ~IsStarted(c.stream)) = c
    BY AssertHolds DEF Sound, Sane
  <1>2. d = [c EXCEPT !.stream.state = "Initial"]
    BY <1>1 DEF InhibitBackoff
  <1>3. c \in Client
    BY DEF Sound, Sane
  <1>4. d \in Client
    <2>1. [c EXCEPT !.stream.state = "Initial"] \in Client
      BY <1>3, SetBoth, Values, Zenon
    <2> QED BY <1>2, <2>1
  <1>5. d.stream = [c.stream EXCEPT !.state = "Initial"]
    BY <1>2, <1>3 DEF Client
  <1>6. /\ d.stream.closes = c.stream.closes /\ d.stream.state = "Initial"
        /\ d.stream.up = c.stream.up /\ d.stream.down = c.stream.down
        /\ d.stream.idle = c.stream.idle /\ d.stream.asked = c.stream.asked
        /\ d.stream.backoff = c.stream.backoff
    BY <1>5, <1>3 DEF Client, StreamType
  <1>7. /\ SameTargets(c, d) /\ d.aggregating = c.aggregating
        /\ d.online = c.online /\ d.failures = c.failures /\ d.timer = c.timer
        /\ d.view = c.view
    BY <1>2, <1>3 DEF Client, SameTargets
  <1> QED BY <1>4, <1>6, <1>7
          DEF Sound, Sane, Linked, StreamSane, ShownSane, SameTargets, IsOpen, IsStarted

\* The network is turned off and on again.
LEMMA RestartSound ==
    ASSUME NEW c, Sound(c), ~c.stream.asked, NEW d, d = RestartNetwork(c)
    PROVE  Sound(d) /\ Follows(c, d) /\ Emptied(d)
  <1> DEFINE off == DisableNetworkInternal(c)
             unknown == UpdateState(off, "Unknown")
             ready == InhibitBackoff(unknown)
  <1>1. d = EnableNetworkInternal(ready)
    BY DEF RestartNetwork
  <1>2. Sound(off) /\ ~IsStarted(off.stream) /\ Follows(c, off) /\ Emptied(off)
    BY DisableSound
  <1> HIDE DEF off
  <1>3. Sound(unknown) /\ unknown.stream = off.stream /\ SameTargets(off, unknown)
    BY <1>2, UpdateSound, Values
  <1> HIDE DEF unknown
  <1>4. /\ Sound(ready) /\ ~IsStarted(ready.stream)
        /\ ready.stream.closes = unknown.stream.closes /\ SameTargets(unknown, ready)
    BY <1>2, <1>3, InhibitSound
  <1> HIDE DEF ready
  <1>5. Sound(d) /\ Follows(ready, d) /\ (Emptied(d) \/ Undisturbed(ready, d))
    BY <1>1, <1>4, EnableSound
  <1>6. /\ c.stream.closes \in Nat /\ off.stream.closes \in Nat /\ d.stream.closes \in Nat
    BY <1>2, <1>5 DEF Sound, Sane, Client, StreamType
  <1>7. c.stream.state \in {"Starting", "Open"} => off.stream.closes > c.stream.closes
    BY <1>2 DEF Follows, IsStarted
  <1>8. Emptied(d)
    BY <1>2, <1>3, <1>4, <1>5 DEF Emptied, Undisturbed, SameTargets, IsOpen, IsStarted
  <1> QED BY <1>2, <1>3, <1>4, <1>5, <1>6, <1>7, <1>8 DEF Follows

-----------------------------------------------------------------------------
(* The stream. *)

\* The backoff of a stream elapses, and it asks for a token.
LEMMA EndBackoffSound ==
    ASSUME NEW c, Sound(c), c.stream.backoff, NEW d, d = EndBackoff(c)
    PROVE  /\ Sound(d) /\ Follows(c, d)
           /\ ~IsOpen(c.stream) /\ ~IsOpen(d.stream) /\ d.states = c.states
  <1> DEFINE e == [c EXCEPT !.stream.backoff = FALSE, !.stream.state = "Initial"]
  <1>1. c \in Client /\ c.stream \in StreamType /\ c.stream.state = "Backoff"
    BY DEF Sound, Sane, StreamSane, Client
  <1>2. HardAssert(c, c.stream.state = "Backoff") = c
    BY <1>1, AssertHolds DEF Sound, Sane
  <1>3. d = StartStream(e)
    BY <1>2 DEF EndBackoff
  <1>4. e \in Client
    BY <1>1, SetBoth, Values, Zenon
  <1>5. e.stream = [c.stream EXCEPT !.backoff = FALSE, !.state = "Initial"]
    BY <1>1 DEF Client
  <1>7. /\ SameTargets(c, e) /\ e.aggregating = c.aggregating
        /\ e.online = c.online /\ e.failures = c.failures /\ e.timer = c.timer
        /\ e.view = c.view
    BY <1>1 DEF Client, SameTargets
  <1> HIDE DEF e
  <1>6. /\ e.stream.closes = c.stream.closes /\ e.stream.state = "Initial"
        /\ e.stream.up = c.stream.up /\ e.stream.down = c.stream.down
        /\ e.stream.idle = c.stream.idle /\ e.stream.asked = c.stream.asked
        /\ e.stream.backoff = FALSE
    BY <1>5, <1>1 DEF StreamType
  <1>8. Sane(e) /\ ~IsStarted(e.stream)
    BY <1>1, <1>4, <1>6, <1>7
       DEF Sound, Sane, StreamSane, ShownSane, SameTargets, IsOpen, IsStarted
  <1>9. /\ Sane(d) /\ IsStarted(d.stream) /\ ~IsOpen(d.stream) /\ d.stream.closes = e.stream.closes
        /\ SameTargets(e, d) /\ d.aggregating = e.aggregating
        /\ d.online = e.online /\ d.timer = e.timer
    BY <1>3, <1>8, StartSane
  <1> QED BY <1>1, <1>6, <1>7, <1>9
          DEF Sound, Linked, Follows, SameTargets, IsOpen, IsStarted

\* GetToken was called; the answer comes to the worker queue.
Called(c) == [c EXCEPT !.stream.asked = FALSE]

\* The call is noted, and the flag taken back.
LEMMA AskedSound ==
    ASSUME NEW c, Sound(c), NEW d, d = Called(c)
    PROVE  /\ Sound(d) /\ ~d.stream.asked /\ d.stream.closes = c.stream.closes
           /\ d.stream.state = c.stream.state /\ d.resets = c.resets
           /\ d.network = c.network /\ Undisturbed(c, d)
  <1>1. c \in Client /\ c.stream \in StreamType
    BY DEF Sound, Sane, Client
  <1>2. [c EXCEPT !.stream.asked = FALSE] \in Client
    BY <1>1, SetBoth, Values, Zenon
  <1>3. d.stream = [c.stream EXCEPT !.asked = FALSE]
    BY <1>1 DEF Client, Called
  <1>4. /\ d.stream.closes = c.stream.closes /\ d.stream.state = c.stream.state
        /\ d.stream.up = c.stream.up /\ d.stream.down = c.stream.down
        /\ d.stream.idle = c.stream.idle /\ d.stream.asked = FALSE
        /\ d.stream.backoff = c.stream.backoff
    BY <1>3, <1>1 DEF StreamType
  <1>5. /\ SameTargets(c, d) /\ d.aggregating = c.aggregating
        /\ d.online = c.online /\ d.failures = c.failures /\ d.timer = c.timer
        /\ d.view = c.view
    BY <1>1 DEF Client, SameTargets, Called
  <1> QED BY <1>2, <1>4, <1>5
          DEF Called, Undisturbed, Sound, Sane, Linked, StreamSane, ShownSane, SameTargets, IsOpen, IsStarted

\* Requests are sent over an open stream, whose idle timer is stopped.
LEMMA SendSane ==
    ASSUME NEW c \in Client, ~c.failed, StreamSane(c.stream), ShownSane(c),
           IsOpen(c.stream), NEW requests \in Seq(Request), NEW d, d = Send(c, requests)
    PROVE  /\ Sane(d) /\ SameTargets(c, d) /\ d.aggregating = c.aggregating
           /\ d.online = c.online /\ d.timer = c.timer
           /\ d.stream.closes = c.stream.closes /\ d.stream.state = c.stream.state
           /\ d.stream.idle = FALSE /\ d.stream.asked = c.stream.asked
           /\ d.stream.up = c.stream.up \o requests /\ d.stream.down = c.stream.down
  <1> DEFINE all == c.stream.up \o requests
  <1>1. HardAssert(c, IsOpen(c.stream)) = c
    BY AssertHolds
  <1>2. d = [c EXCEPT !.stream.idle = FALSE, !.stream.up = all]
    BY <1>1 DEF Send
  <1>3. c.stream \in StreamType /\ c.stream.up \in Seq(Request)
    BY DEF Client, StreamType
  <1>4. all \in Seq(Request)
    BY <1>3
  <1> HIDE DEF all
  <1>5. [c EXCEPT !.stream.idle = FALSE, !.stream.up = all] \in Client
    BY <1>4, SetBoth, Values, Zenon
  <1>6. d.stream = [c.stream EXCEPT !.idle = FALSE, !.up = all]
    BY <1>2 DEF Client
  <1>7. /\ d.stream.closes = c.stream.closes /\ d.stream.state = c.stream.state
        /\ d.stream.down = c.stream.down /\ d.stream.idle = FALSE
        /\ d.stream.asked = c.stream.asked /\ d.stream.backoff = c.stream.backoff
        /\ d.stream.up = all
    BY <1>3, <1>6 DEF StreamType
  <1>8. /\ SameTargets(c, d) /\ d.aggregating = c.aggregating
        /\ d.online = c.online /\ d.failures = c.failures /\ d.timer = c.timer
        /\ d.view = c.view
    BY <1>2 DEF Client, SameTargets
  <1>9. /\ Sane(d) /\ SameTargets(c, d) /\ d.aggregating = c.aggregating
        /\ d.online = c.online /\ d.timer = c.timer
    BY <1>2, <1>5, <1>7, <1>8 DEF Sane, StreamSane, ShownSane, SameTargets, IsOpen
  <1> QED BY <1>7, <1>9 DEF all

-----------------------------------------------------------------------------
(* Counting what is on its way. *)

\* How many elements of the queue q are in S.
Places(q, S) == {i \in 1..Len(q) : q[i] \in S}
Amount(q, S) == Cardinality(Places(q, S))

\* An amount is a number, and zero if nothing in the queue is meant.
LEMMA AmountType ==
    ASSUME NEW X, NEW q \in Seq(X), NEW S
    PROVE  /\ IsFiniteSet(Places(q, S)) /\ Amount(q, S) \in Nat
           /\ Amount(q, S) = 0 <=> \A i \in 1..Len(q) : q[i] \notin S
  <1>1. IsFiniteSet(1..Len(q))
    BY FS_Interval
  <1>2. IsFiniteSet(Places(q, S))
    BY <1>1, FS_Subset DEF Places
  <1>3. Amount(q, S) \in Nat
    BY <1>2, FS_CardinalityType DEF Amount
  <1>4. Amount(q, S) = 0 <=> Places(q, S) = {}
    BY <1>2, FS_EmptySet DEF Amount
  <1>5. Places(q, S) = {} <=> \A i \in 1..Len(q) : q[i] \notin S
    BY DEF Places
  <1> QED BY <1>2, <1>3, <1>4, <1>5

\* No more are in a queue without its head, and one less if the head was meant.
LEMMA AmountTail ==
    ASSUME NEW X, NEW q \in Seq(X), q # <<>>, NEW S
    PROVE  /\ Amount(Tail(q), S) <= Amount(q, S)
           /\ Head(q) \in S => Amount(Tail(q), S) <= Amount(q, S) - 1
  <1> DEFINE P == Places(q, S) \ {1}
             f == [i \in P |-> i - 1]
  <1>1. /\ Tail(q) \in Seq(X) /\ Len(Tail(q)) = Len(q) - 1 /\ Len(q) \in Nat
        /\ Head(q) = q[1] /\ Len(q) > 0
        /\ \A i \in 1..(Len(q) - 1) : Tail(q)[i] = q[i + 1]
    OBVIOUS
  <1>2. IsFiniteSet(P) /\ Cardinality(P) = IF 1 \in Places(q, S) THEN Amount(q, S) - 1 ELSE Amount(q, S)
    BY AmountType, FS_RemoveElement DEF Amount
  <1>3. f \in Surjection(P, Places(Tail(q), S))
    <2>1. ASSUME NEW i \in P PROVE i - 1 \in Places(Tail(q), S)
      <3>1. i \in 1..Len(q) /\ q[i] \in S /\ i # 1
        BY DEF Places
      <3>2. i - 1 \in 1..(Len(q) - 1)
        BY <1>1, <3>1
      <3>3. Tail(q)[i - 1] = q[i]
        BY <1>1, <3>1, <3>2
      <3> QED BY <1>1, <3>1, <3>2, <3>3 DEF Places
    <2>2. ASSUME NEW j \in Places(Tail(q), S) PROVE j + 1 \in P /\ (j + 1) - 1 = j
      <3>1. j \in 1..(Len(q) - 1) /\ Tail(q)[j] \in S
        BY <1>1 DEF Places
      <3>2. q[j + 1] \in S /\ j + 1 \in 1..Len(q) /\ j + 1 # 1 /\ (j + 1) - 1 = j
        BY <1>1, <3>1
      <3> QED BY <3>2 DEF Places
    <2>3. f \in [P -> Places(Tail(q), S)]
      BY <2>1
    <2>4. \A j \in Places(Tail(q), S) : \E i \in P : f[i] = j
      BY <2>2
    <2> HIDE DEF f, P
    <2> QED BY <2>3, <2>4 DEF Surjection
  <1>4. Amount(Tail(q), S) <= Cardinality(P)
    <2> HIDE DEF f, P
    <2> QED BY <1>2, <1>3, FS_Surjection DEF Amount
  <1>5. Head(q) \in S => 1 \in Places(q, S)
    BY <1>1 DEF Places
  <1>6. Amount(q, S) \in Nat /\ Amount(Tail(q), S) \in Nat
    BY <1>1, AmountType
  <1> HIDE DEF P
  <1> QED BY <1>2, <1>4, <1>5, <1>6

\* A queue and what is appended to it have no more together.
LEMMA AmountConcat ==
    ASSUME NEW X, NEW q \in Seq(X), NEW s \in Seq(X), NEW S
    PROVE  Amount(q \o s, S) <= Amount(q, S) + Amount(s, S)
  <1> DEFINE P == Places(s, S)
             n == Len(q)
             R == {i \in Places(q \o s, S) : i > n}
             f == [i \in R |-> i - n]
  <1>1. /\ q \o s \in Seq(X) /\ Len(q \o s) = n + Len(s) /\ n \in Nat /\ Len(s) \in Nat
        /\ \A i \in 1..n : (q \o s)[i] = q[i]
        /\ \A i \in (n + 1)..(n + Len(s)) : (q \o s)[i] = s[i - n]
    OBVIOUS
  <1>2. Places(q \o s, S) \subseteq Places(q, S) \cup R
    BY <1>1 DEF Places
  <1>3. IsFiniteSet(Places(q, S)) /\ IsFiniteSet(P) /\ IsFiniteSet(Places(q \o s, S))
    BY <1>1, AmountType
  <1>4. f \in Injection(R, P)
    <2>1. ASSUME NEW i \in R PROVE i - n \in P /\ i \in Int
      <3>1. i \in (n + 1)..(n + Len(s)) /\ (q \o s)[i] \in S
        BY <1>1 DEF Places
      <3>2. i - n \in 1..Len(s) /\ s[i - n] \in S
        BY <1>1, <3>1
      <3> QED BY <3>1, <3>2 DEF Places
    <2>2. f \in [R -> P]
      BY <2>1
    <2>3. ASSUME NEW i \in R, NEW j \in R, f[i] = f[j] PROVE i = j
      BY <1>1, <2>1, <2>3
    <2> HIDE DEF f, R, P
    <2> QED BY <2>2, <2>3 DEF Injection, IsInjective
  <1>5. Cardinality(R) <= Cardinality(P) /\ IsFiniteSet(R)
    <2> HIDE DEF f, R, P
    <2> QED BY <1>3, <1>4, FS_Injection
  <1> HIDE DEF R, P
  <1>6. /\ IsFiniteSet(Places(q, S) \cup R)
        /\ Cardinality(Places(q, S) \cup R) =
               Cardinality(Places(q, S)) + Cardinality(R) - Cardinality(Places(q, S) \cap R)
    BY <1>3, <1>5, FS_Union
  <1>7. Cardinality(Places(q \o s, S)) <= Cardinality(Places(q, S) \cup R)
    BY <1>2, <1>6, FS_Subset
  <1>8. /\ Cardinality(Places(q, S)) \in Nat /\ Cardinality(R) \in Nat /\ Cardinality(P) \in Nat
        /\ Cardinality(Places(q, S) \cap R) \in Nat
        /\ Cardinality(Places(q \o s, S)) \in Nat
    BY <1>3, <1>5, FS_CardinalityType, FS_Intersection
  <1> QED BY <1>5, <1>6, <1>7, <1>8 DEF Amount, P

\* One element at most.
LEMMA AmountOne ==
    ASSUME NEW s, Len(s) = 1, NEW S
    PROVE  Amount(s, S) <= 1
  <1>1. Places(s, S) \in SUBSET {1}
    BY DEF Places
  <1>2. IsFiniteSet({1}) /\ Cardinality({1}) = 1
    BY FS_Singleton
  <1> QED BY <1>1, <1>2, FS_Subset DEF Amount

\* One element more.
LEMMA AmountAppend ==
    ASSUME NEW X, NEW q \in Seq(X), NEW e \in X, NEW S
    PROVE  /\ Amount(Append(q, e), S) <= Amount(q, S) + 1
           /\ e \notin S => Amount(Append(q, e), S) <= Amount(q, S)
  <1> DEFINE s == <<e>>
  <1>1. /\ s \in Seq(X) /\ Append(q, e) = q \o s /\ Len(s) = 1 /\ s[1] = e
        /\ Append(q, e) \in Seq(X)
    OBVIOUS
  <1> HIDE DEF s
  <1>2. Amount(s, S) <= 1
    BY <1>1, AmountOne
  <1>3. e \notin S => Amount(s, S) = 0
    <2>1. \A i \in 1..Len(s) : s[i] = e
      BY <1>1
    <2> QED BY <1>1, <2>1, AmountType
  <1>4. Amount(Append(q, e), S) <= Amount(q, S) + Amount(s, S)
    BY <1>1, AmountConcat
  <1>5. Amount(q, S) \in Nat /\ Amount(s, S) \in Nat /\ Amount(Append(q, e), S) \in Nat
    BY <1>1, AmountType
  <1> QED BY <1>2, <1>3, <1>4, <1>5

-----------------------------------------------------------------------------
(* A target's watch. *)

\* What makes a response due, and what is one.
Asks(t) == {r \in Request : r.target = t}
Replies(t) == {m \in Message : m.kind \in {"added", "removed"} /\ m.target = t}

\* The last request of t is to watch it with the number n.
LastWatches(up, t, n) ==
    \E i \in 1..Len(up) :
        /\ up[i].target = t /\ up[i].kind = "watch" /\ up[i].number = n
        /\ \A j \in 1..Len(up) : j > i => up[j] \notin Asks(t)

\* When the backend has taken up all requests, it watches t with the number n.
Aimed(up, t, n, watched) ==
    \/ (\A i \in 1..Len(up) : up[i] \notin Asks(t)) /\ watched = n
    \/ LastWatches(up, t, n)

\* A change of t that no response follows came for the watch the backend has now.
Carried(down, t, watched) ==
    \A i \in 1..Len(down) :
        /\ down[i].kind \in OfListen /\ down[i].target = t
        /\ \A j \in 1..Len(down) : j > i => down[j] \notin Replies(t)
        => down[i].number = watched

\* The responses of t still to come are counted as due, a target that is listened
\* to will be watched with its latest number, and the changes that are taken
\* carry that number.
Fits(t, listens, due, changes, n, up, down, watched) ==
    /\ due >= Amount(up, Asks(t)) + Amount(down, Replies(t))
    /\ listens => Aimed(up, t, n, watched)
    /\ Carried(down, t, watched)
    /\ listens /\ due = 0 => changes \subseteq {n}

\* A request and its target.
LEMMA AskOf ==
    ASSUME NEW up \in Seq(Request), NEW t, NEW i \in 1..Len(up)
    PROVE  up[i] \in Asks(t) <=> up[i].target = t
  BY DEF Asks

\* Requests of other targets change nothing.
LEMMA OthersSent ==
    ASSUME NEW t \in Targets, NEW listens \in BOOLEAN, NEW due \in Int, NEW changes, NEW n, NEW watched,
           NEW up \in Seq(Request), NEW down \in Seq(Message), NEW requests \in Seq(Request),
           Fits(t, listens, due, changes, n, up, down, watched),
           \A i \in 1..Len(requests) : requests[i].target # t
    PROVE  Fits(t, listens, due, changes, n, up \o requests, down, watched)
  <1> DEFINE all == up \o requests
  <1>1. /\ all \in Seq(Request) /\ Len(all) = Len(up) + Len(requests)
        /\ Len(up) \in Nat /\ Len(requests) \in Nat
        /\ \A i \in 1..Len(up) : all[i] = up[i]
        /\ \A i \in (Len(up) + 1)..Len(all) : all[i] = requests[i - Len(up)] /\ i - Len(up) \in 1..Len(requests)
    OBVIOUS
  <1>2. \A i \in 1..Len(requests) : requests[i] \notin Asks(t)
    BY DEF Asks
  <1>3. Amount(requests, Asks(t)) = 0
    BY <1>2, AmountType
  <1>4. Amount(all, Asks(t)) <= Amount(up, Asks(t)) + Amount(requests, Asks(t))
    BY AmountConcat
  <1>5. /\ Amount(all, Asks(t)) \in Nat /\ Amount(up, Asks(t)) \in Nat
        /\ Amount(down, Replies(t)) \in Nat
    BY <1>1, AmountType
  <1> HIDE DEF all
  <1>6. \A i \in 1..Len(all) : i \in 1..Len(up) \/ all[i] \notin Asks(t)
    <2> SUFFICES ASSUME NEW i \in 1..Len(all), i \notin 1..Len(up) PROVE all[i] \notin Asks(t)
      OBVIOUS
    <2>1. i \in (Len(up) + 1)..Len(all)
      BY <1>1
    <2> QED BY <1>1, <1>2, <2>1
  <1>7. Aimed(up, t, n, watched) => Aimed(all, t, n, watched)
    <2>1. CASE (\A i \in 1..Len(up) : up[i] \notin Asks(t)) /\ watched = n
      <3>1. \A i \in 1..Len(all) : all[i] \notin Asks(t)
        BY <1>1, <1>6, <2>1
      <3> QED BY <2>1, <3>1 DEF Aimed
    <2>2. CASE LastWatches(up, t, n)
      <3>1. PICK i \in 1..Len(up) :
                /\ up[i].target = t /\ up[i].kind = "watch" /\ up[i].number = n
                /\ \A j \in 1..Len(up) : j > i => up[j] \notin Asks(t)
        BY <2>2 DEF LastWatches
      <3>2. i \in 1..Len(all) /\ all[i] = up[i]
        BY <1>1
      <3>3. \A j \in 1..Len(all) : j > i => all[j] \notin Asks(t)
        BY <1>1, <1>6, <3>1
      <3>4. LastWatches(all, t, n)
        BY <3>1, <3>2, <3>3 DEF LastWatches
      <3> QED BY <3>4 DEF Aimed
    <2> QED BY <2>1, <2>2 DEF Aimed
  <1>8. Fits(t, listens, due, changes, n, all, down, watched)
    BY <1>3, <1>4, <1>5, <1>7 DEF Fits
  <1> QED BY <1>8 DEF all

\* Requests of t are counted, the last of which watches it.
LEMMA OwnSent ==
    ASSUME NEW t \in Targets, NEW listens \in BOOLEAN, NEW due \in Int, NEW changes, NEW n, NEW watched,
           NEW up \in Seq(Request), NEW down \in Seq(Message), NEW requests \in Seq(Request),
           Fits(t, listens, due, changes, n, up, down, watched),
           NEW k \in Nat \ {0}, Amount(requests, Asks(t)) <= k,
           NEW now \in BOOLEAN, NEW kept, NEW m, now => LastWatches(requests, t, m)
    PROVE  Fits(t, now, due + k, kept, m, up \o requests, down, watched)
  <1> DEFINE all == up \o requests
  <1>1. /\ all \in Seq(Request) /\ Len(all) = Len(up) + Len(requests)
        /\ Len(up) \in Nat /\ Len(requests) \in Nat
        /\ \A i \in 1..Len(requests) : Len(up) + i \in 1..Len(all) /\ all[Len(up) + i] = requests[i]
    OBVIOUS
  <1>2. Amount(all, Asks(t)) <= Amount(up, Asks(t)) + Amount(requests, Asks(t))
    BY AmountConcat
  <1>3. /\ Amount(all, Asks(t)) \in Nat /\ Amount(up, Asks(t)) \in Nat
        /\ Amount(requests, Asks(t)) \in Nat /\ Amount(down, Replies(t)) \in Nat
    BY <1>1, AmountType
  <1> HIDE DEF all
  <1>4. now => LastWatches(all, t, m)
    <2> SUFFICES ASSUME now PROVE LastWatches(all, t, m)
      OBVIOUS
    <2>1. PICK i \in 1..Len(requests) :
              /\ requests[i].target = t /\ requests[i].kind = "watch" /\ requests[i].number = m
              /\ \A j \in 1..Len(requests) : j > i => requests[j] \notin Asks(t)
      BY DEF LastWatches
    <2>2. ASSUME NEW j \in 1..Len(all), j > Len(up) + i PROVE all[j] \notin Asks(t)
      <3>1. j - Len(up) \in 1..Len(requests) /\ j - Len(up) > i /\ j = Len(up) + (j - Len(up))
        BY <1>1, <2>2
      <3> QED BY <1>1, <2>1, <3>1
    <2> QED BY <1>1, <2>1, <2>2 DEF LastWatches
  <1>5. Fits(t, now, due + k, kept, m, all, down, watched)
    BY <1>2, <1>3, <1>4 DEF Fits, Aimed
  <1> QED BY <1>5 DEF all

\* A message is read: a response is due no more, and a change that is taken came
\* for the latest watch.
LEMMA OneRead ==
    ASSUME NEW t \in Targets, NEW listens \in BOOLEAN, NEW due \in Int, NEW changes, NEW n, NEW watched,
           NEW up \in Seq(Request), NEW down \in Seq(Message), down # <<>>,
           Fits(t, listens, due, changes, n, up, down, watched)
    PROVE  /\ Fits(t, listens, due, changes, n, up, Tail(down), watched)
           /\ Head(down) \in Replies(t) =>
                  due - 1 >= Amount(up, Asks(t)) + Amount(Tail(down), Replies(t))
           /\ Head(down).kind \in OfListen /\ Head(down).target = t /\ listens /\ due = 0 =>
                  Head(down).number = n
  <1> DEFINE rest == Tail(down)
  <1>1. /\ rest \in Seq(Message) /\ Len(rest) = Len(down) - 1 /\ Len(down) \in Nat /\ Len(down) > 0
        /\ Head(down) = down[1]
        /\ \A i \in 1..Len(rest) : i + 1 \in 1..Len(down) /\ rest[i] = down[i + 1]
    OBVIOUS
  <1>2. /\ Amount(rest, Replies(t)) <= Amount(down, Replies(t))
        /\ Head(down) \in Replies(t) => Amount(rest, Replies(t)) <= Amount(down, Replies(t)) - 1
    BY AmountTail
  <1>3. /\ Amount(up, Asks(t)) \in Nat /\ Amount(rest, Replies(t)) \in Nat
        /\ Amount(down, Replies(t)) \in Nat
    BY <1>1, AmountType
  <1> HIDE DEF rest
  <1>4. Carried(rest, t, watched)
    <2> SUFFICES ASSUME NEW i \in 1..Len(rest), rest[i].kind \in OfListen, rest[i].target = t,
                        \A j \in 1..Len(rest) : j > i => rest[j] \notin Replies(t)
                 PROVE  rest[i].number = watched
      BY DEF Carried
    <2>1. i + 1 \in 1..Len(down) /\ rest[i] = down[i + 1]
      BY <1>1
    <2>2. ASSUME NEW j \in 1..Len(down), j > i + 1 PROVE down[j] \notin Replies(t)
      <3>1. j - 1 \in 1..Len(rest) /\ j - 1 > i /\ (j - 1) + 1 = j
        BY <1>1, <2>2
      <3>2. rest[j - 1] = down[j]
        BY <1>1, <3>1
      <3> QED BY <3>1, <3>2
    <2> QED BY <2>1, <2>2 DEF Fits, Carried
  <1>5. Fits(t, listens, due, changes, n, up, rest, watched)
    BY <1>2, <1>3, <1>4 DEF Fits
  <1>6. Head(down) \in Replies(t) => due - 1 >= Amount(up, Asks(t)) + Amount(rest, Replies(t))
    BY <1>2, <1>3 DEF Fits
  <1>7. ASSUME Head(down).kind \in OfListen, Head(down).target = t, listens, due = 0
        PROVE  Head(down).number = n
    <2>1. Amount(up, Asks(t)) = 0 /\ Amount(down, Replies(t)) = 0
      BY <1>3, <1>7 DEF Fits
    <2>2. \A i \in 1..Len(up) : up[i] \notin Asks(t)
      BY <2>1, AmountType
    <2>3. \A i \in 1..Len(down) : down[i] \notin Replies(t)
      BY <2>1, AmountType
    <2>4. 1 \in 1..Len(down)
      BY <1>1
    <2>5. down[1].number = watched
      BY <1>1, <1>7, <2>3, <2>4 DEF Fits, Carried
    <2>6. ~LastWatches(up, t, n)
      BY <2>2, AskOf DEF LastWatches
    <2>7. watched = n
      BY <1>7, <2>6 DEF Fits, Aimed
    <2> QED BY <1>1, <2>5, <2>7
  <1> QED BY <1>5, <1>6, <1>7 DEF rest

\* The backend takes up a request, and watches a target it is asked to.
LEMMA OneTaken ==
    ASSUME NEW t \in Targets, NEW listens \in BOOLEAN, NEW due \in Int, NEW changes, NEW n, NEW watched,
           NEW up \in Seq(Request), NEW down \in Seq(Message), up # <<>>, NEW now,
           Fits(t, listens, due, changes, n, up, down, watched),
           Head(up).target # t => now = watched,
           Head(up).target = t /\ Head(up).kind = "watch" => now = Head(up).number
    PROVE  /\ listens => Aimed(Tail(up), t, n, now)
           /\ Amount(Tail(up), Asks(t)) <= Amount(up, Asks(t))
           /\ Head(up).target = t => Amount(Tail(up), Asks(t)) <= Amount(up, Asks(t)) - 1
  <1> DEFINE rest == Tail(up)
  <1>1. /\ rest \in Seq(Request) /\ Len(rest) = Len(up) - 1 /\ Len(up) \in Nat /\ Len(up) > 0
        /\ Head(up) = up[1]
        /\ \A i \in 1..Len(rest) : i + 1 \in 1..Len(up) /\ rest[i] = up[i + 1]
    OBVIOUS
  <1>2. Head(up) \in Asks(t) <=> Head(up).target = t
    BY <1>1, AskOf
  <1>3. /\ Amount(rest, Asks(t)) <= Amount(up, Asks(t))
        /\ Head(up) \in Asks(t) => Amount(rest, Asks(t)) <= Amount(up, Asks(t)) - 1
    BY AmountTail
  <1> HIDE DEF rest
  <1>4. ASSUME listens PROVE Aimed(rest, t, n, now)
    <2>1. CASE (\A i \in 1..Len(up) : up[i] \notin Asks(t)) /\ watched = n
      <3>1. \A i \in 1..Len(rest) : rest[i] \notin Asks(t)
        BY <1>1, <2>1
      <3>2. 1 \in 1..Len(up)
        BY <1>1
      <3>3. now = watched
        BY <1>1, <1>2, <2>1, <3>2
      <3> QED BY <2>1, <3>1, <3>3 DEF Aimed
    <2>2. CASE LastWatches(up, t, n)
      <3>1. PICK i \in 1..Len(up) :
                /\ up[i].target = t /\ up[i].kind = "watch" /\ up[i].number = n
                /\ \A j \in 1..Len(up) : j > i => up[j] \notin Asks(t)
        BY <2>2 DEF LastWatches
      <3>2. \A j \in 1..Len(rest) : j + 1 > i => rest[j] \notin Asks(t)
        BY <1>1, <3>1
      <3>3. CASE i = 1
        <4>0. \A j \in 1..Len(rest) : j + 1 > 1
          BY <1>1
        <4>1. \A j \in 1..Len(rest) : rest[j] \notin Asks(t)
          BY <3>2, <3>3, <4>0
        <4>2. now = n
          BY <1>1, <3>1, <3>3
        <4> QED BY <4>1, <4>2 DEF Aimed
      <3>4. CASE i # 1
        <4>1. i - 1 \in 1..Len(rest) /\ (i - 1) + 1 = i
          BY <1>1, <3>4
        <4>2. rest[i - 1] = up[i]
          BY <1>1, <4>1
        <4>3. \A j \in 1..Len(rest) : j > i - 1 => rest[j] \notin Asks(t)
          BY <1>1, <3>2
        <4>4. LastWatches(rest, t, n)
          BY <3>1, <4>1, <4>2, <4>3 DEF LastWatches
        <4> QED BY <4>4 DEF Aimed
      <3> QED BY <3>3, <3>4
    <2> QED BY <1>4, <2>1, <2>2 DEF Fits, Aimed
  <1> QED BY <1>2, <1>3, <1>4 DEF rest

\* A message that is no response, and whose changes are those of the watch there is.
LEMMA OneTold ==
    ASSUME NEW t \in Targets, NEW listens \in BOOLEAN, NEW due \in Int, NEW changes, NEW n, NEW watched,
           NEW up \in Seq(Request), NEW down \in Seq(Message), NEW m \in Message,
           Fits(t, listens, due, changes, n, up, down, watched),
           m \notin Replies(t), m.kind \in OfListen /\ m.target = t => m.number = watched
    PROVE  Fits(t, listens, due, changes, n, up, Append(down, m), watched)
  <1> DEFINE all == Append(down, m)
  <1>1. /\ all \in Seq(Message) /\ Len(all) = Len(down) + 1 /\ Len(down) \in Nat
        /\ all[Len(all)] = m /\ \A i \in 1..Len(down) : i \in 1..Len(all) /\ all[i] = down[i]
    OBVIOUS
  <1>2. Amount(all, Replies(t)) <= Amount(down, Replies(t))
    BY AmountAppend
  <1>3. /\ Amount(up, Asks(t)) \in Nat /\ Amount(all, Replies(t)) \in Nat
        /\ Amount(down, Replies(t)) \in Nat
    BY <1>1, AmountType
  <1> HIDE DEF all
  <1>4. Carried(all, t, watched)
    <2> SUFFICES ASSUME NEW i \in 1..Len(all), all[i].kind \in OfListen, all[i].target = t,
                        \A j \in 1..Len(all) : j > i => all[j] \notin Replies(t)
                 PROVE  all[i].number = watched
      BY DEF Carried
    <2>1. CASE i = Len(all)
      BY <1>1, <2>1
    <2>2. CASE i # Len(all)
      <3>1. i \in 1..Len(down)
        BY <1>1, <2>2
      <3>2. \A j \in 1..Len(down) : j > i => down[j] \notin Replies(t)
        BY <1>1
      <3> QED BY <1>1, <3>1, <3>2 DEF Fits, Carried
    <2> QED BY <2>1, <2>2
  <1>5. Fits(t, listens, due, changes, n, up, all, watched)
    BY <1>2, <1>3, <1>4 DEF Fits
  <1> QED BY <1>5 DEF all

\* The backend takes up a request of another target, and may tell of that one.
LEMMA OtherTaken ==
    ASSUME NEW t \in Targets, NEW listens \in BOOLEAN, NEW due \in Int, NEW changes, NEW n, NEW watched,
           NEW up \in Seq(Request), NEW down \in Seq(Message), up # <<>>,
           Fits(t, listens, due, changes, n, up, down, watched), Head(up).target # t
    PROVE  /\ Fits(t, listens, due, changes, n, Tail(up), down, watched)
           /\ \A m \in Message : m.target # t /\ m.kind \notin OfListen =>
                  Fits(t, listens, due, changes, n, Tail(up), Append(down, m), watched)
  <1> DEFINE rest == Tail(up)
  <1>1. rest \in Seq(Request)
    OBVIOUS
  <1>2. /\ listens => Aimed(rest, t, n, watched)
        /\ Amount(rest, Asks(t)) <= Amount(up, Asks(t))
    BY OneTaken
  <1> HIDE DEF rest
  <1>3. /\ Amount(up, Asks(t)) \in Nat /\ Amount(rest, Asks(t)) \in Nat
        /\ Amount(down, Replies(t)) \in Nat
    BY <1>1, AmountType
  <1>4. Fits(t, listens, due, changes, n, rest, down, watched)
    BY <1>2, <1>3 DEF Fits
  <1>5. ASSUME NEW m \in Message, m.target # t, m.kind \notin OfListen
        PROVE  Fits(t, listens, due, changes, n, rest, Append(down, m), watched)
    <2>1. m \notin Replies(t)
      BY <1>5 DEF Replies
    <2> QED BY <1>1, <1>4, <1>5, <2>1, OneTold
  <1> QED BY <1>4, <1>5 DEF rest

\* The backend takes up a request of t, and responds.
LEMMA OwnTaken ==
    ASSUME NEW t \in Targets, NEW listens \in BOOLEAN, NEW due \in Int, NEW changes, NEW n, NEW watched,
           NEW up \in Seq(Request), NEW down \in Seq(Message), up # <<>>, NEW now,
           Fits(t, listens, due, changes, n, up, down, watched), Head(up).target = t,
           Head(up).kind = "watch" => now = Head(up).number,
           NEW m \in Replies(t)
    PROVE  Fits(t, listens, due, changes, n, Tail(up), Append(down, m), now)
  <1> DEFINE rest == Tail(up)
             all == Append(down, m)
  <1>0. m \in Message
    BY DEF Replies
  <1>1. /\ all \in Seq(Message) /\ Len(all) = Len(down) + 1 /\ Len(down) \in Nat
        /\ all[Len(all)] = m /\ rest \in Seq(Request)
    BY <1>0
  <1>2. /\ listens => Aimed(rest, t, n, now)
        /\ Amount(rest, Asks(t)) <= Amount(up, Asks(t)) - 1
    BY OneTaken
  <1>3. Amount(all, Replies(t)) <= Amount(down, Replies(t)) + 1
    BY <1>0, AmountAppend
  <1> HIDE DEF rest, all
  <1>4. /\ Amount(up, Asks(t)) \in Nat /\ Amount(rest, Asks(t)) \in Nat
        /\ Amount(down, Replies(t)) \in Nat /\ Amount(all, Replies(t)) \in Nat
    BY <1>1, AmountType
  <1>5. Carried(all, t, now)
    <2> SUFFICES ASSUME NEW i \in 1..Len(all), all[i].kind \in OfListen,
                        \A j \in 1..Len(all) : j > i => all[j] \notin Replies(t)
                 PROVE  FALSE
      BY DEF Carried
    <2>1. Len(all) \in 1..Len(all) /\ i = Len(all)
      BY <1>1
    <2>2. m.kind \notin OfListen
      BY DEF Replies, OfListen
    <2> QED BY <1>1, <2>1, <2>2
  <1>6. Fits(t, listens, due, changes, n, rest, all, now)
    BY <1>2, <1>3, <1>4, <1>5 DEF Fits
  <1> QED BY <1>6 DEF rest, all

\* The backend passes over a request of t.
LEMMA OwnPassed ==
    ASSUME NEW t \in Targets, NEW listens \in BOOLEAN, NEW due \in Int, NEW changes, NEW n, NEW watched,
           NEW up \in Seq(Request), NEW down \in Seq(Message), up # <<>>,
           Fits(t, listens, due, changes, n, up, down, watched), Head(up).target = t,
           Head(up).kind # "watch"
    PROVE  Fits(t, listens, due, changes, n, Tail(up), down, watched)
  <1> DEFINE rest == Tail(up)
  <1>1. rest \in Seq(Request)
    OBVIOUS
  <1>2. /\ listens => Aimed(rest, t, n, watched)
        /\ Amount(rest, Asks(t)) <= Amount(up, Asks(t)) - 1
    BY OneTaken
  <1> HIDE DEF rest
  <1>3. /\ Amount(up, Asks(t)) \in Nat /\ Amount(rest, Asks(t)) \in Nat
        /\ Amount(down, Replies(t)) \in Nat
    BY <1>1, AmountType
  <1>4. Fits(t, listens, due, changes, n, rest, down, watched)
    BY <1>2, <1>3 DEF Fits
  <1> QED BY <1>4 DEF rest

-----------------------------------------------------------------------------
(* What is fresh. *)

Tracked(c, b, t) ==
    Fits(t, t \in c.listening, c.states[t].due, c.states[t].changes, c.sent[t],
         c.stream.up, c.stream.down, b.watching[t].number)

\* A mark of current is that of the latest watch, or stood when t was watched again.
Marked(c, t) == c.states[t].current \in {0, c.sent[t]} \/ c.states[t].kept

MarksStay(c, d) == \A t \in Targets : Marked(c, t) => Marked(d, t)

\* What is told of t is told of a target the backend accepts, or that it does not.
ToldRight(down) ==
    \A i \in 1..Len(down) : down[i].kind \in OfTarget =>
        (down[i].kind = "rejected" <=> down[i].target \in Refused)

Untold(c, b, t) ==
    c.states[t].due >= 0 /\ c.states[t].changes = {} /\ b.watching[t] = NotWatched

\* Responses are counted right while the stream is open; before, there are none.
Fresh(c, b) ==
    /\ ~IsOpen(c.stream) => c.states = NoStates
    /\ ToldRight(c.stream.down)
    /\ \A t \in Refused : Untold(c, b, t)
    /\ IsOpen(c.stream) => \A t \in Targets \ Refused : Tracked(c, b, t)
    /\ \A t \in Targets : Marked(c, t)

\* Without an open stream nothing is counted.
LEMMA FreshEmptied ==
    ASSUME NEW c, Sound(c), Emptied(c), NEW b, \A t \in Refused : b.watching[t] = NotWatched
    PROVE  Fresh(c, b)
  <1>1. c.stream.down = <<>>
    BY DEF Emptied, Sound, Sane, StreamSane
  <1>2. ToldRight(c.stream.down)
    BY <1>1 DEF ToldRight
  <1>3. \A t \in Targets : c.states[t].due = 0 /\ c.states[t].changes = {}
    BY DEF Emptied, NoStates, NoState
  <1>4. Refused \subseteq Targets
    BY ParametersAssumption
  <1>5. ASSUME NEW t \in Targets PROVE Marked(c, t)
    BY DEF Emptied, NoStates, NoState, Marked
  <1> QED BY <1>2, <1>3, <1>4, <1>5 DEF Fresh, Emptied, Untold

\* What does not concern the targets changes nothing.
LEMMA FreshUndisturbed ==
    ASSUME NEW c, NEW b, Fresh(c, b), NEW d, Undisturbed(c, d)
    PROVE  Fresh(d, b)
  BY DEF Fresh, Tracked, Untold, Marked, Undisturbed, IsOpen

\* Requests of other targets than t, and of t.
OthersAsked(c, d, t, requests) ==
    /\ \A i \in 1..Len(requests) : requests[i].target # t
    /\ d.states[t].due = c.states[t].due /\ d.sent[t] = c.sent[t]
    /\ t \in d.listening <=> t \in c.listening
    /\ d.states[t].changes \subseteq c.states[t].changes

OwnAsked(c, d, t, requests, k) ==
    /\ Amount(requests, Asks(t)) <= k
    /\ d.states[t].due = c.states[t].due + k
    /\ t \in d.listening => LastWatches(requests, t, d.sent[t])
    /\ d.states[t].changes \subseteq c.states[t].changes

\* Requests are sent and counted.
LEMMA FreshSent ==
    ASSUME NEW c \in Client, NEW b, Fresh(c, b), IsOpen(c.stream), NEW d \in Client,
           NEW requests \in Seq(Request), d.stream.state = c.stream.state,
           d.stream.up = c.stream.up \o requests, d.stream.down = c.stream.down,
           \A t \in Targets : \/ OthersAsked(c, d, t, requests)
                              \/ \E k \in Nat \ {0} : OwnAsked(c, d, t, requests, k),
           MarksStay(c, d)
    PROVE  Fresh(d, b)
  <1>1. c.stream.up \in Seq(Request) /\ c.stream.down \in Seq(Message) /\ IsOpen(d.stream)
    BY DEF Client, StreamType, IsOpen
  <1>2. ASSUME NEW t \in Targets PROVE c.states[t].due \in Int
    BY DEF Client, TargetState
  <1>3. Refused \subseteq Targets
    BY ParametersAssumption
  <1>4. ASSUME NEW t \in Refused PROVE Untold(d, b, t)
    <2>1. c.states[t].due >= 0 /\ c.states[t].changes = {} /\ b.watching[t] = NotWatched
      BY DEF Fresh, Untold
    <2>2. t \in Targets /\ c.states[t].due \in Int
      BY <1>2, <1>3
    <2>3. d.states[t].due >= 0 /\ d.states[t].changes \subseteq {}
      <3>1. CASE OthersAsked(c, d, t, requests)
        BY <2>1, <3>1 DEF OthersAsked
      <3>2. CASE \E k \in Nat \ {0} : OwnAsked(c, d, t, requests, k)
        BY <2>1, <2>2, <3>2 DEF OwnAsked
      <3> QED BY <2>2, <3>1, <3>2
    <2> QED BY <2>1, <2>3 DEF Untold
  <1>5. ASSUME NEW t \in Targets \ Refused PROVE Tracked(d, b, t)
    <2>1. /\ Fits(t, t \in c.listening, c.states[t].due, c.states[t].changes, c.sent[t],
                  c.stream.up, c.stream.down, b.watching[t].number)
          /\ t \in Targets /\ c.states[t].due \in Int
      BY <1>2 DEF Fresh, Tracked
    <2>2. CASE OthersAsked(c, d, t, requests)
      <3>1. Fits(t, t \in c.listening, c.states[t].due, c.states[t].changes, c.sent[t],
                 c.stream.up \o requests, c.stream.down, b.watching[t].number)
        <4> DEFINE on == t \in c.listening
        <4>1. on \in BOOLEAN
          OBVIOUS
        <4> HIDE DEF on
        <4>2. Fits(t, on, c.states[t].due, c.states[t].changes, c.sent[t],
                   c.stream.up, c.stream.down, b.watching[t].number)
          BY <2>1 DEF on
        <4>3. Fits(t, on, c.states[t].due, c.states[t].changes, c.sent[t],
                   c.stream.up \o requests, c.stream.down, b.watching[t].number)
          BY <1>1, <2>1, <2>2, <4>1, <4>2, OthersSent DEF OthersAsked
        <4> QED BY <4>3 DEF on
      <3>2. Fits(t, t \in c.listening, c.states[t].due, d.states[t].changes, c.sent[t],
                 c.stream.up \o requests, c.stream.down, b.watching[t].number)
        BY <2>2, <3>1 DEF Fits, OthersAsked
      <3>3. (t \in d.listening) = (t \in c.listening)
        BY <2>2 DEF OthersAsked
      <3> QED BY <2>2, <3>2, <3>3 DEF Tracked, OthersAsked
    <2>3. CASE \E k \in Nat \ {0} : OwnAsked(c, d, t, requests, k)
      <3>1. PICK k \in Nat \ {0} : OwnAsked(c, d, t, requests, k)
        BY <2>3
      <3>2. Fits(t, t \in d.listening, c.states[t].due + k, d.states[t].changes, d.sent[t],
                 c.stream.up \o requests, c.stream.down, b.watching[t].number)
        <4> DEFINE on == t \in c.listening
                   now == t \in d.listening
        <4>1. on \in BOOLEAN /\ now \in BOOLEAN
          OBVIOUS
        <4>2. now => LastWatches(requests, t, d.sent[t])
          BY <3>1 DEF OwnAsked
        <4> HIDE DEF on, now
        <4>3. Fits(t, on, c.states[t].due, c.states[t].changes, c.sent[t],
                   c.stream.up, c.stream.down, b.watching[t].number)
          BY <2>1 DEF on
        <4>4. Fits(t, now, c.states[t].due + k, d.states[t].changes, d.sent[t],
                   c.stream.up \o requests, c.stream.down, b.watching[t].number)
          BY <1>1, <2>1, <3>1, <4>1, <4>2, <4>3, OwnSent DEF OwnAsked
        <4> QED BY <4>4 DEF now
      <3> QED BY <3>1, <3>2 DEF Tracked, OwnAsked
    <2> QED BY <2>1, <2>2, <2>3
  <1>6. \A t \in Targets : Marked(d, t)
    BY DEF Fresh, MarksStay
  <1> QED BY <1>1, <1>4, <1>5, <1>6 DEF Fresh

\* One request for t is sent.
Requested(c, d, t, requests, n) ==
    /\ d.stream.up = c.stream.up \o requests /\ d.stream.down = c.stream.down
    /\ d.stream.state = c.stream.state /\ d.stream.closes = c.stream.closes
    /\ \A u \in Targets :
           /\ d.states[u].due = IF u = t THEN c.states[u].due + 1 ELSE c.states[u].due
           /\ d.states[u].changes = c.states[u].changes
           /\ d.sent[u] = IF u = t THEN n ELSE c.sent[u]
    /\ MarksStay(c, d)

\* A request for a target, which is listened to if and only if it is to be watched.
LEMMA FreshRequested ==
    ASSUME NEW c \in Client, NEW b, Fresh(c, b), IsOpen(c.stream), NEW d \in Client,
           NEW t \in Targets, NEW r \in Request, r.target = t,
           Requested(c, d, t, <<r>>, d.sent[t]),
           t \in d.listening => r.kind = "watch" /\ r.number = d.sent[t],
           \A u \in Targets \ {t} : u \in d.listening <=> u \in c.listening
    PROVE  Fresh(d, b)
  <1> DEFINE requests == <<r>>
  <1>1. requests \in Seq(Request) /\ Len(requests) = 1 /\ requests[1] = r
    OBVIOUS
  <1>2. Requested(c, d, t, requests, d.sent[t])
    OBVIOUS
  <1> HIDE DEF requests
  <1>3. ASSUME NEW u \in Targets, u # t PROVE OthersAsked(c, d, u, requests)
    BY <1>1, <1>2, <1>3 DEF Requested, OthersAsked
  <1>4. OwnAsked(c, d, t, requests, 1)
    <2>1. Amount(requests, Asks(t)) <= 1
      BY <1>1, AmountOne
    <2>2. t \in d.listening => LastWatches(requests, t, d.sent[t])
      <3>1. \A j \in 1..Len(requests) : ~(j > 1)
        BY <1>1
      <3>2. 1 \in 1..Len(requests)
        BY <1>1
      <3> QED BY <1>1, <3>1, <3>2 DEF LastWatches
    <2> QED BY <1>2, <2>1, <2>2 DEF Requested, OwnAsked
  <1>5. 1 \in Nat \ {0}
    OBVIOUS
  <1>6. /\ d.stream.up = c.stream.up \o requests /\ d.stream.down = c.stream.down
        /\ d.stream.state = c.stream.state /\ MarksStay(c, d)
    BY <1>2 DEF Requested
  <1> QED BY <1>1, <1>3, <1>4, <1>5, <1>6, FreshSent

-----------------------------------------------------------------------------
(* The targets. *)

\* The fields of a target's state.
LEMMA SetTarget ==
    /\ \A s \in TargetState : \A x \in BOOLEAN : [s EXCEPT !.known = x] \in TargetState
    /\ \A s \in TargetState : \A x \in Int : [s EXCEPT !.due = x] \in TargetState
    /\ \A s \in TargetState : \A x \in SUBSET Nat : [s EXCEPT !.changes = x] \in TargetState
    /\ \A s \in TargetState : \A x \in Nat : [s EXCEPT !.current = x] \in TargetState
    /\ \A s \in TargetState : \A x \in BOOLEAN : [s EXCEPT !.kept = x] \in TargetState
  <1>1. \A s \in TargetState : \A x \in BOOLEAN : [s EXCEPT !.known = x] \in TargetState
    BY DEF TargetState
  <1>2. \A s \in TargetState : \A x \in Int : [s EXCEPT !.due = x] \in TargetState
    BY DEF TargetState
  <1>3. \A s \in TargetState : \A x \in SUBSET Nat : [s EXCEPT !.changes = x] \in TargetState
    BY DEF TargetState
  <1>4. \A s \in TargetState : \A x \in Nat : [s EXCEPT !.current = x] \in TargetState
    BY DEF TargetState
  <1>5. \A s \in TargetState : \A x \in BOOLEAN : [s EXCEPT !.kept = x] \in TargetState
    BY DEF TargetState
  <1> QED BY <1>1, <1>2, <1>3, <1>4, <1>5

\* A target's state as the aggregator finds or makes it.
LEMMA EnsuredType ==
    ASSUME NEW c \in Client, NEW t \in Targets
    PROVE  /\ Ensured(c, t) \in TargetState /\ Ensured(c, t).due = c.states[t].due
           /\ Ensured(c, t).changes = c.states[t].changes
           /\ c.states[t] \in TargetState /\ c.states[t].due \in Int
           /\ c.states[t].changes \in SUBSET Nat /\ c.states[t].current \in Nat
           /\ Ensured(c, t).current = c.states[t].current
           /\ c.states[t].kept \in BOOLEAN /\ Ensured(c, t).kept = c.states[t].kept
  <1>1. c.states[t] \in TargetState
    BY DEF Client
  <1>2. Ensured(c, t) \in TargetState
    BY <1>1, SetTarget, Values, Zenon DEF Ensured
  <1> QED BY <1>1, <1>2 DEF Ensured, TargetState

\* A target's state, or its number, is set.
LEMMA SetOne ==
    ASSUME NEW c \in Client, NEW t \in Targets
    PROVE  /\ \A x \in TargetState : [c EXCEPT !.states[t] = x] \in Client
           /\ \A x \in Nat : [c EXCEPT !.sent[t] = x] \in Client
           /\ \A x \in Shown : [c EXCEPT !.view[t] = x] \in Client
  <1>0. /\ c.states \in [Targets -> TargetState] /\ c.sent \in [Targets -> Nat]
        /\ c.view \in [Targets -> Shown]
    BY DEF Client
  <1>1. ASSUME NEW x \in TargetState PROVE [c EXCEPT !.states[t] = x] \in Client
    <2>1. [c.states EXCEPT ![t] = x] \in [Targets -> TargetState]
      BY <1>0
    <2>2. [c EXCEPT !.states = [c.states EXCEPT ![t] = x]] \in Client
      BY <2>1, SetClient, Zenon
    <2> QED BY <2>2
  <1>2. ASSUME NEW x \in Nat PROVE [c EXCEPT !.sent[t] = x] \in Client
    <2>1. [c.sent EXCEPT ![t] = x] \in [Targets -> Nat]
      BY <1>0
    <2>2. [c EXCEPT !.sent = [c.sent EXCEPT ![t] = x]] \in Client
      BY <2>1, SetClient, Zenon
    <2> QED BY <2>2
  <1>3. ASSUME NEW x \in Shown PROVE [c EXCEPT !.view[t] = x] \in Client
    <2>1. [c.view EXCEPT ![t] = x] \in [Targets -> Shown]
      BY <1>0
    <2>2. [c EXCEPT !.view = [c.view EXCEPT ![t] = x]] \in Client
      BY <2>1, SetClient, Zenon
    <2> QED BY <2>2
  <1> QED BY <1>1, <1>2, <1>3

\* What an operation on the aggregator alone leaves alone.
Unshown(c, d) ==
    /\ d \in Client /\ d.network = c.network /\ d.stream = c.stream
    /\ d.listening = c.listening /\ d.aggregating = c.aggregating
    /\ d.view = c.view /\ d.online = c.online /\ d.failures = c.failures
    /\ d.timer = c.timer /\ d.failed = c.failed

\* What a request leaves alone.
Sent(c, d) ==
    /\ Sane(d) /\ d.network = c.network /\ d.listening = c.listening
    /\ d.aggregating = c.aggregating /\ d.online = c.online /\ d.timer = c.timer
    /\ d.stream.closes = c.stream.closes /\ d.stream.state = c.stream.state
    /\ d.stream.idle = FALSE

\* Requests sent after an operation on the aggregator.
LEMMA UnshownSent ==
    ASSUME NEW c, c \in Client, ~c.failed, StreamSane(c.stream), ShownSane(c),
           IsOpen(c.stream), NEW e, Unshown(c, e),
           NEW requests \in Seq(Request), NEW d, d = Send(e, requests)
    PROVE  /\ Sent(c, d) /\ d.states = e.states /\ d.sent = e.sent
           /\ d.stream.up = c.stream.up \o requests /\ d.stream.down = c.stream.down
  <1>1. StreamSane(e.stream) /\ ShownSane(e) /\ e \in Client /\ ~e.failed /\ IsOpen(e.stream)
    BY DEF Unshown, ShownSane
  <1>2. /\ Sane(d) /\ SameTargets(e, d) /\ d.aggregating = e.aggregating
        /\ d.online = e.online /\ d.timer = e.timer
        /\ d.stream.closes = e.stream.closes /\ d.stream.state = e.stream.state
        /\ d.stream.idle = FALSE
        /\ d.stream.up = e.stream.up \o requests /\ d.stream.down = e.stream.down
    BY <1>1, SendSane, ZenonT(60)
  <1>3. Sent(c, d) /\ d.states = e.states /\ d.sent = e.sent
    BY <1>2 DEF Sent, Unshown, SameTargets
  <1> QED BY <1>2, <1>3 DEF Unshown

\* The aggregator's state of a target that is watched again.
LEMMA RewatchedType ==
    ASSUME NEW c \in Client, NEW t \in Targets
    PROVE  /\ Rewatched(c, t) \in TargetState
           /\ Rewatched(c, t).due = c.states[t].due + 1
           /\ Rewatched(c, t).changes = c.states[t].changes
           /\ Rewatched(c, t).current = 0 \/ Rewatched(c, t).kept
  <1> DEFINE due == c.states[t].due + 1
             kept == c.states[t].current # 0
             x == [Ensured(c, t) EXCEPT !.due = due]
             y == [x EXCEPT !.kept = kept]
  <1>1. due \in Int /\ kept \in BOOLEAN
    BY EnsuredType
  <1>2. Rewatched(c, t) = y
    BY EnsuredType DEF Rewatched
  <1>3. kept \/ c.states[t].current = 0
    OBVIOUS
  <1> HIDE DEF due, kept
  <1>4. x \in TargetState
    BY <1>1, EnsuredType, SetTarget, Zenon
  <1>5. x.due = due /\ x.changes = c.states[t].changes /\ x.current = c.states[t].current
    BY <1>4, EnsuredType DEF TargetState
  <1> HIDE DEF x
  <1>6. y \in TargetState
    BY <1>1, <1>4, SetTarget, Zenon
  <1>7. y.due = x.due /\ y.changes = x.changes /\ y.current = x.current /\ y.kept = kept
    BY <1>4 DEF TargetState
  <1> HIDE DEF y
  <1>8. y.current = 0 \/ y.kept
    BY <1>3, <1>5, <1>7, Zenon
  <1> QED BY <1>2, <1>5, <1>6, <1>7, <1>8 DEF due

\* A watch request.
LEMMA SendWatchSent ==
    ASSUME NEW c, c \in Client, ~c.failed, StreamSane(c.stream), ShownSane(c),
           IsOpen(c.stream), c.aggregating, NEW t \in Targets,
           NEW d, d = SendWatchRequest(c, t)
    PROVE  Sent(c, d) /\ Requested(c, d, t, <<Watch(c, t)>>, c.sent[t] + 1)
  <1> DEFINE x == Rewatched(c, t)
             n == c.sent[t] + 1
             b == [c EXCEPT !.states[t] = x]
             e == [b EXCEPT !.sent[t] = n]
  <1>1. HardAssert(c, c.aggregating) = c
    BY AssertHolds
  <1>2. n \in Nat
    BY DEF Client
  <1>3. /\ x \in TargetState /\ x.due = c.states[t].due + 1
        /\ x.changes = c.states[t].changes
        /\ x.current = 0 \/ x.kept
    BY RewatchedType
  <1> HIDE DEF x, n
  <1>4. [c EXCEPT !.states[t] = x, !.sent[t] = @ + 1] = e
    BY DEF Client, n
  <1>5. d = Send(e, <<Watch(c, t)>>)
    BY <1>1, <1>4 DEF SendWatchRequest, x
  <1>6. b \in Client
    BY <1>3, SetOne, Zenon
  <1>7. e \in Client
    BY <1>2, <1>6, SetOne, Zenon
  <1>8. Unshown(c, e)
    BY <1>7 DEF Client, Unshown
  <1>9. <<Watch(c, t)>> \in Seq(Request)
    BY DEF Watch, Request, Client
  <1>10. e.states = [c.states EXCEPT ![t] = x] /\ e.sent = [c.sent EXCEPT ![t] = n]
    BY DEF Client
  <1> HIDE DEF e
  <1> DEFINE requests == <<Watch(c, t)>>
  <1>12. /\ Sent(c, d) /\ d.states = e.states /\ d.sent = e.sent
         /\ d.stream.up = c.stream.up \o requests /\ d.stream.down = c.stream.down
    <2>1. d = Send(e, requests) /\ requests \in Seq(Request)
      BY <1>5, <1>9
    <2> HIDE DEF requests
    <2> QED BY <1>8, <2>1, UnshownSent
  <1>13. \A u \in Targets :
             /\ d.states[u].due = IF u = t THEN c.states[u].due + 1 ELSE c.states[u].due
             /\ d.states[u].changes = c.states[u].changes
             /\ d.sent[u] = IF u = t THEN n ELSE c.sent[u]
    BY <1>3, <1>10, <1>12 DEF Client
  <1>14. ASSUME NEW u \in Targets, Marked(c, u) PROVE Marked(d, u)
    <2>1. CASE u = t
      <3>1. d.states[u] = x
        BY <1>10, <1>12, <2>1 DEF Client
      <3> QED BY <1>3, <3>1 DEF Marked
    <2>2. CASE u # t
      <3>1. d.states[u] = c.states[u] /\ d.sent[u] = c.sent[u]
        BY <1>10, <1>12, <2>2 DEF Client
      <3> QED BY <1>14, <3>1 DEF Marked
    <2> QED BY <2>1, <2>2
  <1>15. MarksStay(c, d)
    BY <1>14 DEF MarksStay
  <1> QED BY <1>12, <1>13, <1>15 DEF Requested, Sent, n

\* An unwatch request.
LEMMA SendUnwatchSent ==
    ASSUME NEW c, c \in Client, ~c.failed, StreamSane(c.stream), ShownSane(c),
           IsOpen(c.stream), c.aggregating, NEW t \in Targets,
           NEW d, d = SendUnwatchRequest(c, t)
    PROVE  Sent(c, d) /\ Requested(c, d, t, <<Unwatch(c, t)>>, c.sent[t])
  <1> DEFINE due == c.states[t].due + 1
             x == [Ensured(c, t) EXCEPT !.due = due]
             e == [c EXCEPT !.states[t] = x]
  <1>1. HardAssert(c, c.aggregating) = c
    BY AssertHolds
  <1>2. x \in TargetState
    <2>1. due \in Int
      BY EnsuredType
    <2> HIDE DEF due
    <2> QED BY <2>1, EnsuredType, SetTarget, Zenon
  <1>3. [Ensured(c, t) EXCEPT !.due = @ + 1] = x
    BY EnsuredType
  <1> HIDE DEF x
  <1>5. d = Send(e, <<Unwatch(c, t)>>)
    BY <1>1, <1>3 DEF SendUnwatchRequest
  <1>6. e \in Client
    BY <1>2, SetOne, Zenon
  <1>8. Unshown(c, e)
    BY <1>6 DEF Client, Unshown
  <1>9. <<Unwatch(c, t)>> \in Seq(Request)
    BY DEF Unwatch, Request, Client
  <1>10. e.states = [c.states EXCEPT ![t] = x] /\ e.sent = c.sent
    BY DEF Client
  <1>11. /\ x.due = c.states[t].due + 1 /\ x.changes = c.states[t].changes
         /\ x.current = c.states[t].current /\ x.kept = c.states[t].kept
    BY EnsuredType DEF x, TargetState
  <1> HIDE DEF e
  <1> DEFINE requests == <<Unwatch(c, t)>>
  <1>12. /\ Sent(c, d) /\ d.states = e.states /\ d.sent = e.sent
         /\ d.stream.up = c.stream.up \o requests /\ d.stream.down = c.stream.down
    <2>1. d = Send(e, requests) /\ requests \in Seq(Request)
      BY <1>5, <1>9
    <2> HIDE DEF requests
    <2> QED BY <1>8, <2>1, UnshownSent
  <1>13. \A u \in Targets :
             /\ d.states[u].due = IF u = t THEN c.states[u].due + 1 ELSE c.states[u].due
             /\ d.states[u].changes = c.states[u].changes
             /\ d.sent[u] = IF u = t THEN c.sent[t] ELSE c.sent[u]
    BY <1>10, <1>11, <1>12 DEF Client
  <1>14. MarksStay(c, d)
    <2>1. \A u \in Targets : /\ d.states[u].current = c.states[u].current
                             /\ d.states[u].kept = c.states[u].kept /\ d.sent[u] = c.sent[u]
      BY <1>10, <1>11, <1>12 DEF Client
    <2> QED BY <2>1 DEF MarksStay, Marked
  <1> QED BY <1>12, <1>13, <1>14 DEF Requested, Sent

\* The app listens to a target.
LEMMA ListenSound ==
    ASSUME NEW c, Sound(c), NEW t \in Targets, c.view[t] = "absent",
           NEW d, d = Listen(c, t)
    PROVE  /\ Sound(d) /\ Follows(c, d)
           /\ ~IsOpen(c.stream) => Emptied(d) \/ (~IsOpen(d.stream) /\ d.states = c.states)
           /\ IsOpen(c.stream) => /\ Requested(c, d, t, <<Watch(c, t)>>, c.sent[t] + 1)
                                  /\ d.listening = c.listening \cup {t}
  <1> DEFINE how == IF c.online = "Offline" THEN "cached" ELSE "waiting"
             shown == [c EXCEPT !.view[t] = how]
             more == c.listening \cup {t}
             listened == [shown EXCEPT !.listening = more]
  <1>0. c \in Client /\ t \notin c.listening
    BY DEF Sound, Sane, ShownSane
  <1>1. HardAssert(c, c.view[t] = "absent") = c
    BY <1>0, AssertHolds DEF Sound, Sane
  <1>2. [shown EXCEPT !.listening = @ \cup {t}] = listened
    BY <1>0 DEF Client
  <1>3. how \in Shown /\ how # "absent" /\ more \in SUBSET Targets
    BY <1>0 DEF Shown, Client
  <1>4. d = IF ShouldStartWatchStream(listened) THEN StartWatchStream(listened)
            ELSE IF IsOpen(c.stream) THEN SendWatchRequest(listened, t) ELSE listened
    <2>1. [[HardAssert(c, c.view[t] = "absent") EXCEPT
                !.view[t] = IF c.online = "Offline" THEN "cached" ELSE "waiting"]
             EXCEPT !.listening = @ \cup {t}] = listened
      BY <1>1, <1>2
    <2> HIDE DEF listened
    <2> QED BY <1>0, <2>1 DEF Listen
  <1>5. listened \in Client
    <2> HIDE DEF how, more
    <2>1. shown \in Client
      BY <1>0, <1>3, SetOne, Zenon
    <2> HIDE DEF shown
    <2> QED BY <1>3, <2>1, SetClient, Zenon
  <1>6. \A u \in Targets : listened.view[u] = IF u = t THEN how ELSE c.view[u]
    BY <1>0 DEF Client
  <1>7. /\ listened.network = c.network /\ listened.stream = c.stream
        /\ listened.listening = more /\ listened.aggregating = c.aggregating
        /\ listened.online = c.online /\ listened.failures = c.failures
        /\ listened.timer = c.timer /\ listened.failed = c.failed
        /\ listened.states = c.states /\ listened.sent = c.sent
    BY <1>0 DEF Client
  <1> HIDE DEF listened
  <1>8. ShownSane(listened)
    <2>1. \A u \in Targets : u \in more <=> (u = t \/ u \in c.listening)
      OBVIOUS
    <2> HIDE DEF more
    <2> QED BY <1>3, <1>6, <1>7, <2>1 DEF Sound, Sane, ShownSane
  <1>9. listened.listening # {}
    BY <1>7
  <1> HIDE DEF more
  <1>10. CASE ShouldStartWatchStream(listened)
    <2>1. ~IsStarted(c.stream) /\ ~listened.timer /\ listened.online # "Online"
      BY <1>7, <1>10 DEF Sound, Linked, ShouldStartWatchStream, IsOpen, IsStarted
    <2>2. Sane(listened)
      BY <1>5, <1>7, <1>8, <2>1 DEF Sound, Sane, StreamSane, IsOpen, IsStarted
    <2>3. Sound(d) /\ d.stream.closes = listened.stream.closes /\ Emptied(d)
      BY <1>4, <1>10, <2>1, <2>2, StartWatchSound
    <2> QED BY <1>7, <2>1, <2>3 DEF Follows, IsOpen, IsStarted
  <1>11. CASE ~ShouldStartWatchStream(listened) /\ IsOpen(c.stream)
    <2>1. d = SendWatchRequest(listened, t)
      BY <1>4, <1>11
    <2>2. /\ Sent(listened, d)
          /\ Requested(listened, d, t, <<Watch(listened, t)>>, listened.sent[t] + 1)
      BY <1>5, <1>7, <1>8, <1>11, <2>1, SendWatchSent
         DEF Sound, Sane, Linked, IsOpen, IsStarted
    <2>3. Requested(c, d, t, <<Watch(c, t)>>, c.sent[t] + 1)
      BY <1>7, <2>2 DEF Requested, Watch, MarksStay, Marked
    <2>4. d.listening = c.listening \cup {t}
      BY <1>7, <2>2 DEF Sent, more
    <2> QED BY <1>7, <1>11, <2>2, <2>3, <2>4 DEF Sent, Sound, Linked, Follows, IsOpen, IsStarted
  <1>12. CASE ~ShouldStartWatchStream(listened) /\ ~IsOpen(c.stream)
    <2>1. d = listened
      BY <1>4, <1>12
    <2>2. Sane(d)
      BY <1>5, <1>7, <1>8, <1>12, <2>1 DEF Sound, Sane, StreamSane
    <2>3. Linked(d)
      BY <1>7, <1>9, <1>12, <2>1 DEF Sound, Linked, ShouldStartWatchStream
    <2> QED BY <1>7, <1>12, <2>1, <2>2, <2>3 DEF Sound, Follows
  <1> QED BY <1>10, <1>11, <1>12

\* The last target's stop over an open stream sets the idle timer.
LEMMA MarkIdleSound ==
    ASSUME NEW c, Sound(c), IsOpen(c.stream), c.listening = {}, NEW d, d = MarkIdle(c)
    PROVE  Sound(d) /\ Follows(c, d) /\ Undisturbed(c, d)
  <1>1. c \in Client /\ c.stream \in StreamType
    BY DEF Sound, Sane, Client
  <1>2. (c.stream.idle \/ IsOpen(c.stream)) = TRUE
    OBVIOUS
  <1>3. d = [c EXCEPT !.stream.idle = TRUE]
    BY <1>2 DEF MarkIdle
  <1>4. [c EXCEPT !.stream.idle = TRUE] \in Client
    BY <1>1, SetBoth, Values, Zenon
  <1>5. d.stream = [c.stream EXCEPT !.idle = TRUE]
    BY <1>1, <1>3 DEF Client
  <1>6. /\ d.stream.closes = c.stream.closes /\ d.stream.state = c.stream.state
        /\ d.stream.up = c.stream.up /\ d.stream.down = c.stream.down
        /\ d.stream.asked = c.stream.asked /\ d.stream.backoff = c.stream.backoff
    BY <1>1, <1>5 DEF StreamType
  <1>7. /\ SameTargets(c, d) /\ d.aggregating = c.aggregating
        /\ d.online = c.online /\ d.failures = c.failures /\ d.timer = c.timer
        /\ d.view = c.view
    BY <1>1, <1>3 DEF Client, SameTargets
  <1> QED BY <1>3, <1>4, <1>6, <1>7
          DEF Sound, Sane, Linked, StreamSane, ShownSane, SameTargets, Undisturbed, Follows,
              IsOpen, IsStarted

\* The end of StopListening, when the target's request was sent.
Settled(c, sent) ==
    IF sent.listening # {} THEN sent
    ELSE IF IsOpen(c.stream) THEN MarkIdle(sent)
    ELSE IF c.network THEN UpdateState(sent, "Unknown") ELSE sent

\* The app stops listening to a target.
LEMMA StopSound ==
    ASSUME NEW c, Sound(c), NEW t \in Targets, c.view[t] # "absent",
           NEW d, d = StopListening(c, t)
    PROVE  /\ Sound(d) /\ Follows(c, d)
           /\ ~IsOpen(c.stream) => ~IsOpen(d.stream) /\ d.states = c.states
           /\ IsOpen(c.stream) => /\ Requested(c, d, t, <<Unwatch(c, t)>>, c.sent[t])
                                  /\ d.listening = c.listening \ {t}
  <1> DEFINE fewer == c.listening \ {t}
             left == [c EXCEPT !.listening = fewer]
             erased == [left EXCEPT !.view[t] = "absent"]
             sent == IF IsOpen(c.stream) THEN SendUnwatchRequest(erased, t) ELSE erased
  <1>0. c \in Client /\ t \in c.listening
    BY DEF Sound, Sane, ShownSane
  <1>1. HardAssert(c, t \in c.listening) = c
    BY <1>0, AssertHolds DEF Sound, Sane
  <1>2. [c EXCEPT !.listening = @ \ {t}, !.view[t] = "absent"] = erased
    BY <1>0 DEF Client
  <1>5. erased \in Client
    <2>1. fewer \in SUBSET Targets /\ "absent" \in Shown
      BY <1>0 DEF Shown, Client
    <2> HIDE DEF fewer
    <2>2. left \in Client
      BY <1>0, <2>1, SetClient, Zenon
    <2> HIDE DEF left
    <2> QED BY <2>1, <2>2, SetOne, Zenon
  <1>6. \A u \in Targets : erased.view[u] = IF u = t THEN "absent" ELSE c.view[u]
    BY <1>0 DEF Client
  <1>7. /\ erased.network = c.network /\ erased.stream = c.stream
        /\ erased.listening = fewer /\ erased.aggregating = c.aggregating
        /\ erased.online = c.online /\ erased.failures = c.failures
        /\ erased.timer = c.timer /\ erased.failed = c.failed
        /\ erased.states = c.states /\ erased.sent = c.sent
    BY <1>0 DEF Client
  <1> HIDE DEF erased
  <1>3. d = IF sent.listening # {} THEN sent
            ELSE IF IsOpen(c.stream) THEN MarkIdle(sent)
            ELSE IF c.network THEN UpdateState(sent, "Unknown") ELSE sent
    <2>1. [HardAssert(c, t \in c.listening) EXCEPT
               !.listening = @ \ {t}, !.view[t] = "absent"] = erased
      BY <1>1, <1>2
    <2>2. d = Settled(c, IF IsOpen(c.stream)
             THEN SendUnwatchRequest([HardAssert(c, t \in c.listening) EXCEPT
                                !.listening = @ \ {t}, !.view[t] = "absent"], t)
             ELSE [HardAssert(c, t \in c.listening) EXCEPT
                      !.listening = @ \ {t}, !.view[t] = "absent"])
      BY Zenon DEF StopListening, Settled
    <2>3. d = Settled(c, sent)
      BY <2>1, <2>2
    <2> QED BY <2>3, Zenon DEF Settled
  <1>8. ShownSane(erased)
    <2>1. \A u \in Targets : u \in fewer <=> (u # t /\ u \in c.listening)
      OBVIOUS
    <2> HIDE DEF fewer
    <2> QED BY <1>6, <1>7, <2>1 DEF Sound, Sane, ShownSane
  <1>9. c.listening # {}
    BY <1>0
  <1>10. /\ Sound(sent) /\ Follows(c, sent)
         /\ ~IsOpen(c.stream) => ~IsOpen(sent.stream) /\ sent.states = c.states
         /\ IsOpen(c.stream) => /\ IsOpen(sent.stream)
                                /\ Requested(c, sent, t, <<Unwatch(c, t)>>, c.sent[t])
                                /\ sent.listening = c.listening \ {t}
    <2>1. CASE IsOpen(c.stream)
      <3>1. sent = SendUnwatchRequest(erased, t)
        BY <2>1
      <3> HIDE DEF sent
      <3>2. /\ Sent(erased, sent)
            /\ Requested(erased, sent, t, <<Unwatch(erased, t)>>, erased.sent[t])
        BY <1>5, <1>7, <1>8, <2>1, <3>1, SendUnwatchSent
           DEF Sound, Sane, Linked, IsOpen, IsStarted
      <3>3. Requested(c, sent, t, <<Unwatch(c, t)>>, c.sent[t])
        BY <1>7, <3>2 DEF Requested, Unwatch, MarksStay, Marked
      <3>4. sent.listening = c.listening \ {t}
        BY <1>7, <3>2 DEF Sent
      <3> QED BY <1>7, <2>1, <3>2, <3>3, <3>4 DEF Sent, Sound, Linked, Follows, IsOpen, IsStarted
    <2>2. CASE ~IsOpen(c.stream)
      <3>1. sent = erased
        BY <2>2
      <3> HIDE DEF sent
      <3>2. Sane(sent)
        BY <1>5, <1>7, <1>8, <2>2, <3>1 DEF Sound, Sane, StreamSane
      <3>3. Linked(sent)
        BY <1>7, <1>9, <3>1 DEF Sound, Linked
      <3> QED BY <1>7, <2>2, <3>1, <3>2, <3>3 DEF Sound, Follows
    <2> QED BY <2>1, <2>2
  <1> HIDE DEF sent
  <1>11. CASE sent.listening # {}
    BY <1>3, <1>10, <1>11
  <1>12. CASE sent.listening = {} /\ IsOpen(c.stream)
    <2>1. d = MarkIdle(sent)
      BY <1>3, <1>12
    <2>2. Sound(d) /\ Follows(sent, d) /\ Undisturbed(sent, d)
      BY <1>10, <1>12, <2>1, MarkIdleSound
    <2>3. c.stream.closes \in Nat /\ sent.stream.closes \in Nat /\ d.stream.closes \in Nat
      BY <1>10, <2>2 DEF Sound, Sane, Client, StreamType
    <2>4. Requested(c, d, t, <<Unwatch(c, t)>>, c.sent[t]) /\ d.listening = c.listening \ {t}
      BY <1>10, <1>12, <2>2 DEF Requested, Undisturbed, MarksStay, Marked
    <2> QED BY <1>10, <1>12, <2>2, <2>3, <2>4 DEF Follows
  <1>13. CASE sent.listening = {} /\ ~IsOpen(c.stream)
    <2>1. CASE c.network
      <3>1. d = UpdateState(sent, "Unknown")
        BY <1>3, <1>13, <2>1
      <3>2. Sound(d) /\ d.stream = sent.stream /\ SameTargets(sent, d)
        BY <1>10, <3>1, UpdateSound, Values
      <3> QED BY <1>10, <1>13, <3>2 DEF Follows, SameTargets
    <2>2. CASE ~c.network
      BY <1>3, <1>10, <1>13, <2>2
    <2> QED BY <2>1, <2>2
  <1> QED BY <1>11, <1>12, <1>13

\* An order of targets is a sequence of them.
LEMMA OrdersAreSequences ==
    ASSUME NEW S \in SUBSET Targets, NEW order \in Orders(S)
    PROVE  /\ order \in Seq(Targets) /\ Len(order) \in Nat
           /\ \A i \in 1..Len(order) : order[i] \in S
           /\ DOMAIN order = 1..Len(order)
  <1>1. Cardinality(S) \in Nat
    BY FS_Subset, FS_CardinalityType, ParametersAssumption
  <1>2. order \in [1..Cardinality(S) -> S]
    BY DEF Orders
  <1> QED BY <1>1, <1>2

\* An order has every target once.
LEMMA OrdersAreOnto ==
    ASSUME NEW S \in SUBSET Targets, NEW order \in Orders(S)
    PROVE  /\ \A t \in S : \E i \in 1..Len(order) : order[i] = t
           /\ \A i, j \in 1..Len(order) : order[i] = order[j] => i = j
  <1>1. IsFiniteSet(S) /\ Cardinality(S) \in Nat
    BY FS_Subset, FS_CardinalityType, ParametersAssumption
  <1> DEFINE n == Cardinality(S)
  <1>2. /\ order \in [1..n -> S] /\ Len(order) = n
        /\ \A i, j \in 1..n : order[i] = order[j] => i = j
    BY <1>1 DEF Orders
  <1>3. IsFiniteSet(1..n) /\ Cardinality(1..n) = n
    BY <1>1, FS_Interval
  <1>4. order \in Injection(1..n, S)
    BY <1>2 DEF Injection, IsInjective
  <1>5. order \in Surjection(1..n, S)
    BY <1>1, <1>3, <1>4, FS_Injection
  <1> HIDE DEF n
  <1> QED BY <1>2, <1>5 DEF Surjection

\* The requests that watch the targets of an order.
Watches(c, order) == [i \in DOMAIN order |-> Watch(c, order[i])]

LEMMA AllWatched ==
    ASSUME NEW c \in Client, NEW S \in SUBSET Targets, NEW order \in Orders(S)
    PROVE  /\ Watches(c, order) \in Seq(Request)
           /\ \A t \in S : /\ Amount(Watches(c, order), Asks(t)) <= 1
                           /\ LastWatches(Watches(c, order), t, c.sent[t] + 1)
           /\ \A t \in Targets \ S : \A i \in 1..Len(Watches(c, order)) :
                  Watches(c, order)[i].target # t
  <1> DEFINE requests == Watches(c, order)
  <1>1. /\ order \in Seq(Targets) /\ Len(order) \in Nat /\ DOMAIN order = 1..Len(order)
        /\ \A i \in 1..Len(order) : order[i] \in S
    BY OrdersAreSequences
  <1>2. ASSUME NEW t \in Targets
        PROVE  /\ Watch(c, t) \in Request /\ Watch(c, t).target = t
               /\ Watch(c, t).kind = "watch" /\ Watch(c, t).number = c.sent[t] + 1
    BY DEF Watch, Request, Client
  <1>3. requests \in Seq(Request) /\ Len(requests) = Len(order)
    <2>1. \A i \in 1..Len(order) : Watch(c, order[i]) \in Request
      BY <1>1, <1>2
    <2>2. requests = [i \in 1..Len(order) |-> Watch(c, order[i])]
      BY <1>1 DEF Watches
    <2> HIDE DEF requests
    <2> QED BY <1>1, <2>1, <2>2
  <1>4. \A i \in 1..Len(order) : requests[i] = Watch(c, order[i])
    BY <1>1 DEF Watches
  <1> HIDE DEF requests
  <1>5. ASSUME NEW t \in S
        PROVE  Amount(requests, Asks(t)) <= 1 /\ LastWatches(requests, t, c.sent[t] + 1)
    <2>1. PICK i \in 1..Len(order) : order[i] = t
      BY OrdersAreOnto
    <2>2. ASSUME NEW j \in 1..Len(order), requests[j].target = t PROVE j = i
      <3>1. order[j] = t
        BY <1>1, <1>2, <1>4, <2>2
      <3> QED BY <2>1, <3>1, OrdersAreOnto
    <2>3. Places(requests, Asks(t)) \in SUBSET {i}
      BY <1>3, <2>2 DEF Places, Asks
    <2>4. IsFiniteSet({i}) /\ Cardinality({i}) = 1
      BY FS_Singleton
    <2>5. Amount(requests, Asks(t)) <= 1
      BY <2>3, <2>4, FS_Subset DEF Amount
    <2>6. \A j \in 1..Len(requests) : j > i => requests[j] \notin Asks(t)
      BY <1>3, <2>2 DEF Asks
    <2>7. LastWatches(requests, t, c.sent[t] + 1)
      BY <1>2, <1>3, <1>4, <2>1, <2>6 DEF LastWatches
    <2> QED BY <2>5, <2>7
  <1>6. ASSUME NEW t \in Targets \ S, NEW i \in 1..Len(requests) PROVE requests[i].target # t
    <2>1. requests[i].target = order[i] /\ order[i] \in S
      BY <1>1, <1>2, <1>3, <1>4
    <2> QED BY <2>1
  <1> QED BY <1>3, <1>5, <1>6 DEF requests

\* The stream opens and every target is watched again.
LEMMA OpenSound ==
    ASSUME NEW c, Sound(c), c.stream.state = "Starting", ~c.stream.asked,
           NEW order \in Orders(c.listening),
           NEW d, d = OnWatchStreamOpen(Open(c, "user"), order)
    PROVE  /\ Sound(d) /\ d.stream.closes = c.stream.closes /\ IsOpen(d.stream)
           /\ d.listening = c.listening /\ d.stream.down = c.stream.down
           /\ c.listening = {} => d.states = c.states /\ d.stream.up = c.stream.up
           /\ c.listening # {} =>
                  /\ d.stream.up = c.stream.up \o Watches(c, order)
                  /\ \A t \in Targets :
                         /\ d.states[t].changes = c.states[t].changes
                         /\ d.states[t].due = IF t \in c.listening THEN c.states[t].due + 1
                                             ELSE c.states[t].due
                         /\ d.sent[t] = IF t \in c.listening THEN c.sent[t] + 1 ELSE c.sent[t]
           /\ MarksStay(c, d)
  <1> DEFINE o == [c EXCEPT !.stream.state = "Open", !.stream.token = "user"]
  <1>1. c \in Client /\ c.stream \in StreamType
    BY DEF Sound, Sane, Client
  <1>2. Open(c, "user") = o
    <2>1. HardAssert(c, c.stream.state = "Starting") = c
      BY <1>1, AssertHolds DEF Sound, Sane
    <2> QED BY <2>1 DEF Open
  <1>3. o \in Client
    BY <1>1, SetBoth, Values, Zenon
  <1>4. o.stream = [c.stream EXCEPT !.state = "Open", !.token = "user"]
    BY <1>1 DEF Client
  <1>5. /\ SameTargets(c, o) /\ o.aggregating = c.aggregating
        /\ o.online = c.online /\ o.failures = c.failures /\ o.timer = c.timer
        /\ o.view = c.view
    BY <1>1 DEF Client, SameTargets
  <1> HIDE DEF o
  <1>6. /\ o.stream.closes = c.stream.closes /\ o.stream.state = "Open"
        /\ o.stream.up = c.stream.up /\ o.stream.down = c.stream.down
        /\ o.stream.idle = c.stream.idle /\ o.stream.asked = c.stream.asked
        /\ o.stream.backoff = c.stream.backoff
    BY <1>4, <1>1 DEF StreamType
  <1>7. Sound(o) /\ o.aggregating
    BY <1>3, <1>5, <1>6 DEF Sound, Sane, Linked, StreamSane, ShownSane, SameTargets, IsOpen, IsStarted
  <1>8. CASE o.listening = {}
    <2>1. d = o
      BY <1>2, <1>8 DEF OnWatchStreamOpen
    <2> QED BY <1>5, <1>6, <1>7, <1>8, <2>1 DEF IsOpen, SameTargets, MarksStay, Marked
  <1>9. CASE o.listening # {}
    <2> DEFINE states == [t \in Targets |-> IF t \notin o.listening THEN o.states[t]
                             ELSE Rewatched(o, t)]
               sent == [t \in Targets |-> IF t \in o.listening THEN o.sent[t] + 1 ELSE o.sent[t]]
               requests == [i \in DOMAIN order |-> Watch(o, order[i])]
               e == [o EXCEPT !.states = states, !.sent = sent]
    <2>1. HardAssert(o, o.aggregating) = o
      BY <1>3, <1>7, AssertHolds DEF Sound, Sane
    <2>2. [o EXCEPT !.states = [t \in Targets |-> IF t \notin o.listening THEN @[t]
                         ELSE Rewatched(o, t)],
                    !.sent = [t \in Targets |-> IF t \in o.listening THEN @[t] + 1 ELSE @[t]]]
          = e
      BY <1>3 DEF Client
    <2>3. d = Send(e, requests)
      BY <1>2, <1>9, <2>1, <2>2 DEF OnWatchStreamOpen
    <2>4. states \in [Targets -> TargetState]
      BY <1>3, RewatchedType, EnsuredType
    <2>5. sent \in [Targets -> Nat]
      BY <1>3 DEF Client
    <2>6. requests \in Seq(Request) /\ requests = Watches(c, order)
      <3>1. requests = Watches(c, order)
        BY <1>5 DEF Watches, Watch, SameTargets
      <3>2. c.listening \in SUBSET Targets
        BY <1>1 DEF Client
      <3> HIDE DEF requests
      <3> QED BY <1>1, <3>1, <3>2, AllWatched
    <2>10. \A t \in Targets :
               /\ states[t].changes = c.states[t].changes
               /\ states[t].due = IF t \in c.listening THEN c.states[t].due + 1
                                 ELSE c.states[t].due
               /\ sent[t] = IF t \in c.listening THEN c.sent[t] + 1 ELSE c.sent[t]
               /\ IF t \in c.listening THEN states[t].current = 0 \/ states[t].kept
                  ELSE states[t] = c.states[t]
      <3> SUFFICES ASSUME NEW t \in Targets
                   PROVE  /\ states[t].changes = c.states[t].changes
                          /\ states[t].due = IF t \in c.listening THEN c.states[t].due + 1
                                            ELSE c.states[t].due
                          /\ sent[t] = IF t \in c.listening THEN c.sent[t] + 1 ELSE c.sent[t]
                          /\ IF t \in c.listening THEN states[t].current = 0 \/ states[t].kept
                             ELSE states[t] = c.states[t]
        OBVIOUS
      <3>1. o.states = c.states /\ o.sent = c.sent /\ o.listening = c.listening
        BY <1>5 DEF SameTargets
      <3>2. /\ states[t] = IF t \notin o.listening THEN o.states[t]
                           ELSE Rewatched(o, t)
            /\ sent[t] = IF t \in o.listening THEN o.sent[t] + 1 ELSE o.sent[t]
        OBVIOUS
      <3> HIDE DEF states, sent
      <3> QED BY <1>3, <3>1, <3>2, RewatchedType
    <2> HIDE DEF states, sent, requests
    <2>7. e \in Client
      BY <1>3, <2>4, <2>5, SetClient, Zenon
    <2>8. Unshown(o, e)
      BY <1>3, <2>7 DEF Client, Unshown
    <2>9. e.states = states /\ e.sent = sent
      BY <1>3 DEF Client
    <2> HIDE DEF e
    <2>11. d.states = e.states /\ d.sent = e.sent /\ Sent(o, d)
           /\ d.stream.up = o.stream.up \o requests /\ d.stream.down = o.stream.down
      <3>1. /\ o \in Client /\ ~o.failed /\ StreamSane(o.stream) /\ ShownSane(o)
            /\ IsOpen(o.stream)
        BY <1>3, <1>6, <1>7 DEF Sound, Sane, IsOpen
      <3> QED BY <2>3, <2>6, <2>8, <3>1, UnshownSent
    <2>12. Sound(d) /\ d.stream.closes = c.stream.closes /\ IsOpen(d.stream)
      BY <1>6, <1>7, <2>11 DEF Sent, Sound, Linked, IsOpen, IsStarted
    <2>13. MarksStay(c, d)
      <3> SUFFICES ASSUME NEW t \in Targets, Marked(c, t) PROVE Marked(d, t)
        BY DEF MarksStay
      <3>1. d.states[t] = states[t] /\ d.sent[t] = sent[t]
        BY <2>9, <2>11
      <3>2. CASE t \in c.listening
        BY <2>10, <3>1, <3>2 DEF Marked
      <3>3. CASE t \notin c.listening
        BY <2>10, <3>1, <3>3 DEF Marked
      <3> QED BY <3>2, <3>3
    <2> QED BY <1>5, <1>6, <1>9, <2>6, <2>9, <2>10, <2>11, <2>12, <2>13 DEF Sent, SameTargets
  <1> QED BY <1>8, <1>9

\* A stream that opens awaits one response of each target that is listened to.
LEMMA OpenFresh ==
    ASSUME NEW c, Sound(c), c.stream.state = "Starting", ~c.stream.asked, c.states = NoStates,
           NEW order \in Orders(c.listening),
           NEW d, d = OnWatchStreamOpen(Open(c, "user"), order)
    PROVE  Fresh(d, NewBackend)
  <1> DEFINE requests == Watches(c, order)
  <1>1. /\ Sound(d) /\ IsOpen(d.stream)
        /\ d.listening = c.listening /\ d.stream.down = c.stream.down
        /\ c.listening = {} => d.states = c.states /\ d.stream.up = c.stream.up
        /\ c.listening # {} =>
               /\ d.stream.up = c.stream.up \o requests
               /\ \A t \in Targets :
                      /\ d.states[t].changes = c.states[t].changes
                      /\ d.states[t].due = IF t \in c.listening THEN c.states[t].due + 1
                                          ELSE c.states[t].due
                      /\ d.sent[t] = IF t \in c.listening THEN c.sent[t] + 1 ELSE c.sent[t]
        /\ MarksStay(c, d)
    BY OpenSound
  <1>2. /\ c \in Client /\ c.listening \in SUBSET Targets /\ Refused \subseteq Targets
        /\ c.stream.up = <<>> /\ c.stream.down = <<>>
    BY ParametersAssumption DEF Sound, Sane, Client, StreamSane, IsOpen
  <1>3. \A t \in Targets : c.states[t].due = 0 /\ c.states[t].changes = {}
    BY DEF NoStates, NoState
  <1>4. \A t \in Targets : NewBackend.watching[t] = NotWatched /\ NewBackend.watching[t].number = 0
    BY DEF NewBackend, NotWatched
  <1>5. /\ requests \in Seq(Request)
        /\ \A t \in c.listening : /\ Amount(requests, Asks(t)) <= 1
                                  /\ LastWatches(requests, t, c.sent[t] + 1)
        /\ \A t \in Targets \ c.listening : \A i \in 1..Len(requests) : requests[i].target # t
    BY <1>2, AllWatched
  <1> HIDE DEF requests
  <1>6. ToldRight(d.stream.down)
    BY <1>1, <1>2 DEF ToldRight
  <1>7. ASSUME NEW t \in Refused PROVE Untold(d, NewBackend, t)
    <2>1. d.states[t].changes = {} /\ d.states[t].due \in {0, 1}
      BY <1>1, <1>2, <1>3
    <2> QED BY <1>2, <1>4, <2>1 DEF Untold
  <1>8. ASSUME NEW t \in Targets \ Refused PROVE Tracked(d, NewBackend, t)
    <2> DEFINE none == <<>>
    <2>0. none \in Seq(Request) /\ none \in Seq(Message) /\ Len(none) = 0
      OBVIOUS
    <2> HIDE DEF none
    <2>1. Fits(t, FALSE, 0, {}, d.sent[t], none, none, 0)
      <3>1. Amount(none, Asks(t)) = 0 /\ Amount(none, Replies(t)) = 0
        <4>1. /\ \A i \in 1..Len(none) : none[i] \notin Asks(t)
              /\ \A i \in 1..Len(none) : none[i] \notin Replies(t)
          BY <2>0
        <4> QED BY <2>0, <4>1, AmountType
      <3>2. Carried(none, t, 0)
        BY <2>0 DEF Carried
      <3> QED BY <3>1, <3>2 DEF Fits
    <2>2. CASE t \in c.listening
      <3>1. 1 \in Nat \ {0} /\ TRUE \in BOOLEAN /\ FALSE \in BOOLEAN /\ 0 \in Int
        OBVIOUS
      <3>2. Amount(requests, Asks(t)) <= 1 /\ (TRUE => LastWatches(requests, t, d.sent[t]))
        BY <1>1, <1>5, <2>2
      <3>3. Fits(t, TRUE, 0 + 1, {}, d.sent[t], none \o requests, none, 0)
        BY <1>5, <2>0, <2>1, <3>1, <3>2, OwnSent
      <3>4. /\ d.states[t].due = 0 + 1 /\ d.states[t].changes = {}
            /\ d.stream.up = none \o requests /\ d.stream.down = none
        BY <1>1, <1>2, <1>3, <2>2 DEF none
      <3>5. (t \in d.listening) = TRUE
        BY <1>1, <2>2
      <3> QED BY <1>4, <3>3, <3>4, <3>5 DEF Tracked
    <2>3. CASE t \notin c.listening
      <3>1. /\ \A i \in 1..Len(requests) : requests[i].target # t
            /\ FALSE \in BOOLEAN /\ 0 \in Int /\ t \in Targets
        BY <1>5, <2>3
      <3>2. Fits(t, FALSE, 0, {}, d.sent[t], none \o requests, none, 0)
        BY <1>5, <2>0, <2>1, <3>1, OthersSent
      <3>3. /\ d.states[t].due = 0 /\ d.states[t].changes = {}
            /\ d.stream.up = none \/ d.stream.up = none \o requests
            /\ d.stream.down = none
        BY <1>1, <1>2, <1>3, <2>3 DEF none
      <3>4. (t \in d.listening) = FALSE
        BY <1>1, <2>3
      <3> QED BY <1>4, <2>1, <3>2, <3>3, <3>4 DEF Tracked
    <2> QED BY <2>2, <2>3
  <1>9. ASSUME NEW t \in Targets PROVE Marked(d, t)
    <2>1. Marked(c, t)
      BY DEF NoStates, NoState, Marked
    <2> QED BY <1>1, <2>1 DEF MarksStay
  <1> QED BY <1>1, <1>6, <1>7, <1>8, <1>9 DEF Fresh

-----------------------------------------------------------------------------
(* The backend's answers. *)

\* An answer that concerns the aggregator alone.
LEMMA UnshownSound ==
    ASSUME NEW c, Sound(c), NEW d, Unshown(c, d)
    PROVE  Sound(d) /\ d.stream = c.stream
  BY DEF Sound, Sane, Linked, ShownSane, Unshown

\* The state of t is another one.
Restated(c, d, t, due, changes) ==
    /\ d.states[t].due = due /\ d.states[t].changes = changes
    /\ \A u \in Targets \ {t} : d.states[u] = c.states[u]
    /\ d.stream = c.stream /\ d.listening = c.listening /\ d.sent = c.sent

\* It is fresh if it counts what is still to come.
LEMMA FreshRestated ==
    ASSUME NEW c, NEW b, Fresh(c, b), IsOpen(c.stream), NEW d, NEW t \in Targets,
           NEW due, NEW changes, Restated(c, d, t, due, changes),
           t \in Refused => due >= 0 /\ changes = {},
           t \notin Refused =>
               /\ due >= Amount(c.stream.up, Asks(t)) + Amount(c.stream.down, Replies(t))
               /\ t \in c.listening /\ due = 0 => changes \subseteq {c.sent[t]},
           Marked(c, t) => Marked(d, t)
    PROVE  Fresh(d, b)
  <1>1. IsOpen(d.stream) /\ ToldRight(d.stream.down)
    BY DEF Restated, Fresh
  <1>2. ASSUME NEW u \in Refused PROVE Untold(d, b, u)
    <2>1. u \in Targets /\ Untold(c, b, u)
      BY ParametersAssumption DEF Fresh
    <2> QED BY <2>1 DEF Untold, Restated
  <1>3. ASSUME NEW u \in Targets \ Refused PROVE Tracked(d, b, u)
    <2>1. Tracked(c, b, u)
      BY DEF Fresh
    <2>2. CASE u = t
      <3>1. Fits(t, t \in c.listening, due, changes, c.sent[t],
                 c.stream.up, c.stream.down, b.watching[t].number)
        BY <2>1, <2>2 DEF Tracked, Fits
      <3> QED BY <2>2, <3>1 DEF Tracked, Restated
    <2>3. CASE u # t
      BY <2>1, <2>3 DEF Tracked, Restated
    <2> QED BY <2>2, <2>3
  <1>4. ASSUME NEW u \in Targets PROVE Marked(d, u)
    <2>1. Marked(c, u)
      BY DEF Fresh
    <2>2. CASE u # t
      BY <2>1, <2>2 DEF Marked, Restated
    <2> QED BY <2>1, <2>2
  <1> QED BY <1>1, <1>2, <1>3, <1>4 DEF Fresh

\* A target's state is set by an answer.
LEMMA StateSound ==
    ASSUME NEW c, Sound(c), NEW t \in Targets, NEW x \in TargetState,
           NEW d, d = [c EXCEPT !.states[t] = x]
    PROVE  Sound(d) /\ d.stream = c.stream /\ Restated(c, d, t, x.due, x.changes)
  <1>1. [c EXCEPT !.states[t] = x] \in Client
    BY SetOne, Zenon DEF Sound, Sane
  <1>2. Unshown(c, d)
    BY <1>1 DEF Sound, Sane, Client, Unshown
  <1>3. d.states = [c.states EXCEPT ![t] = x] /\ d.sent = c.sent
    BY DEF Sound, Sane, Client
  <1>4. Restated(c, d, t, x.due, x.changes)
    BY <1>2, <1>3 DEF Sound, Sane, Client, Unshown, Restated
  <1> QED BY <1>2, <1>4, UnshownSound

\* ADDED.
LEMMA AddedSound ==
    ASSUME NEW c, Sound(c), NEW t \in Targets, NEW d, d = Added(c, t)
    PROVE  /\ Sound(d) /\ d.stream = c.stream
           /\ Restated(c, d, t, c.states[t].due - 1,
                       IF c.states[t].due - 1 = 0 THEN {} ELSE c.states[t].changes)
           /\ Marked(c, t) => Marked(d, t)
  <1> DEFINE due == c.states[t].due - 1
             changes == IF due = 0 THEN {} ELSE c.states[t].changes
             x == [Ensured(c, t) EXCEPT !.due = due, !.changes = changes]
  <1>0. c \in Client
    BY DEF Sound, Sane
  <1>1. [Ensured(c, t) EXCEPT !.due = due, !.changes = IF due = 0 THEN {} ELSE @] = x
    BY <1>0, EnsuredType
  <1>2. d = [c EXCEPT !.states[t] = x]
    <2> HIDE DEF x
    <2> QED BY <1>1, Zenon DEF Added
  <1>3. due \in Int /\ changes \in SUBSET Nat
    BY <1>0, EnsuredType
  <1>4. x \in TargetState
    <2> HIDE DEF due, changes
    <2> QED BY <1>0, <1>3, EnsuredType, SetTarget, Zenon
  <1>5. /\ x.due = due /\ x.changes = changes
        /\ x.current = c.states[t].current /\ x.kept = c.states[t].kept
    <2> HIDE DEF due, changes
    <2> QED BY <1>0, EnsuredType DEF TargetState
  <1> HIDE DEF x
  <1>6. Sound(d) /\ d.stream = c.stream /\ Restated(c, d, t, x.due, x.changes)
    BY <1>2, <1>4, StateSound
  <1>11. d.states[t] = x
    BY <1>0, <1>2 DEF Client
  <1>7. Marked(c, t) => Marked(d, t)
    BY <1>5, <1>6, <1>11 DEF Restated, Marked
  <1> QED BY <1>5, <1>6, <1>7

\* REMOVED.
LEMMA RemovedSound ==
    ASSUME NEW c, Sound(c), NEW t \in Targets, NEW d, d = Removed(c, t)
    PROVE  /\ Sound(d) /\ d.stream = c.stream
           /\ Restated(c, d, t, c.states[t].due - 1,
                       IF c.states[t].due - 1 = 0 THEN {} ELSE c.states[t].changes)
           /\ Marked(c, t) => Marked(d, t)
  <1> DEFINE due == c.states[t].due - 1
             x == IF due = 0 THEN NoState ELSE [Ensured(c, t) EXCEPT !.due = due]
  <1>0. c \in Client
    BY DEF Sound, Sane
  <1>2. d = [c EXCEPT !.states[t] = x]
    BY Zenon DEF Removed
  <1>3. due \in Int
    BY <1>0, EnsuredType
  <1>4. x \in TargetState
    <2>1. NoState \in TargetState
      BY DEF NoState, TargetState
    <2> HIDE DEF due
    <2> QED BY <1>0, <1>3, <2>1, EnsuredType, SetTarget, Zenon
  <1>5. /\ x.due = due /\ x.changes = IF due = 0 THEN {} ELSE c.states[t].changes
        /\ \/ x.current = 0
           \/ x.current = c.states[t].current /\ x.kept = c.states[t].kept
    <2> HIDE DEF due
    <2> QED BY <1>0, EnsuredType DEF TargetState, NoState
  <1> HIDE DEF x
  <1>6. Sound(d) /\ d.stream = c.stream /\ Restated(c, d, t, x.due, x.changes)
    BY <1>2, <1>4, StateSound
  <1>11. d.states[t] = x
    BY <1>0, <1>2 DEF Client
  <1>7. Marked(c, t) => Marked(d, t)
    BY <1>5, <1>6, <1>11 DEF Restated, Marked
  <1> QED BY <1>5, <1>6, <1>7

\* CURRENT.
LEMMA CurrentSound ==
    ASSUME NEW c, Sound(c), NEW t \in Targets, NEW number \in Nat,
           NEW d, d = Current(c, t, number)
    PROVE  /\ Sound(d) /\ d.stream = c.stream
           /\ Restated(c, d, t, c.states[t].due, c.states[t].changes)
           /\ (Active(c, t) => number = c.sent[t]) => (Marked(c, t) => Marked(d, t))
  <1> DEFINE current == IF Active(c, t) THEN number ELSE Ensured(c, t).current
             kept == Ensured(c, t).kept /\ ~Active(c, t)
             y == [Ensured(c, t) EXCEPT !.current = current]
             x == [y EXCEPT !.kept = kept]
  <1>0. c \in Client
    BY DEF Sound, Sane
  <1>1. [Ensured(c, t) EXCEPT !.current = IF Active(c, t) THEN number ELSE @,
                              !.kept = @ /\ ~Active(c, t)] = x
    OBVIOUS
  <1>2. d = [c EXCEPT !.states[t] = x]
    <2> HIDE DEF x
    <2> QED BY <1>1, Zenon DEF Current
  <1>3. current \in Nat /\ kept \in BOOLEAN
    BY <1>0, EnsuredType
  <1>8. /\ Active(c, t) => current = number
        /\ ~Active(c, t) => current = c.states[t].current /\ (c.states[t].kept => kept)
    BY <1>0, EnsuredType
  <1> HIDE DEF current, kept
  <1>9. y \in TargetState
    BY <1>0, <1>3, EnsuredType, SetTarget, Zenon
  <1>10. /\ y.due = c.states[t].due /\ y.changes = c.states[t].changes
         /\ y.current = current
    BY <1>0, EnsuredType DEF TargetState
  <1> HIDE DEF y
  <1>4. x \in TargetState
    BY <1>3, <1>9, SetTarget, Zenon
  <1>5. /\ x.due = c.states[t].due /\ x.changes = c.states[t].changes
        /\ x.current = current /\ x.kept = kept
    BY <1>9, <1>10 DEF TargetState
  <1> HIDE DEF x
  <1>6. Sound(d) /\ d.stream = c.stream /\ Restated(c, d, t, x.due, x.changes)
    BY <1>2, <1>4, StateSound
  <1>11. d.states[t] = x
    BY <1>0, <1>2 DEF Client
  <1>7. (Active(c, t) => number = c.sent[t]) => (Marked(c, t) => Marked(d, t))
    <2>1. d.states[t].current = current /\ d.states[t].kept = kept /\ d.sent[t] = c.sent[t]
      BY <1>5, <1>6, <1>11 DEF Restated
    <2>2. CASE Active(c, t)
      BY <1>8, <2>1, <2>2 DEF Marked
    <2>3. CASE ~Active(c, t)
      <3>1. current = c.states[t].current
        BY <1>8, <2>3
      <3>2. c.states[t].kept => d.states[t].kept
        BY <1>8, <2>1, <2>3, Zenon
      <3> QED BY <2>1, <3>1, <3>2 DEF Marked
    <2> QED BY <2>2, <2>3
  <1> QED BY <1>5, <1>6, <1>7

\* A document change.
LEMMA ChangeSound ==
    ASSUME NEW c, Sound(c), NEW t \in Targets, NEW number \in Nat,
           NEW d, d = Change(c, t, number)
    PROVE  /\ Sound(d) /\ d.stream = c.stream
           /\ ~Active(c, t) => d = c
           /\ Active(c, t) => Restated(c, d, t, c.states[t].due, c.states[t].changes \cup {number})
           /\ Marked(c, t) => Marked(d, t)
  <1> DEFINE changes == Ensured(c, t).changes \cup {number}
             x == [Ensured(c, t) EXCEPT !.changes = changes]
  <1>0. c \in Client
    BY DEF Sound, Sane
  <1>2. CASE Active(c, t)
    <2>1. d = [c EXCEPT !.states[t] = x]
      BY <1>2, Zenon DEF Change
    <2>2. changes \in SUBSET Nat /\ changes = c.states[t].changes \cup {number}
      BY <1>0, EnsuredType
    <2>3. x \in TargetState
      <3> HIDE DEF changes
      <3> QED BY <1>0, <2>2, EnsuredType, SetTarget, Zenon
    <2>4. /\ x.due = c.states[t].due /\ x.changes = changes
          /\ x.current = c.states[t].current /\ x.kept = c.states[t].kept
      <3> HIDE DEF changes
      <3> QED BY <1>0, EnsuredType DEF TargetState
    <2> HIDE DEF x, changes
    <2>5. Sound(d) /\ d.stream = c.stream /\ Restated(c, d, t, x.due, x.changes)
      BY <2>1, <2>3, StateSound
    <2>7. d.states[t] = x
      BY <1>0, <2>1 DEF Client
    <2>6. Marked(c, t) => Marked(d, t)
      BY <2>4, <2>5, <2>7 DEF Restated, Marked
    <2> QED BY <1>2, <2>2, <2>4, <2>5, <2>6
  <1>3. CASE ~Active(c, t)
    BY <1>3 DEF Change
  <1> QED BY <1>2, <1>3

\* An existence filter that does not match.
LEMMA MismatchSound ==
    ASSUME NEW c, Sound(c), NEW t \in Targets, NEW d, d = Mismatch(c, t)
    PROVE  /\ Sound(d) /\ d.stream = c.stream
           /\ ~Active(c, t) => d = c
           /\ Active(c, t) => Restated(c, d, t, c.states[t].due, {})
           /\ Marked(c, t) => Marked(d, t)
  <1> DEFINE b == [c EXCEPT !.states[t] = NewState]
             resets == b.resets \cup {t}
             e == [b EXCEPT !.resets = resets]
  <1>0. c \in Client
    BY DEF Sound, Sane
  <1>1. CASE Active(c, t)
    <2>1. HardAssert(c, c.states[t].due = 0) = c
      BY <1>0, <1>1, AssertHolds DEF Sound, Sane, Active
    <2>2. d = e
      BY <1>0, <1>1, <2>1 DEF Mismatch, Client
    <2>3. NewState \in TargetState
      <3>1. NoState \in TargetState
        BY DEF NoState, TargetState
      <3> QED BY <3>1, SetTarget, Values, Zenon DEF NewState
    <2>4. /\ Sound(b) /\ b.stream = c.stream
          /\ Restated(c, b, t, NewState.due, NewState.changes)
      BY <2>3, StateSound
    <2>11. b.states[t] = NewState
      BY <1>0 DEF Client
    <2> HIDE DEF b
    <2>5. b \in Client /\ resets \in SUBSET Targets
      BY <2>4 DEF Sound, Sane, Client
    <2> HIDE DEF resets
    <2>6. e \in Client
      BY <2>5, SetClient, Zenon
    <2>7. Unshown(b, e) /\ e.states = b.states /\ e.sent = b.sent
      BY <2>5, <2>6 DEF Client, Unshown
    <2> HIDE DEF e
    <2>8. NewState.due = c.states[t].due /\ NewState.changes = {} /\ NewState.current = 0
      BY <1>1 DEF Active, NewState, NoState
    <2>9. Restated(c, e, t, c.states[t].due, {})
      BY <2>4, <2>7, <2>8 DEF Restated, Unshown
    <2>10. Marked(e, t)
      BY <2>7, <2>8, <2>11 DEF Marked
    <2> QED BY <1>1, <2>2, <2>4, <2>7, <2>9, <2>10, UnshownSound
  <1>2. CASE ~Active(c, t)
    BY <1>2 DEF Mismatch
  <1> QED BY <1>1, <1>2

\* A target that is turned down.
LEMMA RejectedSound ==
    ASSUME NEW c, Sound(c), IsOpen(c.stream), NEW t \in Targets,
           NEW d, d = ProcessTargetError(c, t)
    PROVE  /\ Sound(d) /\ d.stream = c.stream
           /\ t \in Refused => \A b : Fresh(c, b) => Fresh(d, b)
  <1> DEFINE fewer == c.listening \ {t}
             left == [c EXCEPT !.listening = fewer]
             reset == [left EXCEPT !.states[t] = NoState]
             e == [reset EXCEPT !.view[t] = "absent"]
  <1>0. c \in Client
    BY DEF Sound, Sane
  <1>1. CASE t \in c.listening
    <2>1. HardAssert(c, c.view[t] # "absent") = c
      BY <1>0, <1>1, AssertHolds DEF Sound, Sane, ShownSane
    <2>2. d = e
      BY <1>0, <1>1, <2>1 DEF ProcessTargetError, Client
    <2>3. /\ e.network = c.network /\ e.stream = c.stream
          /\ e.listening = fewer /\ e.aggregating = c.aggregating
          /\ e.online = c.online /\ e.failures = c.failures
          /\ e.timer = c.timer /\ e.failed = c.failed
          /\ e.sent = c.sent /\ e.states = [c.states EXCEPT ![t] = NoState]
      BY <1>0 DEF Client
    <2>4. \A u \in Targets : e.view[u] = IF u = t THEN "absent" ELSE c.view[u]
      BY <1>0 DEF Client
    <2>5. e \in Client
      <3>1. fewer \in SUBSET Targets /\ NoState \in TargetState /\ "absent" \in Shown
        BY <1>0 DEF Shown, Client, NoState, TargetState
      <3> HIDE DEF fewer
      <3>2. left \in Client
        BY <1>0, <3>1, SetClient, Zenon
      <3> HIDE DEF left
      <3>3. reset \in Client
        BY <3>1, <3>2, SetOne, Zenon
      <3> HIDE DEF reset
      <3> QED BY <3>1, <3>3, SetOne, Zenon
    <2> HIDE DEF e
    <2>6. ShownSane(e)
      <3>1. \A u \in Targets : u \in fewer <=> (u # t /\ u \in c.listening)
        OBVIOUS
      <3> HIDE DEF fewer
      <3> QED BY <2>3, <2>4, <3>1 DEF Sound, Sane, ShownSane
    <2>7. c.listening = {} => fewer = {}
      OBVIOUS
    <2>8. ASSUME t \in Refused, NEW b, Fresh(c, b) PROVE Fresh(e, b)
      <3>1. \A u \in Targets \ {t} : /\ u \in e.listening <=> u \in c.listening
                                    /\ e.states[u] = c.states[u]
        BY <1>0, <2>3 DEF Client
      <3>2. e.states[t].due = 0 /\ e.states[t].changes = {}
        BY <1>0, <2>3 DEF Client, NoState
      <3>3. \A u \in Refused : u \in Targets /\ Untold(c, b, u)
        BY <2>8, ParametersAssumption DEF Fresh
      <3> HIDE DEF fewer
      <3>4. \A u \in Refused : Untold(e, b, u)
        BY <3>1, <3>2, <3>3 DEF Untold
      <3>5. ASSUME NEW u \in Targets \ Refused PROVE Tracked(e, b, u)
        <4>1. Tracked(c, b, u)
          BY <2>8 DEF Fresh
        <4>2. u \in Targets \ {t}
          BY <2>8
        <4>3. (u \in e.listening) = (u \in c.listening) /\ e.states[u] = c.states[u]
          BY <3>1, <4>2
        <4> QED BY <2>3, <4>1, <4>3 DEF Tracked
      <3>6. ASSUME NEW u \in Targets PROVE Marked(e, u)
        <4>1. Marked(c, u)
          BY <2>8 DEF Fresh
        <4>2. CASE u = t
          BY <1>0, <2>3, <4>2 DEF Client, NoState, Marked
        <4>3. CASE u # t
          BY <2>3, <3>1, <4>1, <4>3 DEF Marked
        <4> QED BY <4>2, <4>3
      <3> QED BY <2>3, <2>8, <3>4, <3>5, <3>6 DEF Fresh
    <2> HIDE DEF fewer
    <2> QED BY <2>2, <2>3, <2>5, <2>6, <2>7, <2>8 DEF Sound, Sane, Linked, IsOpen, IsStarted
  <1>2. CASE t \notin c.listening
    BY <1>2 DEF ProcessTargetError
  <1> QED BY <1>1, <1>2

\* The requests that watch the targets of an order anew.
WatchesAgain(c, order) ==
    [j \in 1..(2 * Len(order)) |->
        LET t == order[(j + 1) \div 2]
        IN  IF j % 2 = 1 THEN Unwatch(c, t) ELSE Watch(c, t)]

LEMMA AllWatchedAgain ==
    ASSUME NEW c \in Client, NEW S \in SUBSET Targets, NEW order \in Orders(S)
    PROVE  /\ WatchesAgain(c, order) \in Seq(Request)
           /\ \A t \in S : /\ Amount(WatchesAgain(c, order), Asks(t)) <= 2
                           /\ LastWatches(WatchesAgain(c, order), t, c.sent[t] + 1)
           /\ \A t \in Targets \ S : \A j \in 1..Len(WatchesAgain(c, order)) :
                  WatchesAgain(c, order)[j].target # t
  <1> DEFINE requests == WatchesAgain(c, order)
             n == Len(order)
             of(j) == (j + 1) \div 2
  <1>1. order \in Seq(Targets) /\ n \in Nat /\ \A i \in 1..n : order[i] \in S
    BY OrdersAreSequences
  <1>2. ASSUME NEW t \in Targets
        PROVE  /\ Watch(c, t) \in Request /\ Watch(c, t).target = t
               /\ Watch(c, t).kind = "watch" /\ Watch(c, t).number = c.sent[t] + 1
               /\ Unwatch(c, t) \in Request /\ Unwatch(c, t).target = t
    BY DEF Watch, Unwatch, Request, Client
  <1>3. /\ \A j \in 1..(2 * n) : of(j) \in 1..n
        /\ \A i \in 1..n : 2 * i \in 1..(2 * n) /\ of(2 * i) = i /\ (2 * i) % 2 # 1
        /\ \A i \in 1..n, j \in 1..(2 * n) : of(j) = i => j \in {2 * i - 1, 2 * i}
    BY <1>1
  <1>4. \A j \in 1..(2 * n) : requests[j] =
            IF j % 2 = 1 THEN Unwatch(c, order[of(j)]) ELSE Watch(c, order[of(j)])
    BY DEF WatchesAgain
  <1>5. \A i \in 1..n : order[i] \in Targets
    BY <1>1
  <1>6. requests \in Seq(Request) /\ Len(requests) = 2 * n
    <2>1. \A j \in 1..(2 * n) : requests[j] \in Request
      <3> HIDE DEF requests, n, of
      <3> QED BY <1>2, <1>3, <1>4, <1>5
    <2>2. 2 * n \in Nat
      BY <1>1
    <2>3. requests = [j \in 1..(2 * n) |-> requests[j]]
      BY DEF WatchesAgain
    <2> HIDE DEF requests, n, of
    <2> QED BY <2>1, <2>2, <2>3
  <1> HIDE DEF requests, n, of
  <1>7. \A j \in 1..(2 * n) : requests[j].target = order[of(j)]
    BY <1>2, <1>3, <1>4, <1>5
  <1>8. ASSUME NEW t \in S
        PROVE  Amount(requests, Asks(t)) <= 2 /\ LastWatches(requests, t, c.sent[t] + 1)
    <2>1. PICK i \in 1..n : order[i] = t
      BY OrdersAreOnto DEF n
    <2>2. ASSUME NEW j \in 1..(2 * n), requests[j].target = t PROVE j \in {2 * i - 1, 2 * i}
      <3>1. order[of(j)] = t /\ of(j) \in 1..n
        BY <1>3, <1>7, <2>2
      <3>2. of(j) = i
        BY <2>1, <3>1, OrdersAreOnto DEF n
      <3> QED BY <1>3, <3>2
    <2>3. Places(requests, Asks(t)) \in SUBSET ({2 * i - 1} \cup {2 * i})
      BY <1>6, <2>2 DEF Places, Asks
    <2>4. /\ IsFiniteSet({2 * i - 1} \cup {2 * i})
          /\ Cardinality({2 * i - 1} \cup {2 * i}) <= 2
      <3> DEFINE one == {2 * i - 1}
                 x == 2 * i
      <3>1. IsFiniteSet(one) /\ Cardinality(one) = 1
        BY FS_Singleton
      <3> HIDE DEF one, x
      <3>2. /\ IsFiniteSet(one \cup {x})
            /\ Cardinality(one \cup {x}) = IF x \in one THEN Cardinality(one) ELSE Cardinality(one) + 1
        BY <3>1, FS_AddElement
      <3>3. Cardinality(one \cup {x}) <= 2
        BY <3>1, <3>2
      <3> QED BY <3>2, <3>3 DEF one, x
    <2>5. Amount(requests, Asks(t)) <= 2
      <3> DEFINE two == {2 * i - 1} \cup {2 * i}
      <3>1. /\ Places(requests, Asks(t)) \in SUBSET two
            /\ IsFiniteSet(two) /\ Cardinality(two) <= 2
        BY <2>3, <2>4
      <3> HIDE DEF two
      <3>2. Cardinality(Places(requests, Asks(t))) <= Cardinality(two)
        BY <3>1, FS_Subset
      <3>3. Cardinality(Places(requests, Asks(t))) \in Nat /\ Cardinality(two) \in Nat
        BY <3>1, FS_Subset, FS_CardinalityType
      <3> QED BY <3>1, <3>2, <3>3 DEF Amount
    <2>6. ASSUME NEW j \in 1..Len(requests), j > 2 * i PROVE requests[j] \notin Asks(t)
      <3>1. j \notin {2 * i - 1, 2 * i}
        BY <1>6, <2>6
      <3> QED BY <1>6, <2>2, <3>1 DEF Asks
    <2>7. 2 * i \in 1..Len(requests) /\ requests[2 * i] = Watch(c, t)
      BY <1>3, <1>4, <1>6, <2>1
    <2>8. LastWatches(requests, t, c.sent[t] + 1)
      BY <1>2, <2>6, <2>7 DEF LastWatches
    <2> QED BY <2>5, <2>8
  <1>9. ASSUME NEW t \in Targets \ S, NEW j \in 1..Len(requests) PROVE requests[j].target # t
    <2>1. requests[j].target = order[of(j)] /\ order[of(j)] \in S
      BY <1>1, <1>3, <1>6, <1>7 DEF n
    <2> QED BY <2>1
  <1> QED BY <1>6, <1>8, <1>9 DEF requests

\* A global snapshot, after which the targets that were reset are watched anew.
LEMMA SnapshotSound ==
    ASSUME NEW c, Sound(c), IsOpen(c.stream), c.online = "Online",
           NEW order \in Orders(c.resets \cap c.listening),
           NEW d, d = RaiseWatchSnapshot(c, order)
    PROVE  /\ Sound(d) /\ d.stream.closes = c.stream.closes
           /\ d.stream.state = c.stream.state
           /\ \A b : Fresh(c, b) => Fresh(d, b)
  <1> DEFINE changed == {t \in Targets : c.states[t].known /\ Active(c, t)}
             again == {order[i] : i \in DOMAIN order}
             view == [t \in Targets |-> IF t \in changed THEN View(c, t) ELSE c.view[t]]
             states == [t \in Targets |-> [c.states[t] EXCEPT
                !.changes = IF t \in changed THEN {} ELSE @,
                !.due = IF t \in again THEN @ + 2 ELSE @,
                !.kept = IF t \in again THEN c.states[t].current # 0 ELSE @]]
             sent == [t \in Targets |-> IF t \in again THEN c.sent[t] + 1 ELSE c.sent[t]]
             requests == [j \in 1..(2 * Len(order)) |->
                 LET t == order[(j + 1) \div 2]
                 IN  IF j % 2 = 1 THEN Unwatch(c, t) ELSE Watch(c, t)]
             raised == [c EXCEPT !.view = view, !.states = states, !.sent = sent,
                                 !.resets = {}]
  <1>0. c \in Client
    BY DEF Sound, Sane
  <1>1. [c EXCEPT
            !.view = [t \in Targets |-> IF t \in changed THEN View(c, t) ELSE @[t]],
            !.states = [t \in Targets |-> [c.states[t] EXCEPT
                !.changes = IF t \in changed THEN {} ELSE @,
                !.due = IF t \in again THEN @ + 2 ELSE @,
                !.kept = IF t \in again THEN c.states[t].current # 0 ELSE @]],
            !.sent = [t \in Targets |-> IF t \in again THEN @[t] + 1 ELSE @[t]],
            !.resets = {}] = raised
    OBVIOUS
  <1>2. d = IF order = <<>> THEN raised ELSE Send(raised, requests)
    BY Zenon DEF RaiseWatchSnapshot
  <1>3. view \in [Targets -> Shown] /\ \A t \in Targets :
            view[t] = IF t \in changed THEN View(c, t) ELSE c.view[t]
    BY <1>0 DEF View, Shown, Client
  <1>16. ASSUME NEW t \in Targets
         PROVE  /\ states[t] \in TargetState
                /\ states[t].due = IF t \in again THEN c.states[t].due + 2 ELSE c.states[t].due
                /\ states[t].changes \subseteq c.states[t].changes
                /\ IF t \in again THEN states[t].current = 0 \/ states[t].kept
                   ELSE /\ states[t].current = c.states[t].current
                        /\ c.states[t].kept => states[t].kept
    <2> DEFINE changes == IF t \in changed THEN {} ELSE c.states[t].changes
               due == IF t \in again THEN c.states[t].due + 2 ELSE c.states[t].due
               kept == IF t \in again THEN c.states[t].current # 0 ELSE c.states[t].kept
               x == [c.states[t] EXCEPT !.changes = changes, !.due = due]
               y == [x EXCEPT !.kept = kept]
    <2>1. states[t] = y
      OBVIOUS
    <2>10. /\ c.states[t] \in TargetState /\ c.states[t].changes \in SUBSET Nat
           /\ c.states[t].due \in Int /\ c.states[t].kept \in BOOLEAN
      BY <1>0, EnsuredType
    <2>11. due \in Int
      BY <2>10
    <2>12. changes \in SUBSET Nat
      BY <2>10
    <2>13. kept \in BOOLEAN
      <3> HIDE DEF again
      <3> QED BY <2>10, Zenon
    <2>2. /\ c.states[t] \in TargetState /\ changes \in SUBSET Nat /\ due \in Int
          /\ kept \in BOOLEAN
      BY <2>10, <2>11, <2>12, <2>13
    <2>3. /\ changes \subseteq c.states[t].changes
          /\ t \in again => kept \/ c.states[t].current = 0
          /\ t \notin again => (c.states[t].kept => kept)
      OBVIOUS
    <2> HIDE DEF changes, kept, states
    <2>4. x \in TargetState
      <3> HIDE DEF due
      <3> QED BY <2>2, SetTarget, Zenon
    <2>5. x.due = due /\ x.changes = changes /\ x.current = c.states[t].current
      <3> HIDE DEF due
      <3> QED BY <2>2 DEF TargetState
    <2> HIDE DEF x
    <2>6. y \in TargetState
      BY <2>2, <2>4, SetTarget, Zenon
    <2>7. /\ y.due = x.due /\ y.changes = x.changes /\ y.current = x.current
          /\ y.kept = kept
      BY <2>4 DEF TargetState
    <2> HIDE DEF y, again
    <2>8. t \in again => y.current = 0 \/ y.kept
      BY <2>3, <2>5, <2>7, Zenon
    <2>9. t \notin again => y.current = c.states[t].current /\ (c.states[t].kept => y.kept)
      BY <2>3, <2>5, <2>7, Zenon
    <2> QED BY <2>1, <2>3, <2>5, <2>6, <2>7, <2>8, <2>9
  <1>4. states \in [Targets -> TargetState]
    <2>1. states = [t \in Targets |-> states[t]]
      OBVIOUS
    <2> HIDE DEF states
    <2> QED BY <1>16, <2>1
  <1>5. sent \in [Targets -> Nat]
    BY <1>0 DEF Client
  <1>13. /\ c.resets \cap c.listening \in SUBSET Targets
         /\ again = c.resets \cap c.listening /\ again \subseteq c.listening
    <2>1. c.resets \cap c.listening \in SUBSET Targets
      BY <1>0 DEF Client
    <2>2. DOMAIN order = 1..Len(order) /\ \A i \in 1..Len(order) : order[i] \in c.resets \cap c.listening
      BY <2>1, OrdersAreSequences
    <2>3. \A t \in c.resets \cap c.listening : \E i \in 1..Len(order) : order[i] = t
      BY <2>1, OrdersAreOnto
    <2> QED BY <2>1, <2>2, <2>3
  <1>6. /\ requests \in Seq(Request)
        /\ \A t \in again : /\ Amount(requests, Asks(t)) <= 2
                            /\ LastWatches(requests, t, c.sent[t] + 1)
        /\ \A t \in Targets \ again : \A j \in 1..Len(requests) : requests[j].target # t
    <2>1. requests = WatchesAgain(c, order)
      BY DEF WatchesAgain
    <2> HIDE DEF requests, again
    <2> QED BY <1>0, <1>13, <2>1, AllWatchedAgain
  <1>14. \A t \in Targets :
             /\ states[t].due = IF t \in again THEN c.states[t].due + 2 ELSE c.states[t].due
             /\ states[t].changes \subseteq c.states[t].changes
             /\ sent[t] = IF t \in again THEN c.sent[t] + 1 ELSE c.sent[t]
    <2>1. \A t \in Targets : sent[t] = IF t \in again THEN c.sent[t] + 1 ELSE c.sent[t]
      OBVIOUS
    <2> HIDE DEF states, sent, again
    <2> QED BY <1>16, <2>1
  <1>7. \A t \in changed : t \in c.listening /\ View(c, t) # "absent"
    BY DEF Active, View
  <1> HIDE DEF view, states, sent, requests, changed, again
  <1>8. raised \in Client
    BY <1>0, <1>3, <1>4, <1>5, SetClient, Values, Zenon
  <1>9. /\ raised.network = c.network /\ raised.stream = c.stream
        /\ raised.listening = c.listening /\ raised.aggregating = c.aggregating
        /\ raised.online = c.online /\ raised.failures = c.failures
        /\ raised.timer = c.timer /\ raised.failed = c.failed
        /\ raised.view = view /\ raised.states = states /\ raised.sent = sent
    BY <1>0 DEF Client
  <1> HIDE DEF raised
  <1>10. Sound(raised)
    BY <1>3, <1>7, <1>8, <1>9 DEF Sound, Sane, Linked, ShownSane
  <1>15. ASSUME NEW some \in Seq(Request), order = <<>> => some = <<>>,
                order # <<>> => some = requests, NEW e \in Client,
                e.states = states, e.sent = sent, e.listening = c.listening,
                e.stream.state = c.stream.state, e.stream.up = c.stream.up \o some,
                e.stream.down = c.stream.down, NEW b, Fresh(c, b)
         PROVE  Fresh(e, b)
    <2>1. order = <<>> => again = {}
      BY DEF again
    <2>2. ASSUME NEW t \in Targets, t \notin again PROVE OthersAsked(c, e, t, some)
      <3>1. \A i \in 1..Len(some) : some[i].target # t
        <4>1. CASE order = <<>>
          BY <1>15, <4>1
        <4>2. CASE order # <<>>
          BY <1>6, <1>15, <2>2, <4>2
        <4> QED BY <4>1, <4>2
      <3> QED BY <1>14, <1>15, <2>2, <3>1 DEF OthersAsked
    <2>3. ASSUME NEW t \in Targets, t \in again PROVE OwnAsked(c, e, t, some, 2)
      <3>1. some = requests
        BY <1>15, <2>1, <2>3
      <3>2. e.sent[t] = c.sent[t] + 1 /\ e.states[t].due = c.states[t].due + 2
            /\ e.states[t].changes \subseteq c.states[t].changes
        BY <1>14, <1>15, <2>3
      <3> QED BY <1>6, <2>3, <3>1, <3>2 DEF OwnAsked
    <2>4. 2 \in Nat \ {0}
      OBVIOUS
    <2>5. \A t \in Targets : \/ OthersAsked(c, e, t, some)
                             \/ \E k \in Nat \ {0} : OwnAsked(c, e, t, some, k)
      BY <2>2, <2>3, <2>4
    <2>6. MarksStay(c, e)
      <3> SUFFICES ASSUME NEW t \in Targets, Marked(c, t) PROVE Marked(e, t)
        BY DEF MarksStay
      <3>1. e.states[t] = states[t] /\ e.sent[t] = sent[t]
        BY <1>15
      <3>2. CASE t \in again
        BY <1>16, <3>1, <3>2 DEF Marked
      <3>3. CASE t \notin again
        BY <1>14, <1>16, <3>1, <3>3 DEF Marked
      <3> QED BY <3>2, <3>3
    <2> QED BY <1>0, <1>15, <2>5, <2>6, FreshSent
  <1>11. CASE order = <<>>
    <2>1. d = raised
      BY <1>2, <1>11
    <2>2. c.stream.up \in Seq(Request)
      BY <1>0 DEF Client, StreamType
    <2> DEFINE some == <<>>
    <2>3. some \in Seq(Request) /\ c.stream.up = c.stream.up \o some /\ some = <<>>
      BY <2>2
    <2> HIDE DEF some
    <2>4. \A b : Fresh(c, b) => Fresh(raised, b)
      BY <1>8, <1>9, <1>11, <1>15, <2>3
    <2> QED BY <1>9, <1>10, <2>1, <2>4
  <1>12. CASE order # <<>>
    <2>1. d = Send(raised, requests)
      BY <1>2, <1>12
    <2>2. /\ Sane(d) /\ SameTargets(raised, d) /\ d.aggregating = raised.aggregating
          /\ d.online = raised.online /\ d.timer = raised.timer
          /\ d.stream.closes = raised.stream.closes /\ d.stream.state = raised.stream.state
          /\ d.stream.up = raised.stream.up \o requests /\ d.stream.down = raised.stream.down
      <3>0. requests \in Seq(Request)
        BY <1>6
      <3>1. /\ raised \in Client /\ ~raised.failed /\ StreamSane(raised.stream)
            /\ ShownSane(raised) /\ IsOpen(raised.stream)
        BY <1>9, <1>10 DEF Sound, Sane
      <3> QED BY <2>1, <3>0, <3>1, SendSane
    <2>3. Sound(d) /\ d.stream.closes = c.stream.closes /\ d.stream.state = c.stream.state
      BY <1>9, <1>10, <2>2 DEF Sound, Linked, SameTargets, IsOpen, IsStarted
    <2>4. /\ d \in Client /\ d.states = states /\ d.sent = sent /\ d.listening = c.listening
          /\ d.stream.up = c.stream.up \o requests /\ d.stream.down = c.stream.down
      BY <1>9, <2>2, <2>3 DEF Sound, Sane, SameTargets
    <2>5. \A b : Fresh(c, b) => Fresh(d, b)
      BY <1>6, <1>12, <1>15, <2>3, <2>4
    <2> QED BY <2>3, <2>5
  <1> QED BY <1>11, <1>12

\* A response that was read is still counted, and a change that is taken came for
\* the latest watch.
Counted(c, t, m) ==
    m \in Replies(t) =>
        c.states[t].due - 1 >= Amount(c.stream.up, Asks(t)) + Amount(c.stream.down, Replies(t))

Aims(c, t, m) == m.kind \in OfListen /\ m.target = t /\ Active(c, t) => m.number = c.sent[t]

\* What is known of a message once it is read.
LEMMA MessageRead ==
    ASSUME NEW c \in Client, IsOpen(c.stream), c.stream.down # <<>>, NEW b, Fresh(c, b), NEW r,
           r.stream.down = Tail(c.stream.down), r.stream.up = c.stream.up,
           r.stream.state = c.stream.state, r.listening = c.listening, r.states = c.states,
           r.sent = c.sent, NEW m, m = Head(c.stream.down)
    PROVE  /\ Fresh(r, b)
           /\ m.kind \in OfTarget => (m.kind = "rejected" <=> m.target \in Refused)
           /\ \A t \in Targets \ Refused : Tracked(r, b, t) /\ Counted(r, t, m) /\ Aims(r, t, m)
  <1>1. c.stream.up \in Seq(Request) /\ c.stream.down \in Seq(Message) /\ IsOpen(r.stream)
    BY DEF Client, StreamType, IsOpen
  <1> DEFINE down == c.stream.down
             rest == Tail(down)
  <1>2. /\ Len(rest) = Len(down) - 1 /\ Len(down) \in Nat /\ Len(down) > 0 /\ m = down[1]
        /\ \A i \in 1..Len(rest) : i + 1 \in 1..Len(down) /\ rest[i] = down[i + 1]
    BY <1>1
  <1> HIDE DEF rest
  <1>3. /\ ToldRight(r.stream.down)
        /\ m.kind \in OfTarget => (m.kind = "rejected" <=> m.target \in Refused)
    <2>1. ToldRight(down)
      BY DEF Fresh
    <2>2. 1 \in 1..Len(down) /\ r.stream.down = rest
      BY <1>2 DEF rest
    <2> HIDE DEF down
    <2> QED BY <1>2, <2>1, <2>2 DEF ToldRight
  <1>4. \A t \in Refused : Untold(r, b, t)
    BY DEF Fresh, Untold
  <1>5. ASSUME NEW t \in Targets \ Refused
        PROVE  Tracked(r, b, t) /\ Counted(r, t, m) /\ Aims(r, t, m)
    <2> DEFINE on == t \in c.listening
    <2>1. on \in BOOLEAN /\ t \in Targets /\ c.states[t].due \in Int
      BY DEF Client, TargetState
    <2>2. Fits(t, on, c.states[t].due, c.states[t].changes, c.sent[t],
               c.stream.up, c.stream.down, b.watching[t].number)
      BY DEF Fresh, Tracked
    <2> HIDE DEF on, down
    <2>3. /\ Fits(t, on, c.states[t].due, c.states[t].changes, c.sent[t],
                  c.stream.up, Tail(c.stream.down), b.watching[t].number)
          /\ Head(c.stream.down) \in Replies(t) => c.states[t].due - 1 >=
                 Amount(c.stream.up, Asks(t)) + Amount(Tail(c.stream.down), Replies(t))
          /\ Head(c.stream.down).kind \in OfListen /\ Head(c.stream.down).target = t
             /\ on /\ c.states[t].due = 0 => Head(c.stream.down).number = c.sent[t]
      <3> HIDE DEF rest
      <3> QED BY <1>1, <2>1, <2>2, OneRead, Zenon
    <2> QED BY <2>3 DEF on, Tracked, Counted, Aims, Active
  <1>6. \A t \in Targets : Marked(r, t)
    BY DEF Fresh, Marked
  <1> QED BY <1>1, <1>3, <1>4, <1>5, <1>6 DEF Fresh

\* Whatever answer is read, the client is sound after it.
LEMMA AnswerSound ==
    ASSUME NEW c, Sound(c), c.stream.down # <<>>,
           NEW order \in Orders(c.resets \cap c.listening),
           NEW d, d = OnWatchStreamChange(c, order)
    PROVE  /\ Sound(d) /\ d.stream.closes = c.stream.closes
           /\ d.stream.state = c.stream.state
           /\ \A b : Fresh(c, b) => Fresh(d, b)
  <1> DEFINE m == Head(c.stream.down)
             rest == Tail(c.stream.down)
             q == [c EXCEPT !.stream.down = rest]
             r == UpdateState(q, "Online")
  <1>0. /\ c \in Client /\ c.stream \in StreamType /\ IsOpen(c.stream)
        /\ c.aggregating
    BY DEF Sound, Sane, Linked, StreamSane, Client, IsOpen, IsStarted
  <1>1. HardAssert(c, c.aggregating) = c
    BY <1>0, AssertHolds DEF Sound, Sane
  <1>2. m \in Message /\ rest \in Seq(Message)
    BY <1>0 DEF StreamType
  <1>3. d = CASE m.kind = "rejected" -> ProcessTargetError(r, m.target)
              [] m.kind = "added" -> Added(r, m.target)
              [] m.kind = "removed" -> Removed(r, m.target)
              [] m.kind = "current" -> Current(r, m.target, m.number)
              [] m.kind = "change" -> Change(r, m.target, m.number)
              [] m.kind = "filter" -> Mismatch(r, m.target)
              [] OTHER -> RaiseWatchSnapshot(r, order)
    <2>1. UpdateState([HardAssert(c, c.aggregating) EXCEPT
                           !.stream.down = Tail(@)], "Online") = r
      BY <1>1
    <2> HIDE DEF r
    <2> QED BY <2>1 DEF OnWatchStreamChange
  <1> HIDE DEF rest, m
  <1>4. q \in Client
    BY <1>0, <1>2, SetBoth, Zenon
  <1>5. q.stream = [c.stream EXCEPT !.down = rest]
    BY <1>0 DEF Client
  <1>6. /\ SameTargets(c, q) /\ q.aggregating = c.aggregating
        /\ q.online = c.online /\ q.failures = c.failures /\ q.timer = c.timer
        /\ q.view = c.view
    BY <1>0 DEF Client, SameTargets
  <1> HIDE DEF q
  <1>7. /\ q.stream.closes = c.stream.closes /\ q.stream.state = c.stream.state
        /\ q.stream.up = c.stream.up /\ q.stream.idle = c.stream.idle
        /\ q.stream.asked = c.stream.asked /\ q.stream.backoff = c.stream.backoff
        /\ q.stream.down = rest
    BY <1>5, <1>0 DEF StreamType
  <1>8. Sane(q)
    BY <1>0, <1>4, <1>6, <1>7 DEF Sound, Sane, StreamSane, ShownSane, SameTargets, IsOpen
  <1>9. /\ Sane(r) /\ r.online = "Online" /\ ~r.timer /\ SameTargets(q, r)
        /\ r.aggregating = q.aggregating /\ r.stream = q.stream
    BY <1>8, UpdateSane, Values
  <1> HIDE DEF r
  <1>10. /\ Sound(r) /\ IsOpen(r.stream) /\ r.stream.closes = c.stream.closes
         /\ r.stream.state = c.stream.state /\ r.resets = c.resets
         /\ r.listening = c.listening /\ r.states = c.states /\ r.sent = c.sent
         /\ r.stream.up = c.stream.up /\ r.stream.down = rest
    BY <1>0, <1>6, <1>7, <1>9 DEF Sound, Linked, SameTargets, IsOpen, IsStarted
  <1>13. ASSUME NEW b, Fresh(c, b)
         PROVE  /\ Fresh(r, b)
                /\ m.kind \in OfTarget => (m.kind = "rejected" <=> m.target \in Refused)
                /\ \A t \in Targets \ Refused : /\ Tracked(r, b, t) /\ Counted(r, t, m)
                                                /\ Aims(r, t, m)
    BY <1>0, <1>10, <1>13, MessageRead DEF m, rest
  <1>11. CASE m.kind \in OfTarget
    <2>1. m.target \in Targets /\ m.number \in Nat
      BY <1>2, <1>11 DEF Message, OfTarget
    <2>2. Sound(d) /\ d.stream = r.stream
      <3>1. CASE m.kind = "rejected"
        BY <1>3, <1>10, <2>1, <3>1, RejectedSound
      <3>2. CASE m.kind = "added"
        BY <1>3, <1>10, <2>1, <3>2, AddedSound
      <3>3. CASE m.kind = "removed"
        BY <1>3, <1>10, <2>1, <3>3, RemovedSound
      <3>4. CASE m.kind = "current"
        BY <1>3, <1>10, <2>1, <3>4, CurrentSound
      <3>5. CASE m.kind = "change"
        BY <1>3, <1>10, <2>1, <3>5, ChangeSound
      <3>6. CASE m.kind = "filter"
        BY <1>3, <1>10, <2>1, <3>6, MismatchSound
      <3> QED BY <1>11, <3>1, <3>2, <3>3, <3>4, <3>5, <3>6 DEF OfTarget
    <2>3. ASSUME NEW b, Fresh(c, b) PROVE Fresh(d, b)
      <3>1. /\ Fresh(r, b)
            /\ m.kind = "rejected" <=> m.target \in Refused
            /\ \A t \in Targets \ Refused : /\ Tracked(r, b, t) /\ Counted(r, t, m)
                                            /\ Aims(r, t, m)
        BY <1>11, <1>13, <2>3
      <3>2. m.kind \in {"added", "removed"} => m \in Replies(m.target)
        BY <1>2 DEF Replies
      <3>3. CASE m.kind = "rejected"
        BY <1>3, <1>10, <2>1, <3>1, <3>3, RejectedSound
      <3>4. CASE m.kind \in {"added", "removed"}
        <4>1. /\ Restated(r, d, m.target, r.states[m.target].due - 1,
                          IF r.states[m.target].due - 1 = 0 THEN {} ELSE r.states[m.target].changes)
              /\ Marked(r, m.target) => Marked(d, m.target)
          <5>1. CASE m.kind = "added"
            BY <1>3, <1>10, <2>1, <5>1, AddedSound
          <5>2. CASE m.kind = "removed"
            BY <1>3, <1>10, <2>1, <5>2, RemovedSound
          <5> QED BY <3>4, <5>1, <5>2
        <4>2. m.target \in Targets \ Refused
          BY <2>1, <3>1, <3>4
        <4>3. r.states[m.target].due - 1 >=
                  Amount(r.stream.up, Asks(m.target)) + Amount(r.stream.down, Replies(m.target))
          BY <3>1, <3>2, <3>4, <4>2 DEF Counted
        <4> QED BY <1>10, <3>1, <4>1, <4>2, <4>3, FreshRestated
      <3>5. CASE m.kind \in {"current", "change", "filter"}
        <4>1. m.target \in Targets \ Refused
          BY <2>1, <3>1, <3>5
        <4>2. Fits(m.target, m.target \in r.listening, r.states[m.target].due,
                   r.states[m.target].changes, r.sent[m.target], r.stream.up, r.stream.down,
                   b.watching[m.target].number)
          BY <3>1, <4>1 DEF Tracked
        <4>3. CASE m.kind = "current"
          <5>1. Active(r, m.target) => m.number = r.sent[m.target]
            BY <3>1, <4>1, <4>3 DEF Aims, OfListen
          <5>2. /\ Restated(r, d, m.target, r.states[m.target].due, r.states[m.target].changes)
                /\ Marked(r, m.target) => Marked(d, m.target)
            BY <1>3, <1>10, <2>1, <4>3, <5>1, CurrentSound
          <5> QED BY <5>2, <1>10, <3>1, <4>1, <4>2, FreshRestated DEF Fits
        <4>4. CASE m.kind = "change"
          <5>1. /\ ~Active(r, m.target) => d = r
                /\ Active(r, m.target) => Restated(r, d, m.target, r.states[m.target].due,
                                               r.states[m.target].changes \cup {m.number})
                /\ Marked(r, m.target) => Marked(d, m.target)
            <6>1. d = Change(r, m.target, m.number)
              BY <1>3, <4>4
            <6>2. Sound(r) /\ m.target \in Targets /\ m.number \in Nat
              BY <1>10, <2>1
            <6>3. ~Active(r, m.target) => d = r
              BY <6>1 DEF Change
            <6>4. Active(r, m.target) => Restated(r, d, m.target, r.states[m.target].due,
                                              r.states[m.target].changes \cup {m.number})
              BY <6>1, <6>2, ChangeSound
            <6>5. Marked(r, m.target) => Marked(d, m.target)
              BY <6>1, <6>2, ChangeSound
            <6> QED BY <6>3, <6>4, <6>5
          <5>2. CASE Active(r, m.target)
            <6>1. m.number = r.sent[m.target]
              BY <3>1, <4>1, <4>4, <5>2 DEF Aims, OfListen
            <6>2. r.states[m.target].changes \cup {m.number} \subseteq {r.sent[m.target]}
              BY <4>2, <5>2, <6>1 DEF Fits, Active
            <6> QED BY <1>10, <3>1, <4>1, <4>2, <5>1, <5>2, <6>2, FreshRestated DEF Fits
          <5> QED BY <3>1, <5>1, <5>2
        <4>5. CASE m.kind = "filter"
          <5>1. /\ ~Active(r, m.target) => d = r
                /\ Active(r, m.target) => Restated(r, d, m.target, r.states[m.target].due, {})
                /\ Marked(r, m.target) => Marked(d, m.target)
            BY <1>3, <1>10, <2>1, <4>5, MismatchSound
          <5>2. CASE Active(r, m.target)
            BY <1>10, <3>1, <4>1, <4>2, <5>1, <5>2, FreshRestated DEF Fits
          <5> QED BY <3>1, <5>1, <5>2
        <4> QED BY <3>5, <4>3, <4>4, <4>5
      <3> QED BY <1>11, <3>3, <3>4, <3>5 DEF OfTarget
    <2> QED BY <1>10, <2>2, <2>3
  <1>12. CASE m.kind = "snapshot"
    <2>1. d = RaiseWatchSnapshot(r, order)
      BY <1>3, <1>12
    <2>2. /\ Sound(d) /\ d.stream.closes = r.stream.closes /\ d.stream.state = r.stream.state
          /\ \A b : Fresh(r, b) => Fresh(d, b)
      BY <1>9, <1>10, <2>1, SnapshotSound
    <2>3. \A b : Fresh(c, b) => Fresh(r, b)
      BY <1>13
    <2> QED BY <1>10, <2>2, <2>3
  <1> QED BY <1>2, <1>11, <1>12 DEF Message

-----------------------------------------------------------------------------
(* The inductive invariant.  Between two operations the client is sound; a  *)
(* token is asked for by a stream that still waits for it, or was closed    *)
(* meanwhile; and the backend watches, or has something to tell, only while *)
(* the stream is open.                                                      *)

Backend == [watching : [Targets -> [number : Nat, current : BOOLEAN]], news : BOOLEAN]

AskingSafe ==
    \A k \in asking : /\ k \in Nat /\ k <= client.stream.closes
                      /\ k = client.stream.closes => client.stream.state = "Starting"

BackendSafe ==
    /\ backend \in Backend
    /\ backend.news \/ (\E t \in Targets : Watched(t)) => IsOpen(client.stream)

IInv == Sound(client) /\ ~client.stream.asked /\ AskingSafe /\ BackendSafe

\* A new stream's backend watches nothing.
LEMMA NewBackendType ==
    /\ NewBackend \in Backend /\ ~NewBackend.news
    /\ \A t \in Targets : NewBackend.watching[t].number = 0
  BY DEF NewBackend, NotWatched, Backend

\* A step of the client that leaves a stream that starts or is open alone, or
\* closes it.
LEMMA PerformKeeps ==
    ASSUME IInv, NEW d, Sound(d), Follows(client, d), Perform(d)
    PROVE  IInv'
  <1>1. client' = Called(d)
    BY DEF Perform, Called
  <1>2. /\ Sound(client') /\ ~client'.stream.asked
        /\ client'.stream.closes = d.stream.closes /\ client'.stream.state = d.stream.state
    BY <1>1, AskedSound
  <1>3. /\ client.stream.closes \in Nat /\ d.stream.closes \in Nat
        /\ d.stream.asked => d.stream.state = "Starting"
    BY DEF IInv, Sound, Sane, Client, StreamType, StreamSane
  <1>4. AskingSafe'
    <2> SUFFICES ASSUME NEW k \in asking'
                 PROVE  /\ k \in Nat /\ k <= d.stream.closes
                        /\ k = d.stream.closes => d.stream.state = "Starting"
      BY <1>2 DEF AskingSafe
    <2>1. CASE k \in asking
      BY <1>3, <2>1 DEF IInv, AskingSafe, Follows
    <2>2. CASE k \notin asking
      <3>1. d.stream.asked /\ k = d.stream.closes
        BY <2>2 DEF Perform
      <3> QED BY <1>3, <3>1
    <2> QED BY <2>1, <2>2
  <1>5. BackendSafe'
    <2>1. CASE d.stream.closes = client.stream.closes
      <3>1. backend' = backend
        BY <2>1 DEF Perform
      <3>2. IsOpen(client.stream) => d.stream.state = "Open"
        BY <1>3, <2>1 DEF Follows, IsOpen
      <3> QED BY <1>2, <3>1, <3>2 DEF IInv, BackendSafe, Watched, IsOpen
    <2>2. CASE d.stream.closes # client.stream.closes
      <3>1. backend' = NewBackend
        BY <2>2 DEF Perform
      <3> QED BY <3>1, NewBackendType DEF BackendSafe, Watched
    <2> QED BY <2>1, <2>2
  <1> QED BY <1>2, <1>4, <1>5 DEF IInv

\* A token's answer, for the stream that waits for it.
LEMMA AnsweredKeeps ==
    ASSUME IInv, NEW closes \in asking, NEW d, Answered(closes, d),
           ~Stale(client, closes) => Sound(d) /\ d.stream.closes >= client.stream.closes
    PROVE  IInv'
  <1>1. CASE Stale(client, closes)
    <2>1. asking' = asking \ {closes} /\ client' = client /\ backend' = backend
      BY <1>1 DEF Answered
    <2> QED BY <2>1 DEF IInv, AskingSafe, BackendSafe, Watched
  <1>2. CASE ~Stale(client, closes)
    <2>1. /\ client' = Called(d) /\ backend' = NewBackend
          /\ asking' = (asking \ {closes}) \cup
                           (IF d.stream.asked THEN {d.stream.closes} ELSE {})
          /\ closes = client.stream.closes
      BY <1>2 DEF Answered, Called, Stale
    <2>2. /\ Sound(client') /\ ~client'.stream.asked
          /\ client'.stream.closes = d.stream.closes /\ client'.stream.state = d.stream.state
      BY <1>2, <2>1, AskedSound
    <2>3. /\ client.stream.closes \in Nat /\ d.stream.closes \in Nat
          /\ d.stream.asked => d.stream.state = "Starting"
      BY <1>2 DEF IInv, Sound, Sane, Client, StreamType, StreamSane
    <2>4. AskingSafe'
      <3> SUFFICES ASSUME NEW k \in asking'
                   PROVE  /\ k \in Nat /\ k <= d.stream.closes
                          /\ k = d.stream.closes => d.stream.state = "Starting"
        BY <2>2 DEF AskingSafe
      <3>1. CASE k \in asking /\ k # closes
        BY <1>2, <2>1, <2>3, <3>1 DEF IInv, AskingSafe
      <3>2. CASE ~(k \in asking /\ k # closes)
        <4>1. d.stream.asked /\ k = d.stream.closes
          BY <2>1, <3>2
        <4> QED BY <2>3, <4>1
      <3> QED BY <3>1, <3>2
    <2>5. BackendSafe'
      BY <2>1, NewBackendType DEF BackendSafe, Watched
    <2> QED BY <2>2, <2>4, <2>5 DEF IInv
  <1> QED BY <1>1, <1>2

\* Requests and messages move on an open stream.
Moved(c, up, down) == [c EXCEPT !.stream.up = up, !.stream.down = down]

\* The client does not notice what moves on the stream.
LEMMA MovedSound ==
    ASSUME NEW c, Sound(c), IsOpen(c.stream), NEW up \in Seq(Request),
           NEW down \in Seq(Message), NEW d, d = Moved(c, up, down)
    PROVE  /\ Sound(d) /\ d.stream.closes = c.stream.closes
           /\ d.stream.state = c.stream.state /\ d.stream.asked = c.stream.asked
           /\ SameTargets(c, d) /\ d.stream.up = up /\ d.stream.down = down
  <1>1. c \in Client /\ c.stream \in StreamType
    BY DEF Sound, Sane, Client
  <1>2. Moved(c, up, down) \in Client
    BY <1>1, SetBoth, Zenon DEF Moved
  <1>3. d.stream = [c.stream EXCEPT !.up = up, !.down = down]
    BY <1>1 DEF Client, Moved
  <1>4. /\ d.stream.closes = c.stream.closes /\ d.stream.state = c.stream.state
        /\ d.stream.idle = c.stream.idle /\ d.stream.asked = c.stream.asked
        /\ d.stream.backoff = c.stream.backoff
        /\ d.stream.up = up /\ d.stream.down = down
    BY <1>1, <1>3 DEF StreamType
  <1>5. /\ SameTargets(c, d) /\ d.aggregating = c.aggregating
        /\ d.online = c.online /\ d.failures = c.failures /\ d.timer = c.timer
        /\ d.view = c.view
    BY <1>1 DEF Client, SameTargets, Moved
  <1> QED BY <1>2, <1>4, <1>5
          DEF Sound, Sane, Linked, StreamSane, ShownSane, SameTargets, IsOpen, IsStarted

\* What the backend takes and sends keeps the invariant.
LEMMA MovedKeeps ==
    ASSUME IInv, IsOpen(client.stream), NEW up \in Seq(Request), NEW down \in Seq(Message),
           client' = Moved(client, up, down), asking' = asking, backend' \in Backend
    PROVE  IInv'
  <1>1. /\ Sound(client') /\ client'.stream.closes = client.stream.closes
        /\ client'.stream.state = client.stream.state
        /\ client'.stream.asked = client.stream.asked
    BY MovedSound DEF IInv
  <1> QED BY <1>1 DEF IInv, AskingSafe, BackendSafe, IsOpen

\* The backend tells of a target it watches.
LEMMA TellKeeps ==
    ASSUME IInv, NEW t \in Targets, Watched(t), NEW kind \in OfTarget, Tell(kind, t),
           asking' = asking, backend' \in Backend
    PROVE  IInv'
  <1> DEFINE m == [kind |-> kind, target |-> t, number |-> backend.watching[t].number]
             down == Append(client.stream.down, m)
  <1>1. client \in Client /\ client.stream \in StreamType /\ IsOpen(client.stream)
    BY DEF IInv, Sound, Sane, Client, BackendSafe
  <1>2. m \in Message
    BY DEF IInv, BackendSafe, Backend, Message
  <1> HIDE DEF m
  <1>3. client.stream.up \in Seq(Request) /\ client.stream.down \in Seq(Message)
    BY <1>1 DEF StreamType
  <1>4. down \in Seq(Message)
    BY <1>2, <1>3
  <1>5. client' = [client EXCEPT !.stream.down = down]
    BY DEF Tell, m
  <1> HIDE DEF down
  <1>6. client' = Moved(client, client.stream.up, down)
    BY <1>1, <1>5 DEF Moved, Client, StreamType
  <1> QED BY <1>1, <1>3, <1>4, <1>6, MovedKeeps

-----------------------------------------------------------------------------
(* The actions. *)

\* The invariant holds at first.
LEMMA InitHolds == ASSUME Init PROVE IInv
  <1> DEFINE none == [t \in Targets |-> 0]
             unseen == [t \in Targets |-> "absent"]
             c == [network |-> FALSE, stream |-> NewStream, listening |-> {},
                   aggregating |-> FALSE, states |-> NoStates, resets |-> {},
                   sent |-> none, view |-> unseen,
                   online |-> "Unknown", failures |-> 0, timer |-> FALSE, failed |-> FALSE]
  <1>1. none \in [Targets -> Nat] /\ unseen \in [Targets -> Shown]
        /\ \A t \in Targets : unseen[t] = "absent"
    BY DEF Shown
  <1>2. client = EnableNetworkInternal(c) /\ asking = {} /\ backend = NewBackend
    BY DEF Init
  <1> HIDE DEF none, unseen
  <1>3. /\ NewStream \in StreamType /\ NewStream.state = "Initial" /\ ~NewStream.asked
        /\ StreamSane(NewStream) /\ ~IsStarted(NewStream) /\ ~NewStream.idle
    BY DEF NewStream, StreamType, StreamState, StreamSane, IsStarted, IsOpen
  <1>4. c \in Client
    BY <1>1, <1>3, Values DEF Client, OnlineState
  <1>5. Sound(c)
    BY <1>1, <1>3, <1>4 DEF Sound, Sane, Linked, ShownSane, IsOpen
  <1>6. ~client.stream.asked
    <2>1. ~ShouldStartWatchStream([c EXCEPT !.network = TRUE])
      BY DEF ShouldStartWatchStream
    <2> DEFINE on == [c EXCEPT !.network = TRUE]
    <2>2. client = UpdateState(on, "Unknown")
      BY <1>2, <2>1 DEF EnableNetworkInternal
    <2>3. Sane(on) /\ on.stream = c.stream
      BY <1>5, SwitchSane DEF Sound
    <2> HIDE DEF on
    <2>4. client.stream = on.stream
      BY <2>2, <2>3, UpdateSane, Values
    <2> QED BY <1>3, <2>3, <2>4
  <1> HIDE DEF c
  <1>7. Sound(client)
    BY <1>2, <1>5, EnableSound
  <1>8. BackendSafe
    BY <1>2, NewBackendType DEF BackendSafe, Watched
  <1> QED BY <1>2, <1>6, <1>7, <1>8 DEF IInv, AskingSafe

\* A token arrives.
LEMMA TokenArrivesKeeps ==
    ASSUME IInv, NEW closes \in asking, TokenArrives(closes) PROVE IInv'
  <1>1. PICK order \in Orders(client.listening) :
            Answered(closes, OnWatchStreamOpen(Open(client, "user"), order))
    BY DEF TokenArrives
  <1> DEFINE d == OnWatchStreamOpen(Open(client, "user"), order)
  <1>2. ASSUME ~Stale(client, closes)
        PROVE  Sound(d) /\ d.stream.closes >= client.stream.closes
    <2>1. client.stream.state = "Starting"
      BY <1>2 DEF IInv, AskingSafe, Stale
    <2>2. Sound(d) /\ d.stream.closes = client.stream.closes
      BY <2>1, OpenSound DEF IInv
    <2>3. client.stream.closes \in Nat
      BY DEF IInv, Sound, Sane, Client, StreamType
    <2> QED BY <2>2, <2>3
  <1> HIDE DEF d
  <1> QED BY <1>1, <1>2, AnsweredKeeps DEF d

\* A token could not be had.
LEMMA TokenFailsKeeps ==
    ASSUME IInv, NEW closes \in asking, TokenFails(closes) PROVE IInv'
  <1> DEFINE d == Close(HardAssert(client, client.stream.state = "Starting"), "transient")
  <1>1. ASSUME ~Stale(client, closes)
        PROVE  Sound(d) /\ d.stream.closes >= client.stream.closes
    <2>1. client.stream.state = "Starting"
      BY <1>1 DEF IInv, AskingSafe, Stale
    <2>2. d = Close(client, "transient")
      BY <2>1, AssertHolds DEF IInv, Sound, Sane
    <2> HIDE DEF d
    <2>3. Sound(d) /\ d.stream.closes = client.stream.closes + 1
      BY <2>1, <2>2, CloseSound DEF IInv, Sound, IsStarted
    <2>4. client.stream.closes \in Nat
      BY DEF IInv, Sound, Sane, Client, StreamType
    <2> QED BY <2>3, <2>4
  <1>2. Answered(closes, d)
    BY DEF TokenFails
  <1> HIDE DEF d
  <1> QED BY <1>1, <1>2, AnsweredKeeps

\* A stream that is closed, and perhaps started again.
LEMMA CloseKeeps ==
    ASSUME IInv, IsStarted(client.stream), NEW status,
           status = "ok" => ~(client.network /\ client.listening # {}),
           Perform(Close(client, status))
    PROVE  IInv'
  <1> DEFINE d == Close(client, status)
  <1>1. Sound(d) /\ d.stream.closes = client.stream.closes + 1
    BY CloseSound DEF IInv, Sound
  <1>2. client.stream.closes \in Nat
    BY DEF IInv, Sound, Sane, Client, StreamType
  <1> HIDE DEF d
  <1>3. Follows(client, d)
    BY <1>1, <1>2 DEF Follows
  <1> QED BY <1>1, <1>3, PerformKeeps DEF d

\* The timer of the online state elapses.
LEMMA TimerKeeps == ASSUME IInv, RunOnlineStateTimer PROVE IInv'
  <1> DEFINE b == [client EXCEPT !.timer = FALSE]
             d == Broadcast(b, "Offline")
  <1>0. client \in Client /\ client.online = "Unknown"
    BY DEF IInv, Sound, Sane, ShownSane, RunOnlineStateTimer
  <1>1. HardAssert(client, client.online = "Unknown") = client
    BY <1>0, AssertHolds DEF IInv, Sound, Sane
  <1>2. Perform(d)
    BY <1>1 DEF RunOnlineStateTimer
  <1>3. b \in Client
    BY <1>0, SetClient, Values, Zenon
  <1>4. /\ SameTargets(client, b) /\ b.aggregating = client.aggregating
        /\ b.stream = client.stream /\ b.view = client.view
        /\ b.online = client.online /\ b.timer = FALSE
    BY <1>0 DEF Client, SameTargets
  <1> HIDE DEF b
  <1>5. /\ d \in Client /\ d.online = "Offline" /\ SameTargets(b, d)
        /\ d.aggregating = b.aggregating /\ d.stream = b.stream /\ d.timer = b.timer
        /\ \A t \in Targets : d.view[t] =
               IF b.online # "Offline" /\ b.view[t] # "absent"
               THEN "cached" ELSE b.view[t]
    BY <1>3, BroadcastView, Values
  <1> HIDE DEF d
  <1>6. Sound(d)
    BY <1>0, <1>4, <1>5 DEF IInv, Sound, Sane, Linked, ShownSane, SameTargets
  <1>7. Follows(client, d)
    BY <1>4, <1>5 DEF Follows
  <1> QED BY <1>2, <1>6, <1>7, PerformKeeps

\* An answer is read.
LEMMA RunAnswerKeeps == ASSUME IInv, RunAnswer PROVE IInv'
  <1>1. PICK order \in Orders(client.resets \cap client.listening) :
            Perform(OnWatchStreamChange(client, order))
    BY DEF RunAnswer
  <1> DEFINE d == OnWatchStreamChange(client, order)
  <1>2. /\ Sound(d) /\ d.stream.closes = client.stream.closes
        /\ d.stream.state = client.stream.state
    BY AnswerSound DEF IInv, RunAnswer
  <1> HIDE DEF d
  <1> QED BY <1>1, <1>2, PerformKeeps DEF Follows, d

\* The app turns the network off.
LEMMA DisableKeeps == ASSUME IInv, DisableNetwork PROVE IInv'
  <1> DEFINE off == DisableNetworkInternal(client)
             d == UpdateState(off, "Offline")
  <1>1. Sound(off) /\ Follows(client, off)
    BY DisableSound DEF IInv
  <1> HIDE DEF off
  <1>2. Sound(d) /\ d.stream = off.stream
    BY <1>1, UpdateSound, Values
  <1>3. Follows(client, d)
    BY <1>1, <1>2 DEF Follows
  <1>4. Perform(d)
    BY DEF DisableNetwork, off
  <1> HIDE DEF d
  <1> QED BY <1>2, <1>3, <1>4, PerformKeeps

\* The backend takes up a request.
LEMMA BackendTakesKeeps == ASSUME IInv, BackendTakes PROVE IInv'
  <1> DEFINE r == Head(client.stream.up)
             kind == IF r.kind = "unwatch" THEN "removed"
                     ELSE IF r.target \in Refused THEN "rejected" ELSE "added"
             silent == r.kind = "unwatch" /\ backend.watching[r.target] = NotWatched
             m == [kind |-> kind, target |-> r.target, number |-> r.number]
             down == IF silent THEN client.stream.down ELSE Append(client.stream.down, m)
             up == Tail(client.stream.up)
             now == IF kind = "added" THEN [number |-> r.number, current |-> FALSE]
                    ELSE NotWatched
  <1>1. /\ client \in Client /\ client.stream \in StreamType /\ client.stream.up # <<>>
        /\ IsOpen(client.stream)
    BY DEF IInv, Sound, Sane, Client, StreamSane, BackendTakes
  <1>2. r \in Request /\ up \in Seq(Request) /\ client.stream.down \in Seq(Message)
    BY <1>1 DEF StreamType
  <1>3. client' = [client EXCEPT !.stream.up = up, !.stream.down = down]
    BY <1>1 DEF BackendTakes, Client, StreamType
  <1>4. backend' = [watching |-> [backend.watching EXCEPT ![r.target] = now],
                    news |-> backend.news \/ kind = "added"]
    BY DEF BackendTakes
  <1> HIDE DEF r, up
  <1>5. down \in Seq(Message)
    <2>1. kind \in OfTarget
      BY DEF OfTarget
    <2> HIDE DEF kind
    <2>2. m \in Message
      BY <1>2, <2>1 DEF Request, Message
    <2> HIDE DEF m, silent
    <2> QED BY <1>2, <2>2
  <1>6. backend' \in Backend
    <2>1. now \in [number : Nat, current : BOOLEAN]
      BY <1>2 DEF Request, NotWatched
    <2>2. (backend.news \/ kind = "added") \in BOOLEAN
      OBVIOUS
    <2> HIDE DEF now, kind
    <2> QED BY <1>4, <2>1, <2>2 DEF IInv, BackendSafe, Backend
  <1> HIDE DEF down
  <1> QED BY <1>1, <1>2, <1>3, <1>5, <1>6, MovedKeeps DEF Moved, BackendTakes

\* The backend ends a snapshot.
LEMMA BackendSnapshotKeeps == ASSUME IInv, BackendSnapshot PROVE IInv'
  <1> DEFINE m == [kind |-> "snapshot"]
             down == Append(client.stream.down, m)
  <1>1. client \in Client /\ client.stream \in StreamType /\ IsOpen(client.stream)
    BY DEF IInv, Sound, Sane, Client, BackendSafe, BackendSnapshot
  <1>2. m \in Message
    BY DEF Message
  <1>3. client' = [client EXCEPT !.stream.down = down]
    BY DEF BackendSnapshot
  <1> HIDE DEF m
  <1>4. client.stream.up \in Seq(Request) /\ down \in Seq(Message)
    BY <1>1, <1>2 DEF StreamType
  <1> HIDE DEF down
  <1>5. client' = Moved(client, client.stream.up, down)
    BY <1>1, <1>3 DEF Moved, Client, StreamType
  <1>6. backend' \in Backend /\ asking' = asking
    BY DEF IInv, BackendSafe, Backend, BackendSnapshot
  <1> QED BY <1>1, <1>4, <1>5, <1>6, MovedKeeps

\* Every step keeps the invariant.
LEMMA StepKeeps == ASSUME IInv, [Next]_vars PROVE IInv'
  <1>1. ASSUME NEW t \in Targets, AppListens(t) PROVE IInv'
    <2> DEFINE d == Listen(client, t)
    <2>1. Sound(d) /\ Follows(client, d)
      BY <1>1, ListenSound DEF IInv, AppListens
    <2> HIDE DEF d
    <2> QED BY <1>1, <2>1, PerformKeeps DEF AppListens, d
  <1>2. ASSUME NEW t \in Targets, AppStops(t) PROVE IInv'
    <2> DEFINE d == StopListening(client, t)
    <2>1. Sound(d) /\ Follows(client, d)
      BY <1>2, StopSound DEF IInv, AppStops
    <2> HIDE DEF d
    <2> QED BY <1>2, <2>1, PerformKeeps DEF AppStops, d
  <1>3. ASSUME NEW t \in Targets, BackendIsCurrent(t) PROVE IInv'
    <2>1. backend' \in Backend /\ asking' = asking
      BY <1>3 DEF IInv, BackendSafe, Backend, BackendIsCurrent
    <2> QED BY <1>3, <2>1, TellKeeps DEF BackendIsCurrent, OfTarget
  <1>4. ASSUME NEW t \in Targets, BackendChanges(t) PROVE IInv'
    <2>1. backend' \in Backend /\ asking' = asking
      BY <1>4 DEF IInv, BackendSafe, Backend, BackendChanges
    <2> QED BY <1>4, <2>1, TellKeeps DEF BackendChanges, OfTarget
  <1>5. ASSUME NEW t \in Targets, BackendFilters(t) PROVE IInv'
    <2>1. backend' \in Backend /\ asking' = asking
      BY <1>5 DEF IInv, BackendSafe, Backend, BackendFilters
    <2> QED BY <1>5, <2>1, TellKeeps DEF BackendFilters, OfTarget
  <1>6. CASE RunBackoff
    <2> DEFINE d == EndBackoff(client)
    <2>1. Sound(d) /\ Follows(client, d)
      BY <1>6, EndBackoffSound DEF IInv, RunBackoff
    <2> HIDE DEF d
    <2> QED BY <1>6, <2>1, PerformKeeps DEF RunBackoff, d
  <1>7. CASE RunIdle
    <2>1. IsStarted(client.stream) /\ client.listening = {}
      BY <1>7 DEF IInv, Sound, Sane, StreamSane, IsOpen, IsStarted, RunIdle
    <2> QED BY <1>7, <2>1, CloseKeeps DEF RunIdle
  <1>8. CASE StreamBreaks
    <2>1. IsStarted(client.stream)
      BY <1>8 DEF StreamBreaks, IsOpen, IsStarted
    <2> QED BY <1>8, <2>1, CloseKeeps DEF StreamBreaks
  <1>9. CASE NetworkRestarts
    <2> DEFINE d == RestartNetwork(client)
    <2>1. Sound(d) /\ Follows(client, d)
      BY RestartSound DEF IInv
    <2> HIDE DEF d
    <2> QED BY <1>9, <2>1, PerformKeeps DEF NetworkRestarts, d
  <1>10. CASE EnableNetwork
    <2> DEFINE d == EnableNetworkInternal(client)
    <2>1. Sound(d) /\ Follows(client, d)
      BY EnableSound DEF IInv
    <2> HIDE DEF d
    <2> QED BY <1>10, <2>1, PerformKeeps DEF EnableNetwork, d
  <1>11. CASE UNCHANGED vars
    BY <1>11 DEF vars, IInv, AskingSafe, BackendSafe, Watched
  <1>12. CASE Next
    BY <1>1, <1>2, <1>3, <1>4, <1>5, <1>6, <1>7, <1>8, <1>9, <1>10, <1>12,
       TokenArrivesKeeps, TokenFailsKeeps, TimerKeeps, RunAnswerKeeps, DisableKeeps,
       BackendTakesKeeps, BackendSnapshotKeeps DEF Next
  <1> QED BY <1>11, <1>12

-----------------------------------------------------------------------------
(* What is taken is fresh. *)

\* What the backend tells is told right.
LEMMA ToldOneMore ==
    ASSUME NEW down \in Seq(Message), ToldRight(down), NEW m \in Message,
           m.kind \in OfTarget => (m.kind = "rejected" <=> m.target \in Refused)
    PROVE  ToldRight(Append(down, m))
  <1> DEFINE all == Append(down, m)
  <1>1. /\ Len(all) = Len(down) + 1 /\ Len(down) \in Nat /\ all[Len(all)] = m
        /\ \A i \in 1..Len(down) : all[i] = down[i]
    OBVIOUS
  <1> HIDE DEF all
  <1>2. ToldRight(all)
    <2> SUFFICES ASSUME NEW i \in 1..Len(all), all[i].kind \in OfTarget
                 PROVE  all[i].kind = "rejected" <=> all[i].target \in Refused
      BY DEF ToldRight
    <2>1. CASE i = Len(all)
      BY <1>1, <2>1
    <2>2. CASE i # Len(all)
      <3>1. i \in 1..Len(down)
        BY <1>1, <2>2
      <3> QED BY <1>1, <3>1 DEF ToldRight
    <2> QED BY <2>1, <2>2
  <1> QED BY <1>2 DEF all

\* An operation that closes the stream, or keeps what is fresh.
LEMMA PerformFresh ==
    ASSUME Fresh(client, backend), NEW d, Sound(d), Perform(d),
           \/ Emptied(d)
           \/ d.stream.closes = client.stream.closes /\ Fresh(d, backend)
    PROVE  Fresh(client', backend')
  <1>1. client' = Called(d)
    BY DEF Perform, Called
  <1>2. Sound(client') /\ Undisturbed(d, client')
    BY <1>1, AskedSound
  <1>3. \A t \in Refused : t \in Targets /\ backend.watching[t] = NotWatched
    BY ParametersAssumption DEF Fresh, Untold
  <1>4. \A t \in Refused : NewBackend.watching[t] = NotWatched
    BY <1>3 DEF NewBackend
  <1>5. CASE Emptied(d)
    <2>1. \A t \in Refused : backend'.watching[t] = NotWatched
      BY <1>3, <1>4 DEF Perform
    <2>2. Emptied(client')
      BY <1>2, <1>5 DEF Emptied, Undisturbed, IsOpen
    <2> QED BY <1>2, <2>1, <2>2, FreshEmptied
  <1>6. CASE d.stream.closes = client.stream.closes /\ Fresh(d, backend)
    <2>1. backend' = backend
      BY <1>6 DEF Perform
    <2>2. Fresh(client', backend)
      BY <1>2, <1>6, FreshUndisturbed
    <2> QED BY <2>1, <2>2
  <1> QED BY <1>5, <1>6

\* Requests and messages move between the client and the backend.
LEMMA MovedFresh ==
    ASSUME NEW c, Sound(c), IsOpen(c.stream), NEW up \in Seq(Request),
           NEW down \in Seq(Message), NEW d, d = Moved(c, up, down), NEW a, Fresh(c, a), NEW b,
           ToldRight(down), \A t \in Refused : b.watching[t] = NotWatched,
           \A t \in Targets \ Refused :
               Fits(t, t \in c.listening, c.states[t].due, c.states[t].changes, c.sent[t],
                    up, down, b.watching[t].number)
    PROVE  Fresh(d, b)
  <1>1. /\ d.stream.state = c.stream.state /\ SameTargets(c, d)
        /\ d.stream.up = up /\ d.stream.down = down
    BY MovedSound
  <1>2. \A t \in Refused : Untold(d, b, t)
    BY <1>1 DEF Fresh, Untold, SameTargets
  <1>3. \A t \in Targets \ Refused : Tracked(d, b, t)
    BY <1>1 DEF Tracked, SameTargets
  <1>4. \A t \in Targets : Marked(d, t)
    BY <1>1 DEF Fresh, Marked, SameTargets
  <1> QED BY <1>1, <1>2, <1>3, <1>4 DEF Fresh, IsOpen

\* A message on its way changes the stream alone.
Sending(c, m) == [c EXCEPT !.stream.down = Append(@, m)]

LEMMA ToldMoved ==
    ASSUME NEW c, Sound(c), NEW m, NEW d, d = Sending(c, m)
    PROVE  /\ d.stream.state = c.stream.state /\ SameTargets(c, d)
           /\ d.stream.up = c.stream.up /\ d.stream.down = Append(c.stream.down, m)
  <1>1. c \in Client /\ c.stream \in StreamType
    BY DEF Sound, Sane, Client
  <1> DEFINE all == Append(c.stream.down, m)
  <1>2. d = [c EXCEPT !.stream.down = all]
    BY DEF Sending
  <1> HIDE DEF all
  <1>3. d.stream = [c.stream EXCEPT !.down = all]
    BY <1>1, <1>2 DEF Client
  <1>4. d.stream.state = c.stream.state /\ d.stream.up = c.stream.up /\ d.stream.down = all
    BY <1>1, <1>3 DEF StreamType
  <1>5. SameTargets(c, d)
    BY <1>1, <1>2 DEF Client, SameTargets
  <1> QED BY <1>4, <1>5 DEF all

\* The backend tells something that is no response.
LEMMA ToldFresh ==
    ASSUME IInv, Fresh(client, backend), IsOpen(client.stream), NEW m \in Message,
           m.kind \notin {"added", "removed"},
           m.kind \in OfTarget => (m.kind = "rejected" <=> m.target \in Refused),
           m.kind \in OfListen => m.number = backend.watching[m.target].number,
           client' = Sending(client, m),
           \A t \in Targets : /\ backend'.watching[t].number = backend.watching[t].number
                              /\ t \in Refused => backend'.watching[t] = backend.watching[t]
    PROVE  Fresh(client', backend')
  <1> DEFINE up == client.stream.up
             down == client.stream.down
             all == Append(down, m)
  <1>1. client \in Client /\ client.stream \in StreamType /\ Sound(client)
    BY DEF IInv, Sound, Sane, Client
  <1>2. up \in Seq(Request) /\ down \in Seq(Message) /\ all \in Seq(Message)
    BY <1>1 DEF StreamType
  <1>3. /\ client'.stream.state = client.stream.state /\ SameTargets(client, client')
        /\ client'.stream.up = up /\ client'.stream.down = all
    BY <1>1, ToldMoved
  <1>4. ToldRight(all)
    BY <1>2, ToldOneMore DEF Fresh
  <1>5. \A t \in Refused : backend'.watching[t] = NotWatched
    BY ParametersAssumption DEF Fresh, Untold
  <1>6. ASSUME NEW t \in Targets \ Refused
        PROVE  Fits(t, t \in client.listening, client.states[t].due, client.states[t].changes,
                    client.sent[t], up, all, backend'.watching[t].number)
    <2> DEFINE on == t \in client.listening
    <2>1. on \in BOOLEAN /\ t \in Targets /\ client.states[t].due \in Int
      BY <1>1 DEF Client, TargetState
    <2>2. Fits(t, on, client.states[t].due, client.states[t].changes, client.sent[t],
               up, down, backend.watching[t].number)
      BY DEF Fresh, Tracked
    <2>3. m \notin Replies(t) /\ (m.kind \in OfListen /\ m.target = t =>
              m.number = backend.watching[t].number)
      BY DEF Replies
    <2> HIDE DEF on, up, down
    <2>4. Fits(t, on, client.states[t].due, client.states[t].changes, client.sent[t],
               up, Append(down, m), backend.watching[t].number)
      BY <1>2, <2>1, <2>2, <2>3, OneTold
    <2> QED BY <2>4 DEF on
  <1> HIDE DEF all
  <1>7. \A t \in Refused : Untold(client', backend', t)
    BY <1>3, <1>5 DEF Fresh, Untold, SameTargets
  <1>8. \A t \in Targets \ Refused : Tracked(client', backend', t)
    BY <1>3, <1>6 DEF Tracked, SameTargets
  <1>9. \A t \in Targets : Marked(client', t)
    BY <1>3 DEF Fresh, Marked, SameTargets
  <1> QED BY <1>3, <1>4, <1>7, <1>8, <1>9 DEF Fresh, IsOpen

\* The backend tells of a target it watches.
LEMMA TellFresh ==
    ASSUME IInv, Fresh(client, backend), NEW t \in Targets, Watched(t),
           NEW kind \in {"current", "change", "filter"}, Tell(kind, t),
           \A u \in Targets : /\ backend'.watching[u].number = backend.watching[u].number
                              /\ u # t => backend'.watching[u] = backend.watching[u]
    PROVE  Fresh(client', backend')
  <1> DEFINE m == [kind |-> kind, target |-> t, number |-> backend.watching[t].number]
  <1>1. t \notin Refused /\ IsOpen(client.stream)
    BY DEF IInv, BackendSafe, Fresh, Untold, Watched, NotWatched
  <1>2. m \in Message /\ m.kind = kind /\ m.target = t /\ m.number = backend.watching[t].number
    BY DEF IInv, BackendSafe, Backend, Message, OfTarget
  <1>3. client' = Sending(client, m)
    BY DEF Tell, Sending
  <1> HIDE DEF m
  <1>4. \A u \in Targets : /\ backend'.watching[u].number = backend.watching[u].number
                           /\ u \in Refused => backend'.watching[u] = backend.watching[u]
    BY <1>1
  <1> QED BY <1>1, <1>2, <1>3, <1>4, ToldFresh

\* The backend takes up a request.
LEMMA TakenFresh ==
    ASSUME IInv, Fresh(client, backend), BackendTakes
    PROVE  Fresh(client', backend')
  <1> DEFINE r == Head(client.stream.up)
             kind == IF r.kind = "unwatch" THEN "removed"
                     ELSE IF r.target \in Refused THEN "rejected" ELSE "added"
             silent == r.kind = "unwatch" /\ backend.watching[r.target] = NotWatched
             m == [kind |-> kind, target |-> r.target, number |-> r.number]
             old == client.stream.down
             down == IF silent THEN old ELSE Append(old, m)
             up == Tail(client.stream.up)
             now == IF kind = "added" THEN [number |-> r.number, current |-> FALSE]
                    ELSE NotWatched
  <1>1. /\ client \in Client /\ client.stream \in StreamType /\ client.stream.up # <<>>
        /\ IsOpen(client.stream) /\ Sound(client)
    BY DEF IInv, Sound, Sane, Client, StreamSane, BackendTakes
  <1>2. /\ r \in Request /\ up \in Seq(Request) /\ old \in Seq(Message)
        /\ client.stream.up \in Seq(Request)
    BY <1>1 DEF StreamType
  <1>3. client' = Moved(client, up, down)
    BY <1>1 DEF BackendTakes, Client, StreamType, Moved
  <1>4. backend'.watching = [backend.watching EXCEPT ![r.target] = now]
    BY DEF BackendTakes
  <1>5. /\ r.kind \in {"watch", "unwatch"} /\ r.target \in Targets /\ r.number \in Nat
    BY <1>2 DEF Request
  <1>6. \A t \in Targets : backend'.watching[t] = IF t = r.target THEN now ELSE backend.watching[t]
    BY <1>4 DEF IInv, BackendSafe, Backend
  <1>7. /\ m \in Message /\ m.kind = kind /\ m.target = r.target
        /\ kind = "added" <=> (r.kind = "watch" /\ r.target \notin Refused)
        /\ kind = "rejected" <=> (r.kind = "watch" /\ r.target \in Refused)
        /\ kind = "removed" <=> r.kind = "unwatch"
        /\ kind \in {"added", "removed", "rejected"}
    BY <1>5 DEF Message, OfTarget
  <1>8. \A t \in Refused : t \in Targets /\ backend.watching[t] = NotWatched
    BY ParametersAssumption DEF Fresh, Untold
  <1>9. /\ kind = "added" => now.number = r.number
        /\ kind # "added" => now = NotWatched
        /\ silent <=> (r.kind = "unwatch" /\ backend.watching[r.target] = NotWatched)
        /\ silent => down = old
        /\ ~silent => down = Append(old, m)
    OBVIOUS
  <1> HIDE DEF r, kind, silent, m, old, down, up, now
  <1>10. ToldRight(old) /\ ToldRight(down)
    <2>1. ToldRight(old)
      BY DEF Fresh, old
    <2>2. ~silent => (m.kind = "rejected" <=> m.target \in Refused)
      BY <1>7, <1>8, <1>9
    <2>3. ~silent => ToldRight(Append(old, m))
      BY <1>2, <1>7, <2>1, <2>2, ToldOneMore
    <2> QED BY <1>9, <2>1, <2>3
  <1>11. \A t \in Refused : backend'.watching[t] = NotWatched
    BY <1>6, <1>7, <1>8, <1>9
  <1>12. down \in Seq(Message)
    BY <1>2, <1>7, <1>9
  <1>13. ASSUME NEW t \in Targets \ Refused
         PROVE  Fits(t, t \in client.listening, client.states[t].due, client.states[t].changes,
                     client.sent[t], up, down, backend'.watching[t].number)
    <2> DEFINE on == t \in client.listening
               due == client.states[t].due
               changes == client.states[t].changes
               n == client.sent[t]
               all == client.stream.up
               watched == backend.watching[t].number
    <2>1. on \in BOOLEAN /\ t \in Targets /\ due \in Int
      BY <1>1 DEF Client, TargetState
    <2>2. Fits(t, on, due, changes, n, all, old, watched)
      BY <1>1 DEF Fresh, Tracked, old
    <2>3. r = Head(all) /\ up = Tail(all) /\ all # <<>> /\ all \in Seq(Request)
      BY <1>1, <1>2 DEF r, up
    <2> HIDE DEF on, due, changes, n, all
    <2>4. CASE r.target # t
      <3>1. backend'.watching[t].number = watched
        BY <1>6, <2>4
      <3> HIDE DEF watched
      <3>2. Fits(t, on, due, changes, n, up, old, watched)
        BY <1>2, <2>1, <2>2, <2>3, <2>4, OtherTaken
      <3>3. Fits(t, on, due, changes, n, up, Append(old, m), watched)
        <4>1. m.target # t /\ m.kind \notin OfListen
          BY <1>7, <2>4 DEF OfListen
        <4> QED BY <1>2, <1>7, <2>1, <2>2, <2>3, <2>4, <4>1, OtherTaken
      <3>4. Fits(t, on, due, changes, n, up, down, watched)
        BY <1>9, <3>2, <3>3
      <3> QED BY <3>1, <3>4 DEF on, due, changes, n
    <2>5. CASE r.target = t /\ silent
      <3>1. backend'.watching[t].number = watched
        BY <1>6, <1>7, <1>9, <2>5
      <3> HIDE DEF watched
      <3>2. r.kind # "watch"
        BY <1>9, <2>5
      <3>3. Fits(t, on, due, changes, n, up, old, watched)
        BY <1>2, <2>1, <2>2, <2>3, <2>5, <3>2, OwnPassed
      <3>4. Fits(t, on, due, changes, n, up, down, watched)
        BY <1>9, <2>5, <3>3
      <3> QED BY <3>1, <3>4 DEF on, due, changes, n
    <2>6. CASE r.target = t /\ ~silent
      <3> DEFINE new == backend'.watching[t].number
      <3>1. r.kind = "watch" => new = r.number
        BY <1>6, <1>7, <1>9, <2>6
      <3>2. m \in Replies(t)
        BY <1>7, <2>6 DEF Replies
      <3> HIDE DEF watched, new
      <3>3. Fits(t, on, due, changes, n, up, Append(old, m), new)
        BY <1>2, <2>1, <2>2, <2>3, <2>6, <3>1, <3>2, OwnTaken
      <3>4. Fits(t, on, due, changes, n, up, down, new)
        BY <1>9, <2>6, <3>3
      <3> QED BY <3>4 DEF on, due, changes, n, new
    <2> QED BY <2>4, <2>5, <2>6
  <1> QED BY <1>1, <1>2, <1>3, <1>10, <1>11, <1>12, <1>13, MovedFresh

\* The app listens, or stops listening, over an open stream or not.
LEMMA AppFresh ==
    ASSUME IInv, Fresh(client, backend), NEW t \in Targets, AppListens(t) \/ AppStops(t)
    PROVE  Fresh(client', backend')
  <1>0. client \in Client
    BY DEF IInv, Sound, Sane
  <1>1. Watch(client, t) \in Request /\ Unwatch(client, t) \in Request
    BY <1>0 DEF Watch, Unwatch, Request, Client
  <1>2. ~IsOpen(client.stream) => client.states = NoStates
    BY DEF Fresh
  <1>3. CASE AppListens(t)
    <2> DEFINE d == Listen(client, t)
    <2>1. /\ Sound(d)
          /\ ~IsOpen(client.stream) =>
                 Emptied(d) \/ (~IsOpen(d.stream) /\ d.states = client.states)
          /\ IsOpen(client.stream) =>
                 /\ Requested(client, d, t, <<Watch(client, t)>>, client.sent[t] + 1)
                 /\ d.listening = client.listening \cup {t}
      BY <1>3, ListenSound DEF IInv, AppListens
    <2>2. Perform(d)
      BY <1>3 DEF AppListens
    <2> HIDE DEF d
    <2>3. CASE IsOpen(client.stream)
      <3>1. d.sent[t] = client.sent[t] + 1 /\ d.stream.closes = client.stream.closes
        BY <2>1, <2>3 DEF Requested
      <3>2. Requested(client, d, t, <<Watch(client, t)>>, d.sent[t]) /\ d \in Client
        BY <2>1, <2>3, <3>1 DEF Sound, Sane
      <3>3. Watch(client, t).kind = "watch" /\ Watch(client, t).number = d.sent[t]
            /\ Watch(client, t).target = t
        BY <3>1 DEF Watch
      <3>4. Fresh(d, backend)
        BY <1>0, <1>1, <2>1, <2>3, <3>2, <3>3, FreshRequested
      <3> QED BY <2>1, <2>2, <3>1, <3>4, PerformFresh
    <2>4. CASE ~IsOpen(client.stream)
      <3>1. Emptied(d)
        BY <1>2, <2>1, <2>4 DEF Emptied
      <3> QED BY <2>1, <2>2, <3>1, PerformFresh
    <2> QED BY <2>3, <2>4
  <1>4. CASE AppStops(t)
    <2> DEFINE d == StopListening(client, t)
    <2>1. /\ Sound(d)
          /\ ~IsOpen(client.stream) => ~IsOpen(d.stream) /\ d.states = client.states
          /\ IsOpen(client.stream) =>
                 /\ Requested(client, d, t, <<Unwatch(client, t)>>, client.sent[t])
                 /\ d.listening = client.listening \ {t}
      BY <1>4, StopSound DEF IInv, AppStops
    <2>2. Perform(d)
      BY <1>4 DEF AppStops
    <2> HIDE DEF d
    <2>3. CASE IsOpen(client.stream)
      <3>1. d.sent[t] = client.sent[t] /\ d.stream.closes = client.stream.closes
        BY <2>1, <2>3 DEF Requested
      <3>2. Requested(client, d, t, <<Unwatch(client, t)>>, d.sent[t]) /\ d \in Client
        BY <2>1, <2>3, <3>1 DEF Sound, Sane
      <3>3. Unwatch(client, t).target = t /\ t \notin d.listening
        BY <2>1, <2>3 DEF Unwatch
      <3>4. Fresh(d, backend)
        BY <1>0, <1>1, <2>1, <2>3, <3>2, <3>3, FreshRequested
      <3> QED BY <2>1, <2>2, <3>1, <3>4, PerformFresh
    <2>4. CASE ~IsOpen(client.stream)
      <3>1. Emptied(d)
        BY <1>2, <2>1, <2>4 DEF Emptied
      <3> QED BY <2>1, <2>2, <3>1, PerformFresh
    <2> QED BY <2>3, <2>4
  <1> QED BY <1>3, <1>4

\* A token arrives, or could not be had.
LEMMA AnsweredFresh ==
    ASSUME IInv, Fresh(client, backend), NEW closes \in asking,
           TokenArrives(closes) \/ TokenFails(closes)
    PROVE  Fresh(client', backend')
  <1>1. CASE Stale(client, closes)
    <2>1. client' = client /\ backend' = backend
      BY <1>1 DEF TokenArrives, TokenFails, Answered
    <2> QED BY <2>1
  <1>2. CASE ~Stale(client, closes)
    <2>1. /\ client.stream.state = "Starting" /\ Sound(client) /\ ~client.stream.asked
          /\ client.states = NoStates
      BY <1>2 DEF IInv, AskingSafe, Stale, Fresh, IsOpen
    <2>2. PICK d : /\ client' = Called(d) /\ backend' = NewBackend /\ Sound(d)
                   /\ Fresh(d, NewBackend)
      <3>1. CASE TokenArrives(closes)
        <4>1. PICK order \in Orders(client.listening) :
                  Answered(closes, OnWatchStreamOpen(Open(client, "user"), order))
          BY <3>1 DEF TokenArrives
        <4> DEFINE d == OnWatchStreamOpen(Open(client, "user"), order)
        <4>2. Sound(d)
          BY <2>1, OpenSound
        <4>3. Fresh(d, NewBackend)
          BY <2>1, OpenFresh
        <4>4. client' = Called(d) /\ backend' = NewBackend
          BY <1>2, <4>1 DEF Answered, Called
        <4> HIDE DEF d
        <4> QED BY <4>2, <4>3, <4>4
      <3>2. CASE TokenFails(closes)
        <4> DEFINE d == Close(HardAssert(client, client.stream.state = "Starting"), "transient")
        <4>1. d = Close(client, "transient")
          BY <2>1, AssertHolds DEF Sound, Sane
        <4>2. client' = Called(d) /\ backend' = NewBackend
          BY <1>2, <3>2 DEF TokenFails, Answered, Called
        <4> HIDE DEF d
        <4>3. Sound(d) /\ Emptied(d)
          BY <2>1, <4>1, CloseSound DEF Sound, IsStarted
        <4>4. \A t \in Refused : NewBackend.watching[t] = NotWatched
          BY ParametersAssumption DEF NewBackend
        <4>5. Fresh(d, NewBackend)
          BY <4>3, <4>4, FreshEmptied
        <4> QED BY <4>2, <4>3, <4>5
      <3> QED BY <3>1, <3>2
    <2>3. Undisturbed(d, client')
      BY <2>2, AskedSound
    <2> QED BY <2>2, <2>3, FreshUndisturbed
  <1> QED BY <1>1, <1>2

\* Every step keeps what is taken fresh.
LEMMA StepFresh ==
    ASSUME IInv, Fresh(client, backend), [Next]_vars
    PROVE  Fresh(client', backend')
  <1>0. /\ Sound(client) /\ ~client.stream.asked /\ client \in Client
        /\ ~IsOpen(client.stream) => client.states = NoStates
    BY DEF IInv, Sound, Sane, Fresh
  <1>1. ASSUME NEW t \in Targets, BackendIsCurrent(t) PROVE Fresh(client', backend')
    <2>1. \A u \in Targets : /\ backend'.watching[u].number = backend.watching[u].number
                             /\ u # t => backend'.watching[u] = backend.watching[u]
      BY <1>1 DEF IInv, BackendSafe, Backend, BackendIsCurrent
    <2> QED BY <1>1, <2>1, TellFresh DEF BackendIsCurrent
  <1>2. ASSUME NEW t \in Targets, BackendChanges(t) \/ BackendFilters(t)
        PROVE  Fresh(client', backend')
    <2>1. backend'.watching = backend.watching
      BY <1>2 DEF IInv, BackendSafe, Backend, BackendChanges, BackendFilters
    <2> QED BY <1>2, <2>1, TellFresh DEF BackendChanges, BackendFilters
  <1>3. CASE RunBackoff
    <2> DEFINE d == EndBackoff(client)
    <2>1. Sound(d) /\ Emptied(d)
      BY <1>0, <1>3, EndBackoffSound DEF RunBackoff, Emptied
    <2> HIDE DEF d
    <2> QED BY <1>3, <2>1, PerformFresh DEF RunBackoff, d
  <1>4. CASE RunIdle \/ StreamBreaks
    <2>1. IsStarted(client.stream) /\ (RunIdle => client.listening = {})
      BY <1>4 DEF IInv, Sound, Sane, StreamSane, IsOpen, IsStarted, RunIdle, StreamBreaks
    <2>2. PICK status : /\ Perform(Close(client, status))
                        /\ status = "ok" => ~(client.network /\ client.listening # {})
      BY <1>4, <2>1 DEF RunIdle, StreamBreaks
    <2> DEFINE d == Close(client, status)
    <2>3. Sound(d) /\ Emptied(d)
      BY <1>0, <2>1, <2>2, CloseSound DEF Sound
    <2> HIDE DEF d
    <2> QED BY <2>2, <2>3, PerformFresh DEF d
  <1>5. CASE RunOnlineStateTimer
    <2> DEFINE b == [client EXCEPT !.timer = FALSE]
               d == Broadcast(b, "Offline")
    <2>1. client.online = "Unknown"
      BY <1>0, <1>5 DEF Sound, Sane, ShownSane, RunOnlineStateTimer
    <2>2. HardAssert(client, client.online = "Unknown") = client
      BY <1>0, <2>1, AssertHolds DEF Sound, Sane
    <2>3. Perform(d)
      BY <1>5, <2>2 DEF RunOnlineStateTimer
    <2>4. b \in Client /\ SameTargets(client, b) /\ b.stream = client.stream
      <3>1. b \in Client
        BY <1>0, SetClient, Values, Zenon
      <3> QED BY <1>0, <3>1 DEF Client, SameTargets
    <2> HIDE DEF b
    <2>5. SameTargets(b, d) /\ d.stream = b.stream
      BY <2>4, BroadcastView, Values
    <2>6. Undisturbed(client, d)
      BY <2>4, <2>5 DEF Undisturbed, SameTargets
    <2>7. client' = Called(d) /\ backend' = backend
      BY <2>3, <2>4, <2>5 DEF Perform, Called
    <2> HIDE DEF d
    <2>8. Undisturbed(d, client')
      <3>1. Sound(client') /\ ~client'.stream.asked
        BY <1>5, TimerKeeps DEF IInv
      <3>2. d \in Client /\ d.stream \in StreamType
        BY <1>0, <2>4, BroadcastView, Values DEF d, Client
      <3>3. d.stream.asked = FALSE
        BY <1>0, <2>4, <2>5 DEF Client, StreamType
      <3>4. client' = d
        BY <2>7, <3>2, <3>3 DEF Called, Client, StreamType
      <3> QED BY <3>4 DEF Undisturbed
    <2> QED BY <2>6, <2>7, <2>8, FreshUndisturbed
  <1>6. CASE RunAnswer
    <2>1. PICK order \in Orders(client.resets \cap client.listening) :
              Perform(OnWatchStreamChange(client, order))
      BY <1>6 DEF RunAnswer
    <2> DEFINE d == OnWatchStreamChange(client, order)
    <2>2. /\ Sound(d) /\ d.stream.closes = client.stream.closes
          /\ \A b : Fresh(client, b) => Fresh(d, b)
      BY <1>0, <1>6, AnswerSound DEF RunAnswer
    <2> HIDE DEF d
    <2> QED BY <2>1, <2>2, PerformFresh DEF d
  <1>7. CASE NetworkRestarts
    <2> DEFINE d == RestartNetwork(client)
    <2>1. Sound(d) /\ Emptied(d)
      BY <1>0, RestartSound
    <2> HIDE DEF d
    <2> QED BY <1>7, <2>1, PerformFresh DEF NetworkRestarts, d
  <1>8. CASE DisableNetwork
    <2> DEFINE off == DisableNetworkInternal(client)
               d == UpdateState(off, "Offline")
    <2>1. Sound(off) /\ Emptied(off)
      BY <1>0, DisableSound
    <2> HIDE DEF off
    <2>2. Sound(d) /\ d.stream = off.stream /\ SameTargets(off, d)
      BY <2>1, UpdateSound, Values
    <2>3. Perform(d) /\ Emptied(d)
      BY <1>8, <2>1, <2>2 DEF DisableNetwork, off, Emptied, SameTargets
    <2> HIDE DEF d
    <2> QED BY <2>2, <2>3, PerformFresh
  <1>9. CASE EnableNetwork
    <2> DEFINE d == EnableNetworkInternal(client)
    <2>1. Sound(d) /\ (Emptied(d) \/ Undisturbed(client, d))
      BY <1>0, EnableSound
    <2>2. Perform(d)
      BY <1>9 DEF EnableNetwork
    <2> HIDE DEF d
    <2>3. Undisturbed(client, d) => Fresh(d, backend) /\ d.stream.closes = client.stream.closes
      BY FreshUndisturbed DEF Undisturbed
    <2> QED BY <2>1, <2>2, <2>3, PerformFresh
  <1>10. CASE BackendSnapshot
    <2> DEFINE m == [kind |-> "snapshot"]
    <2>1. IsOpen(client.stream)
      BY <1>10 DEF IInv, BackendSafe, BackendSnapshot
    <2>2. /\ m \in Message /\ m.kind = "snapshot" /\ m.kind \notin OfTarget
          /\ m.kind \notin OfListen
      BY DEF Message, OfTarget, OfListen
    <2>3. client' = Sending(client, m)
      BY <1>10 DEF BackendSnapshot, Sending
    <2>4. backend'.watching = backend.watching
      BY <1>10 DEF IInv, BackendSafe, Backend, BackendSnapshot
    <2> HIDE DEF m
    <2> QED BY <2>1, <2>2, <2>3, <2>4, ToldFresh
  <1>11. CASE UNCHANGED vars
    BY <1>11 DEF vars
  <1>12. CASE Next
    BY <1>1, <1>2, <1>3, <1>4, <1>5, <1>6, <1>7, <1>8, <1>9, <1>10, <1>12,
       AppFresh, AnsweredFresh, TakenFresh DEF Next
  <1> QED BY <1>11, <1>12

\* At first there is no stream.
LEMMA InitFresh == ASSUME Init PROVE Fresh(client, backend)
  <1> DEFINE none == [t \in Targets |-> 0]
             unseen == [t \in Targets |-> "absent"]
             c == [network |-> FALSE, stream |-> NewStream, listening |-> {},
                   aggregating |-> FALSE, states |-> NoStates, resets |-> {},
                   sent |-> none, view |-> unseen,
                   online |-> "Unknown", failures |-> 0, timer |-> FALSE, failed |-> FALSE]
  <1>1. Sound(client)
    BY InitHolds DEF IInv
  <1>2. ~ShouldStartWatchStream([c EXCEPT !.network = TRUE])
    BY DEF ShouldStartWatchStream
  <1>3. client = EnableNetworkInternal(c) /\ backend = NewBackend
    BY DEF Init
  <1>4. client = UpdateState([c EXCEPT !.network = TRUE], "Unknown")
    BY <1>2, <1>3 DEF EnableNetworkInternal
  <1>5. client.stream = NewStream /\ client.states = NoStates
    BY <1>4 DEF UpdateState, Broadcast
  <1>6. Emptied(client)
    BY <1>5 DEF Emptied, NewStream, IsOpen
  <1>7. \A t \in Refused : backend.watching[t] = NotWatched
    BY <1>3, ParametersAssumption DEF NewBackend
  <1> QED BY <1>1, <1>6, <1>7, FreshEmptied

-----------------------------------------------------------------------------
(* The theorems. *)

\* The inductive invariant holds of every behaviour.
THEOREM Invariant == Spec => []IInv
  <1>1. Init => IInv
    BY InitHolds
  <1>2. IInv /\ [Next]_vars => IInv'
    BY StepKeeps
  <1> QED BY <1>1, <1>2, PTL DEF Spec

\* No HARD_ASSERT of the remote store, the aggregator, the online state tracker
\* or the watch stream fails, whatever the app, the backend and the network do.
THEOREM NeverAborts == Spec => []NoAssertFails
  <1>1. IInv => NoAssertFails
    BY DEF IInv, Sound, Sane, NoAssertFails
  <1> QED BY <1>1, Invariant, PTL

\* Online is said only of an open stream, and no listener of an offline client
\* takes its view for the backend's or is left waiting for a first one.
THEOREM OnlineStateIsHonest == Spec => []OnlineIsHonest
  <1>1. IInv => OnlineIsHonest
    BY DEF IInv, Sound, Sane, ShownSane, Linked, OnlineIsHonest
  <1> QED BY <1>1, Invariant, PTL

\* What is due is a number: no response comes that was not counted.
LEMMA CountsAreTyped == ASSUME IInv, Fresh(client, backend) PROVE TypeOK
  <1>1. client \in Client
    BY DEF IInv, Sound, Sane
  <1>2. ASSUME NEW t \in Targets PROVE client.states[t].due >= 0
    <2>1. CASE t \in Refused
      BY <2>1 DEF Fresh, Untold
    <2>2. CASE t \notin Refused /\ IsOpen(client.stream)
      <3>1. client.states[t].due >=
                Amount(client.stream.up, Asks(t)) + Amount(client.stream.down, Replies(t))
        BY <2>2 DEF Fresh, Tracked, Fits
      <3>2. client.stream.up \in Seq(Request) /\ client.stream.down \in Seq(Message)
        BY <1>1 DEF Client, StreamType
      <3>3. /\ Amount(client.stream.up, Asks(t)) \in Nat
            /\ Amount(client.stream.down, Replies(t)) \in Nat
        BY <3>2, AmountType
      <3>4. client.states[t].due \in Int
        BY <1>1 DEF Client, TargetState
      <3> QED BY <3>1, <3>3, <3>4
    <2>3. CASE ~IsOpen(client.stream)
      BY <2>3 DEF Fresh, NoStates, NoState
    <2> QED BY <2>1, <2>2, <2>3
  <1>3. client.states \in [Targets -> [known : BOOLEAN, due : Nat,
                                       changes : SUBSET Nat, current : Nat,
                                       kept : BOOLEAN]]
    <2>1. client.states \in [Targets -> TargetState]
      BY <1>1 DEF Client
    <2>2. ASSUME NEW t \in Targets
          PROVE  client.states[t] \in [known : BOOLEAN, due : Nat, changes : SUBSET Nat,
                                      current : Nat, kept : BOOLEAN]
      BY <1>2, <2>1 DEF TargetState
    <2> QED BY <2>1, <2>2
  <1>4. /\ client.network \in BOOLEAN /\ client.aggregating \in BOOLEAN
        /\ client.listening \subseteq Targets /\ client.resets \subseteq Targets
        /\ client.view \in [Targets -> {"absent", "waiting", "cached", "synced"}]
        /\ client.online \in {"Unknown", "Online", "Offline"}
        /\ client.failures \in 0..MaxWatchStreamFailures /\ client.timer \in BOOLEAN
    BY <1>1 DEF Client, OnlineState, Shown
  <1> QED BY <1>3, <1>4 DEF TypeOK

\* A target's changes are those of its latest watch, and so is its mark unless it was kept.
LEMMA CountsAccept == ASSUME IInv, Fresh(client, backend) PROVE AcceptedAreFresh
  <1>1. ASSUME NEW t \in Targets, Active(client, t)
        PROVE  client.states[t].changes \subseteq {client.sent[t]}
    <2>1. CASE t \in Refused
      BY <2>1 DEF Fresh, Untold
    <2>2. CASE t \notin Refused /\ IsOpen(client.stream)
      BY <1>1, <2>2 DEF Fresh, Tracked, Fits, Active
    <2>3. CASE ~IsOpen(client.stream)
      BY <2>3 DEF Fresh, NoStates, NoState
    <2> QED BY <2>1, <2>2, <2>3
  <1>2. ASSUME NEW t \in Targets
        PROVE  client.states[t].current \in {0, client.sent[t]} \/ client.states[t].kept
    BY DEF Fresh, Marked
  <1> QED BY <1>1, <1>2 DEF AcceptedAreFresh

\* Responses are counted right in every behaviour.
THEOREM CountsAreRight == Spec => [](IInv /\ Fresh(client, backend))
  <1>1. Init => IInv /\ Fresh(client, backend)
    BY InitHolds, InitFresh
  <1>2. IInv /\ Fresh(client, backend) /\ [Next]_vars => IInv' /\ Fresh(client, backend)'
    BY StepKeeps, StepFresh
  <1> QED BY <1>1, <1>2, PTL DEF Spec

\* The variables keep to their types: no response is taken that was not asked
\* for, so outstanding_responses_, an int that remote_event.cc decrements without
\* a check, never goes below zero.
THEOREM TypeCorrect == Spec => []TypeOK
  <1>1. IInv /\ Fresh(client, backend) => TypeOK
    BY CountsAreTyped
  <1> QED BY <1>1, CountsAreRight, PTL

\* The changes the aggregator takes for a target, and the CURRENT that marks it,
\* are those the backend sent for its latest watch on the stream, however often it
\* was stopped, listened to again or reset while earlier responses were on their
\* way; a mark that stood when the target was watched again is kept, and is known
\* as such.
THEOREM ChangesAreFresh == Spec => []AcceptedAreFresh
  <1>1. IInv /\ Fresh(client, backend) => AcceptedAreFresh
    BY CountsAccept
  <1> QED BY <1>1, CountsAreRight, PTL
=============================================================================
