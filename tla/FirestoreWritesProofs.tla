------------------------- MODULE FirestoreWritesProofs -------------------------
(***************************************************************************)
(* TLAPS proofs about FirestoreWrites, for any accounts, any size of the   *)
(* pipeline and every bound: no HARD_ASSERT of the write side fails, the   *)
(* pipeline is the head of the user's queue, answers are matched with the  *)
(* right writes by their position, the idle timer is set exactly while     *)
(* there is nothing to send, a write is only sent with the token of the    *)
(* user it was made for, a completion handler is told what the backend did *)
(* with its write, and the client implements WriteContract.                *)
(***************************************************************************)
EXTENDS FirestoreWrites, SequenceTheorems, WellFoundedInduction, TLAPS

StreamState == {"Initial", "Starting", "Open", "Error", "Backoff"}
StreamType == [state : StreamState, closes : Nat, asked : BOOLEAN,
               token : Users \cup {NoUser}, idle : BOOLEAN, backoff : BOOLEAN,
               up : Seq(Nat), down : Seq(Answer)]
Verdict == {"no", "ok", "refused"}
Client == [user : Users, network : BOOLEAN, queue : [Users -> Seq(Batch)],
           nextId : Nat, pipeline : Seq(Batch), stream : StreamType,
           handshake : BOOLEAN, callbacks : [Users -> SUBSET Batch],
           told : [Writes -> Verdict], fresh : SUBSET Nat, failed : BOOLEAN]

\* What holds of the stream alone.
StreamSane(s) ==
    /\ s.backoff <=> s.state = "Backoff"
    /\ s.idle => IsOpen(s)
    /\ s.up # <<>> \/ s.down # <<>> => IsOpen(s)
    /\ s.asked => s.state = "Starting"

\* Rows are in the order of their ids, which are below the next one.
Ordered(rows, next) ==
    \A i \in 1..Len(rows) :
        /\ rows[i].id \in 1..(next - 1)
        /\ \A j \in 1..Len(rows) : i < j => rows[i].id < rows[j].id

RowsSane(queue, next) ==
    /\ next \in 1..(MaxWrites + 1)
    /\ \A u \in Users : Ordered(queue[u], next)

\* The answers and the requests on their way are for the pipeline's writes.
Matches(down, up, pipeline) ==
    /\ Len(down) + Len(up) = Len(pipeline)
    /\ \A i \in 1..Len(down) : down[i].write = pipeline[i].write
    /\ \A i \in 1..Len(up) : up[i] = pipeline[Len(down) + i].write

\* What is on its way over the stream: the handshake, or the pipeline's writes.
OnWire(s, pipeline, handshake) ==
    IsOpen(s) =>
        IF handshake
        THEN Matches(s.down, s.up, pipeline)
        ELSE Len(s.down) + Len(s.up) = 1

\* The pipeline is the head of the user's rows.
Heads(pipeline, rows) ==
    /\ Len(pipeline) <= Len(rows)
    /\ \A i \in 1..Len(pipeline) : pipeline[i] = rows[i]

\* What holds at every point of an operation.
Sane(c) ==
    /\ c \in Client /\ ~c.failed /\ StreamSane(c.stream)
    /\ RowsSane(c.queue, c.nextId)
    /\ Len(c.pipeline) <= MaxPendingWrites
    /\ OnWire(c.stream, c.pipeline, c.handshake)
    /\ IsStarted(c.stream) => c.network
    /\ IsStarted(c.stream) /\ ~(IsOpen(c.stream) /\ c.handshake) => c.pipeline # <<>>
    /\ c.stream.idle => c.handshake /\ c.pipeline = <<>>

Prefixed(c) == Heads(c.pipeline, c.queue[c.user])

\* All of the rows there is room for.
Filled(pipeline, rows) ==
    Len(pipeline) = IF Len(rows) < MaxPendingWrites THEN Len(rows) ELSE MaxPendingWrites

\* While the network is on, the pipeline is filled and its stream started.
Served(c) ==
    c.network => /\ c.pipeline # <<>> => IsStarted(c.stream)
                 /\ Filled(c.pipeline, c.queue[c.user])

IdleFits(c) ==
    IsOpen(c.stream) => (c.stream.idle <=> c.handshake /\ c.pipeline = <<>>)

\* What holds between two operations.
Sound(c) ==
    /\ Sane(c) /\ Prefixed(c) /\ IdleFits(c) /\ Served(c)
    /\ c.handshake => IsOpen(c.stream)
    /\ ~c.network => c.pipeline = <<>>

\* A stream that begins to wait for its token calls GetToken.
Asks(s) == s.state = "Starting" => s.asked

\* Unless it is closed, a stream that waits for its token or is open stays so.
Follows(c, d) ==
    \/ d.stream.closes > c.stream.closes /\ Asks(d.stream)
    \/ /\ d.stream.closes = c.stream.closes
       /\ c.stream.state \in {"Starting", "Open"} =>
              d.stream.state = c.stream.state /\ d.stream.asked = c.stream.asked
       /\ c.stream.state # "Starting" => Asks(d.stream)

-----------------------------------------------------------------------------
(* Types. *)

\* A field of a client may take any value of its type.
LEMMA SetClient ==
    /\ \A c \in Client : \A x \in Users : [c EXCEPT !.user = x] \in Client
    /\ \A c \in Client : \A x \in BOOLEAN : [c EXCEPT !.network = x] \in Client
    /\ \A c \in Client : \A x \in [Users -> Seq(Batch)] : [c EXCEPT !.queue = x] \in Client
    /\ \A c \in Client : \A x \in Nat : [c EXCEPT !.nextId = x] \in Client
    /\ \A c \in Client : \A x \in Seq(Batch) : [c EXCEPT !.pipeline = x] \in Client
    /\ \A c \in Client : \A x \in StreamType : [c EXCEPT !.stream = x] \in Client
    /\ \A c \in Client : \A x \in BOOLEAN : [c EXCEPT !.handshake = x] \in Client
    /\ \A c \in Client : \A x \in [Users -> SUBSET Batch] : [c EXCEPT !.callbacks = x] \in Client
    /\ \A c \in Client : \A x \in [Writes -> Verdict] : [c EXCEPT !.told = x] \in Client
    /\ \A c \in Client : \A x \in SUBSET Nat : [c EXCEPT !.fresh = x] \in Client
    /\ \A c \in Client : \A x \in BOOLEAN : [c EXCEPT !.failed = x] \in Client
  <1>1. \A c \in Client : \A x \in Users : [c EXCEPT !.user = x] \in Client
    BY DEF Client
  <1>2. \A c \in Client : \A x \in BOOLEAN : [c EXCEPT !.network = x] \in Client
    BY DEF Client
  <1>3. \A c \in Client : \A x \in [Users -> Seq(Batch)] : [c EXCEPT !.queue = x] \in Client
    BY DEF Client
  <1>4. \A c \in Client : \A x \in Nat : [c EXCEPT !.nextId = x] \in Client
    BY DEF Client
  <1>5. \A c \in Client : \A x \in Seq(Batch) : [c EXCEPT !.pipeline = x] \in Client
    BY DEF Client
  <1>6. \A c \in Client : \A x \in StreamType : [c EXCEPT !.stream = x] \in Client
    BY DEF Client
  <1>7. \A c \in Client : \A x \in BOOLEAN : [c EXCEPT !.handshake = x] \in Client
    BY DEF Client
  <1>8. \A c \in Client : \A x \in [Users -> SUBSET Batch] : [c EXCEPT !.callbacks = x] \in Client
    BY DEF Client
  <1>9. \A c \in Client : \A x \in [Writes -> Verdict] : [c EXCEPT !.told = x] \in Client
    BY DEF Client
  <1>10. \A c \in Client : \A x \in SUBSET Nat : [c EXCEPT !.fresh = x] \in Client
    BY DEF Client
  <1>11. \A c \in Client : \A x \in BOOLEAN : [c EXCEPT !.failed = x] \in Client
    BY DEF Client
  <1> QED BY <1>1, <1>2, <1>3, <1>4, <1>5, <1>6, <1>7, <1>8, <1>9, <1>10, <1>11

\* The fields of a stream.
LEMMA SetStream ==
    /\ \A c \in StreamType : \A x \in StreamState : [c EXCEPT !.state = x] \in StreamType
    /\ \A c \in StreamType : \A x \in Nat : [c EXCEPT !.closes = x] \in StreamType
    /\ \A c \in StreamType : \A x \in BOOLEAN : [c EXCEPT !.asked = x] \in StreamType
    /\ \A c \in StreamType : \A x \in Users \cup {NoUser} : [c EXCEPT !.token = x] \in StreamType
    /\ \A c \in StreamType : \A x \in BOOLEAN : [c EXCEPT !.idle = x] \in StreamType
    /\ \A c \in StreamType : \A x \in BOOLEAN : [c EXCEPT !.backoff = x] \in StreamType
    /\ \A c \in StreamType : \A x \in Seq(Nat) : [c EXCEPT !.up = x] \in StreamType
    /\ \A c \in StreamType : \A x \in Seq(Answer) : [c EXCEPT !.down = x] \in StreamType
  <1>1. \A c \in StreamType : \A x \in StreamState : [c EXCEPT !.state = x] \in StreamType
    BY DEF StreamType
  <1>2. \A c \in StreamType : \A x \in Nat : [c EXCEPT !.closes = x] \in StreamType
    BY DEF StreamType
  <1>3. \A c \in StreamType : \A x \in BOOLEAN : [c EXCEPT !.asked = x] \in StreamType
    BY DEF StreamType
  <1>4. \A c \in StreamType : \A x \in Users \cup {NoUser} : [c EXCEPT !.token = x] \in StreamType
    BY DEF StreamType
  <1>5. \A c \in StreamType : \A x \in BOOLEAN : [c EXCEPT !.idle = x] \in StreamType
    BY DEF StreamType
  <1>6. \A c \in StreamType : \A x \in BOOLEAN : [c EXCEPT !.backoff = x] \in StreamType
    BY DEF StreamType
  <1>7. \A c \in StreamType : \A x \in Seq(Nat) : [c EXCEPT !.up = x] \in StreamType
    BY DEF StreamType
  <1>8. \A c \in StreamType : \A x \in Seq(Answer) : [c EXCEPT !.down = x] \in StreamType
    BY DEF StreamType
  <1> QED BY <1>1, <1>2, <1>3, <1>4, <1>5, <1>6, <1>7, <1>8

\* The fields of a client's stream.
LEMMA SetBoth ==
  ASSUME NEW c \in Client
  PROVE
    /\ \A x \in StreamState : [c EXCEPT !.stream.state = x] \in Client
    /\ \A x \in Nat : [c EXCEPT !.stream.closes = x] \in Client
    /\ \A x \in BOOLEAN : [c EXCEPT !.stream.asked = x] \in Client
    /\ \A x \in Users \cup {NoUser} : [c EXCEPT !.stream.token = x] \in Client
    /\ \A x \in BOOLEAN : [c EXCEPT !.stream.idle = x] \in Client
    /\ \A x \in BOOLEAN : [c EXCEPT !.stream.backoff = x] \in Client
    /\ \A x \in Seq(Nat) : [c EXCEPT !.stream.up = x] \in Client
    /\ \A x \in Seq(Answer) : [c EXCEPT !.stream.down = x] \in Client
  <1>0. c.stream \in StreamType
    BY DEF Client
  <1>1. ASSUME NEW x \in StreamState PROVE [c EXCEPT !.stream.state = x] \in Client
    <2>1. [c EXCEPT !.stream.state = x] = [c EXCEPT !.stream = [c.stream EXCEPT !.state = x]]
      OBVIOUS
    <2> QED BY <2>1, <1>0, SetClient, SetStream, Zenon
  <1>2. ASSUME NEW x \in Nat PROVE [c EXCEPT !.stream.closes = x] \in Client
    <2>1. [c EXCEPT !.stream.closes = x] = [c EXCEPT !.stream = [c.stream EXCEPT !.closes = x]]
      OBVIOUS
    <2> QED BY <2>1, <1>0, SetClient, SetStream, Zenon
  <1>3. ASSUME NEW x \in BOOLEAN PROVE [c EXCEPT !.stream.asked = x] \in Client
    <2>1. [c EXCEPT !.stream.asked = x] = [c EXCEPT !.stream = [c.stream EXCEPT !.asked = x]]
      OBVIOUS
    <2> QED BY <2>1, <1>0, SetClient, SetStream, Zenon
  <1>4. ASSUME NEW x \in Users \cup {NoUser} PROVE [c EXCEPT !.stream.token = x] \in Client
    <2>1. [c EXCEPT !.stream.token = x] = [c EXCEPT !.stream = [c.stream EXCEPT !.token = x]]
      OBVIOUS
    <2> QED BY <2>1, <1>0, SetClient, SetStream, Zenon
  <1>5. ASSUME NEW x \in BOOLEAN PROVE [c EXCEPT !.stream.idle = x] \in Client
    <2>1. [c EXCEPT !.stream.idle = x] = [c EXCEPT !.stream = [c.stream EXCEPT !.idle = x]]
      OBVIOUS
    <2> QED BY <2>1, <1>0, SetClient, SetStream, Zenon
  <1>6. ASSUME NEW x \in BOOLEAN PROVE [c EXCEPT !.stream.backoff = x] \in Client
    <2>1. [c EXCEPT !.stream.backoff = x] = [c EXCEPT !.stream = [c.stream EXCEPT !.backoff = x]]
      OBVIOUS
    <2> QED BY <2>1, <1>0, SetClient, SetStream, Zenon
  <1>7. ASSUME NEW x \in Seq(Nat) PROVE [c EXCEPT !.stream.up = x] \in Client
    <2>1. [c EXCEPT !.stream.up = x] = [c EXCEPT !.stream = [c.stream EXCEPT !.up = x]]
      OBVIOUS
    <2> QED BY <2>1, <1>0, SetClient, SetStream, Zenon
  <1>8. ASSUME NEW x \in Seq(Answer) PROVE [c EXCEPT !.stream.down = x] \in Client
    <2>1. [c EXCEPT !.stream.down = x] = [c EXCEPT !.stream = [c.stream EXCEPT !.down = x]]
      OBVIOUS
    <2> QED BY <2>1, <1>0, SetClient, SetStream, Zenon
  <1> QED BY <1>1, <1>2, <1>3, <1>4, <1>5, <1>6, <1>7, <1>8

\* The values the operators give to fields are of the fields' types.
LEMMA Values ==
    /\ TRUE \in BOOLEAN /\ FALSE \in BOOLEAN
    /\ "Initial" \in StreamState /\ "Starting" \in StreamState /\ "Open" \in StreamState
    /\ "Error" \in StreamState /\ "Backoff" \in StreamState
    /\ NoUser \in Users \cup {NoUser}
    /\ <<>> \in Seq(Nat) /\ <<>> \in Seq(Answer) /\ <<>> \in Seq(Batch)
    /\ "ok" \in Verdict /\ "refused" \in Verdict
  BY DEF StreamState, Verdict

\* An assertion that holds changes nothing.
LEMMA AssertHolds ==
    ASSUME NEW c \in Client, ~c.failed, NEW holds, holds = TRUE
    PROVE  HardAssert(c, holds) = c
  <1>1. (c.failed \/ ~holds) = c.failed
    BY DEF Client
  <1>2. HardAssert(c, holds) = [c EXCEPT !.failed = c.failed]
    BY <1>1 DEF HardAssert
  <1> QED BY <1>2 DEF Client

-----------------------------------------------------------------------------
(* Sequences and numbers. *)

\* The rest of a sequence.
LEMMA TailFacts ==
    ASSUME NEW S, NEW s \in Seq(S), s # <<>>
    PROVE  /\ Head(s) \in S /\ Head(s) = s[1] /\ Tail(s) \in Seq(S)
           /\ Len(s) \in Nat /\ Len(s) >= 1 /\ Len(Tail(s)) = Len(s) - 1
           /\ \A i \in 1..Len(Tail(s)) : Tail(s)[i] = s[i + 1]
  OBVIOUS

\* Two sequences, one behind the other.
LEMMA ConcatFacts ==
    ASSUME NEW S, NEW s \in Seq(S), NEW t \in Seq(S)
    PROVE  /\ s \o t \in Seq(S) /\ Len(s) \in Nat /\ Len(t) \in Nat
           /\ Len(s \o t) = Len(s) + Len(t)
           /\ \A i \in 1..Len(s) : (s \o t)[i] = s[i]
           /\ \A i \in 1..Len(t) : (s \o t)[Len(s) + i] = t[i]
  OBVIOUS

\* A part of a sequence.
LEMMA SubSeqFacts ==
    ASSUME NEW S, NEW s \in Seq(S), NEW m \in 1..(Len(s) + 1), NEW n \in 0..Len(s),
           m <= n + 1
    PROVE  /\ SubSeq(s, m, n) \in Seq(S) /\ Len(SubSeq(s, m, n)) = n - m + 1
           /\ \A i \in 1..(n - m + 1) : SubSeq(s, m, n)[i] = s[m + i - 1]
  OBVIOUS

\* Every set of numbers has a least one.
LEMMA Least ==
    ASSUME NEW S \in SUBSET Nat, S # {}
    PROVE  \E x \in S : \A y \in S : x <= y
  <1> DEFINE R == OpToRel(<, Nat)
  <1>1. IsWellFoundedOn(R, Nat)
    BY NatLessThanWellFounded
  <1>2. \A x, y \in Nat : x < y => <<x, y>> \in R
    BY DEF OpToRel
  <1> HIDE DEF R
  <1>3. PICK x \in S : \A y \in S : ~ (<<y, x>> \in R)
    BY <1>1, WFMin
  <1>4. ASSUME NEW y \in S PROVE x <= y
    <2>1. x \in Nat /\ y \in Nat /\ ~(<<y, x>> \in R)
      BY <1>3
    <2>2. ~(y < x)
      BY <1>2, <2>1
    <2> QED BY <2>1, <2>2
  <1> QED BY <1>3, <1>4

\* The ids in the rows of a queue.
Ids(queue) == {0} \cup UNION {{queue[u][i].id : i \in 1..Len(queue[u])} : u \in Users}

\* The next id is above those of every user's rows.
LEMMA NextIdFits ==
    ASSUME NEW queue \in [Users -> Seq(Batch)], NEW bound, RowsSane(queue, bound)
    PROVE  /\ NextBatchId(queue) \in 1..bound
           /\ RowsSane(queue, NextBatchId(queue))
  <1> DEFINE above == {n \in Nat : \A id \in Ids(queue) : id < n}
  <1>0. MaxWrites \in Nat /\ bound \in 1..(MaxWrites + 1)
    BY ParametersAssumption DEF RowsSane
  <1>1. ASSUME NEW id \in Ids(queue) PROVE id \in 0..(bound - 1)
    <2>1. CASE id = 0
      BY <1>0, <2>1
    <2>2. CASE id # 0
      <3>1. PICK u \in Users : \E i \in 1..Len(queue[u]) : id = queue[u][i].id
        BY <2>2 DEF Ids
      <3> QED BY <1>0, <3>1 DEF RowsSane, Ordered
    <2> QED BY <2>1, <2>2
  <1>2. bound \in above
    BY <1>0, <1>1
  <1>3. above \in SUBSET Nat
    OBVIOUS
  <1> HIDE DEF above
  <1>4. PICK n \in above : \A m \in above : n <= m
    BY <1>2, <1>3, Least
  <1>5. n \in Nat /\ \A id \in Ids(queue) : id < n
    BY <1>4 DEF above
  <1>6. 0 \in Ids(queue)
    BY DEF Ids
  <1>7. n >= 1 /\ n <= bound
    BY <1>0, <1>2, <1>4, <1>5, <1>6
  <1>8. n - 1 \in Ids(queue)
    <2> SUFFICES ASSUME n - 1 \notin Ids(queue) PROVE FALSE
      OBVIOUS
    <2>1. \A id \in Ids(queue) : id < n - 1
      BY <1>0, <1>1, <1>5, <1>7
    <2>2. n - 1 \in above
      BY <1>5, <1>7, <2>1 DEF above
    <2> QED BY <1>4, <1>5, <2>2
  <1>9. \E k \in 1..(MaxWrites + 1) : k - 1 \in Ids(queue) /\ \A id \in Ids(queue) : id < k
    BY <1>0, <1>5, <1>7, <1>8
  <1> DEFINE k == NextBatchId(queue)
  <1>10. k = CHOOSE m \in 1..(MaxWrites + 1) :
                 m - 1 \in Ids(queue) /\ \A id \in Ids(queue) : id < m
    BY DEF NextBatchId, Ids
  <1>11. k \in 1..(MaxWrites + 1) /\ k - 1 \in Ids(queue) /\ \A id \in Ids(queue) : id < k
    BY <1>9, <1>10
  <1> HIDE DEF k
  <1>12. k \in 1..bound
    BY <1>0, <1>1, <1>11
  <1>13. \A u \in Users : \A i \in 1..Len(queue[u]) : queue[u][i].id \in Ids(queue)
    BY DEF Ids
  <1>14. \A u \in Users : \A i \in 1..Len(queue[u]) : queue[u][i].id \in 1..(k - 1)
    BY <1>0, <1>11, <1>12, <1>13 DEF RowsSane, Ordered
  <1>15. RowsSane(queue, k)
    BY <1>0, <1>12, <1>14 DEF RowsSane, Ordered
  <1> QED BY <1>12, <1>15 DEF k


-----------------------------------------------------------------------------
(* The stream. *)

\* What an operation on the stream or the pipeline leaves alone.
Rest(c, d) ==
    /\ d.user = c.user /\ d.queue = c.queue /\ d.nextId = c.nextId
    /\ d.callbacks = c.callbacks /\ d.told = c.told /\ d.fresh = c.fresh
    /\ d.failed = c.failed /\ d.network = c.network /\ d.handshake = c.handshake

\* What is on its way is the same.
LEMMA SameWire ==
    ASSUME NEW s, NEW t, NEW pipeline, NEW handshake, OnWire(s, pipeline, handshake),
           t.state = s.state, t.up = s.up, t.down = s.down
    PROVE  OnWire(t, pipeline, handshake)
  BY DEF OnWire, IsOpen

\* A stream that is needed starts, or waits for its backoff to elapse.
LEMMA StartSane ==
    ASSUME NEW c, Sane(c), ShouldStartWriteStream(c), NEW d, d = StartStream(c)
    PROVE  /\ Sane(d) /\ IsStarted(d.stream) /\ ~IsOpen(d.stream)
           /\ d.stream.closes = c.stream.closes /\ Asks(d.stream)
           /\ Rest(c, d) /\ d.pipeline = c.pipeline
  <1>1. c \in Client /\ c.stream \in StreamType
    BY DEF Sane, Client
  <1>2. c.network /\ ~IsStarted(c.stream) /\ c.pipeline # <<>>
    BY DEF ShouldStartWriteStream
  <1>3. CASE c.stream.state = "Error"
    <2>1. d = [c EXCEPT !.stream.state = "Backoff", !.stream.backoff = TRUE]
      BY <1>3 DEF StartStream
    <2>2. [c EXCEPT !.stream.state = "Backoff", !.stream.backoff = TRUE] \in Client
      BY <1>1, SetBoth, Values, Zenon
    <2>3. d.stream = [c.stream EXCEPT !.state = "Backoff", !.backoff = TRUE]
      BY <2>1, <1>1 DEF Client
    <2>4. /\ d.stream.state = "Backoff" /\ d.stream.backoff = TRUE
          /\ d.stream.closes = c.stream.closes /\ d.stream.up = c.stream.up
          /\ d.stream.down = c.stream.down /\ d.stream.idle = c.stream.idle
          /\ d.stream.asked = c.stream.asked
      BY <2>3, <1>1, <1>3 DEF StreamType
    <2>5. Rest(c, d) /\ d.pipeline = c.pipeline
      BY <2>1, <1>1 DEF Client, Rest
    <2> QED BY <1>2, <1>3, <2>1, <2>2, <2>4, <2>5
            DEF Sane, StreamSane, Asks, OnWire, Rest, IsStarted, IsOpen
  <1>4. CASE c.stream.state = "Initial"
    <2>1. d = [c EXCEPT !.stream.state = "Starting", !.stream.asked = TRUE]
      BY <1>4 DEF StartStream
    <2>2. [c EXCEPT !.stream.state = "Starting", !.stream.asked = TRUE] \in Client
      BY <1>1, SetBoth, Values, Zenon
    <2>3. d.stream = [c.stream EXCEPT !.state = "Starting", !.asked = TRUE]
      BY <2>1, <1>1 DEF Client
    <2>4. /\ d.stream.state = "Starting" /\ d.stream.backoff = c.stream.backoff
          /\ d.stream.closes = c.stream.closes /\ d.stream.up = c.stream.up
          /\ d.stream.down = c.stream.down /\ d.stream.idle = c.stream.idle
          /\ d.stream.asked = TRUE
      BY <2>3, <1>1, <1>4 DEF StreamType
    <2>5. Rest(c, d) /\ d.pipeline = c.pipeline
      BY <2>1, <1>1 DEF Client, Rest
    <2> QED BY <1>2, <1>4, <2>1, <2>2, <2>4, <2>5
            DEF Sane, StreamSane, Asks, OnWire, Rest, IsStarted, IsOpen
  <1> QED BY <1>1, <1>2, <1>3, <1>4 DEF IsStarted, StreamType, StreamState

\* A stream starts if it is needed, and is left alone otherwise.
LEMMA IfNeededSane ==
    ASSUME NEW c, Sane(c), NEW d, d = StartIfNeeded(c)
    PROVE  /\ Sane(d) /\ Follows(c, d) /\ Rest(c, d) /\ d.pipeline = c.pipeline
           /\ d.stream.closes = c.stream.closes
           /\ IsStarted(c.stream) => d = c
           /\ ~IsStarted(c.stream) => ~IsOpen(d.stream)
           /\ c.network /\ c.pipeline # <<>> => IsStarted(d.stream)
  <1>1. CASE ShouldStartWriteStream(c)
    <2>1. d = StartStream(c)
      BY <1>1 DEF StartIfNeeded
    <2> QED BY <1>1, <2>1, StartSane DEF ShouldStartWriteStream, Follows, IsStarted
  <1>2. CASE ~ShouldStartWriteStream(c)
    BY <1>2 DEF StartIfNeeded, ShouldStartWriteStream, Follows, Asks, Rest, IsOpen, IsStarted
  <1> QED BY <1>1, <1>2

\* Requests are sent over an open stream, whose idle timer is stopped.
LEMMA SendFields ==
    ASSUME NEW c \in Client, ~c.failed, IsOpen(c.stream), NEW requests \in Seq(Nat),
           NEW d, d = Send(c, requests)
    PROVE  /\ d \in Client /\ Rest(c, d) /\ d.pipeline = c.pipeline
           /\ d.stream.closes = c.stream.closes /\ d.stream.state = c.stream.state
           /\ d.stream.asked = c.stream.asked /\ d.stream.backoff = c.stream.backoff
           /\ d.stream.down = c.stream.down /\ d.stream.idle = FALSE
           /\ d.stream.up = c.stream.up \o requests
  <1> DEFINE all == c.stream.up \o requests
  <1>1. HardAssert(c, IsOpen(c.stream)) = c
    BY AssertHolds
  <1>2. d = [c EXCEPT !.stream.idle = FALSE, !.stream.up = all]
    BY <1>1 DEF Send
  <1>3. c.stream \in StreamType /\ c.stream.up \in Seq(Nat)
    BY DEF Client, StreamType
  <1>4. all \in Seq(Nat)
    BY <1>3
  <1> HIDE DEF all
  <1>5. [c EXCEPT !.stream.idle = FALSE, !.stream.up = all] \in Client
    BY <1>4, SetBoth, Values, Zenon
  <1>6. d.stream = [c.stream EXCEPT !.idle = FALSE, !.up = all]
    BY <1>2 DEF Client
  <1>7. /\ d.stream.closes = c.stream.closes /\ d.stream.state = c.stream.state
        /\ d.stream.asked = c.stream.asked /\ d.stream.backoff = c.stream.backoff
        /\ d.stream.down = c.stream.down /\ d.stream.idle = FALSE
        /\ d.stream.up = all
    BY <1>3, <1>6 DEF StreamType
  <1>8. Rest(c, d) /\ d.pipeline = c.pipeline
    BY <1>2 DEF Client, Rest
  <1> QED BY <1>2, <1>5, <1>7, <1>8 DEF all

\* An idle stream is marked when nothing is left to send.
LEMMA MarkIdleSane ==
    ASSUME NEW c, Sane(c), c.pipeline = <<>>, NEW d, d = MarkIdle(c)
    PROVE  /\ Sane(d) /\ Rest(c, d) /\ d.pipeline = c.pipeline
           /\ d.stream.closes = c.stream.closes /\ d.stream.state = c.stream.state
           /\ d.stream.asked = c.stream.asked
           /\ IsOpen(c.stream) => d.stream.idle
  <1> DEFINE idle == c.stream.idle \/ IsOpen(c.stream)
  <1>1. c \in Client /\ c.stream \in StreamType
    BY DEF Sane, Client
  <1>2. d = [c EXCEPT !.stream.idle = idle]
    BY DEF MarkIdle
  <1>3. idle \in BOOLEAN /\ idle = IsOpen(c.stream)
    BY DEF Sane, StreamSane, IsOpen
  <1> HIDE DEF idle
  <1>4. [c EXCEPT !.stream.idle = idle] \in Client
    BY <1>1, <1>3, SetBoth, Zenon
  <1>5. d.stream = [c.stream EXCEPT !.idle = idle]
    BY <1>1, <1>2 DEF Client
  <1>6. /\ d.stream.closes = c.stream.closes /\ d.stream.state = c.stream.state
        /\ d.stream.asked = c.stream.asked /\ d.stream.backoff = c.stream.backoff
        /\ d.stream.down = c.stream.down /\ d.stream.up = c.stream.up
        /\ d.stream.idle = idle
    BY <1>1, <1>5 DEF StreamType
  <1>7. Rest(c, d) /\ d.pipeline = c.pipeline
    BY <1>1, <1>2 DEF Client, Rest
  <1>8. IsOpen(c.stream) => c.handshake
    BY DEF Sane, IsStarted, IsOpen
  <1>9. OnWire(d.stream, d.pipeline, d.handshake)
    BY <1>6, <1>7, SameWire DEF Sane, Rest
  <1> QED BY <1>2, <1>3, <1>4, <1>6, <1>7, <1>8, <1>9
          DEF Sane, StreamSane, Rest, IsStarted, IsOpen

-----------------------------------------------------------------------------
(* The pipeline. *)

\* What of the rows the first n leave.
LeftOf(left, rows, n) ==
    /\ left \in Seq(Batch) /\ Len(left) = Len(rows) - n
    /\ \A i \in 1..Len(left) : left[i] = rows[n + i]

\* The rows after the last one in the pipeline are those the pipeline misses.
LEMMA RowsAfterLast ==
    ASSUME NEW rows \in Seq(Batch), NEW next \in Int,
           Ordered(rows, next), NEW pipeline \in Seq(Batch), Heads(pipeline, rows),
           NEW last, last = IF pipeline = <<>> THEN 0 ELSE pipeline[Len(pipeline)].id,
           NEW left, left = RowsAfter(rows, last)
    PROVE  LeftOf(left, rows, Len(pipeline))
  <1> SUFFICES /\ left \in Seq(Batch) /\ Len(left) = Len(rows) - Len(pipeline)
               /\ \A i \in 1..Len(left) : left[i] = rows[Len(pipeline) + i]
    BY DEF LeftOf
  <1> DEFINE n == Len(pipeline)
             later == {i \in 1..Len(rows) : rows[i].id > last}
  <1>1. n \in Nat /\ Len(rows) \in Nat /\ n <= Len(rows)
    BY DEF Heads
  <1>2. last = IF n = 0 THEN 0 ELSE rows[n].id
    BY <1>1 DEF Heads
  <1>3. \A i \in 1..Len(rows) : rows[i].id > last <=> i > n
    <2> SUFFICES ASSUME NEW i \in 1..Len(rows) PROVE rows[i].id > last <=> i > n
      OBVIOUS
    <2>1. CASE n = 0
      BY <1>2, <2>1 DEF Ordered
    <2>2. CASE n # 0
      <3>1. n \in 1..Len(rows) /\ last = rows[n].id
        BY <1>1, <1>2, <2>2
      <3>2. i > n => rows[i].id > last
        BY <3>1 DEF Ordered
      <3>3. i = n => ~(rows[i].id > last)
        BY <3>1 DEF Ordered
      <3>4. i < n => ~(rows[i].id > last)
        BY <3>1 DEF Ordered
      <3> QED BY <1>1, <3>2, <3>3, <3>4
    <2> QED BY <2>1, <2>2
  <1> HIDE DEF n
  <1>4. left = IF later = {} THEN <<>>
               ELSE SubSeq(rows, CHOOSE i \in later : \A j \in later : i <= j, Len(rows))
    BY DEF RowsAfter
  <1>5. \A i : i \in later <=> i \in 1..Len(rows) /\ i > n
    BY <1>3
  <1> HIDE DEF later
  <1>6. CASE n = Len(rows)
    <2>0. later = {}
      BY <1>1, <1>5, <1>6
    <2>1. left = <<>>
      BY <1>4, <2>0
    <2>3. <<>> \in Seq(Batch) /\ Len(<<>>) = 0
      OBVIOUS
    <2>2. left \in Seq(Batch) /\ Len(left) = 0
      BY <2>1, <2>3, Zenon
    <2> QED BY <1>1, <1>6, <2>2 DEF n
  <1>7. CASE n < Len(rows)
    <2>1. n + 1 \in later /\ \A j \in later : n + 1 <= j
      BY <1>1, <1>5, <1>7
    <2> DEFINE k == CHOOSE i \in later : \A j \in later : i <= j
    <2>2. k \in later /\ \A j \in later : k <= j
      BY <2>1
    <2> HIDE DEF k
    <2>3. k = n + 1
      BY <1>1, <1>5, <2>1, <2>2
    <2>4. left = SubSeq(rows, n + 1, Len(rows))
      BY <1>4, <2>1, <2>3 DEF k
    <2>5. n + 1 \in 1..(Len(rows) + 1) /\ Len(rows) \in 0..Len(rows)
      BY <1>1, <1>7
    <2> DEFINE m == n + 1
    <2>8. m \in 1..(Len(rows) + 1) /\ m <= Len(rows) + 1
      BY <1>1, <2>5
    <2> HIDE DEF m
    <2>9. /\ SubSeq(rows, m, Len(rows)) \in Seq(Batch)
          /\ Len(SubSeq(rows, m, Len(rows))) = Len(rows) - m + 1
          /\ \A i \in 1..(Len(rows) - m + 1) : SubSeq(rows, m, Len(rows))[i] = rows[m + i - 1]
      BY <2>5, <2>8, SubSeqFacts
    <2>6. /\ left \in Seq(Batch) /\ Len(left) = Len(rows) - (n + 1) + 1
          /\ \A i \in 1..(Len(rows) - (n + 1) + 1) : left[i] = rows[(n + 1) + i - 1]
      BY <2>4, <2>9 DEF m
    <2>7. \A i \in 1..Len(left) : (n + 1) + i - 1 = n + i
      BY <1>1
    <2> QED BY <1>1, <2>6, <2>7 DEF n
  <1> QED BY <1>1, <1>6, <1>7


\* The pipeline alone changes.
LEMMA SetPipeline ==
    ASSUME NEW c \in Client, NEW pipeline \in Seq(Batch),
           NEW d, d = [c EXCEPT !.pipeline = pipeline]
    PROVE  /\ d \in Client /\ Rest(c, d) /\ d.stream = c.stream /\ d.pipeline = pipeline
  <1>1. [c EXCEPT !.pipeline = pipeline] \in Client
    BY SetClient, Zenon
  <1>2. Rest(c, d) /\ d.stream = c.stream /\ d.pipeline = pipeline
    BY DEF Client, Rest
  <1> QED BY <1>1, <1>2

\* The rows the pipeline misses, and those it takes.
LastId(pipeline) == IF pipeline = <<>> THEN 0 ELSE pipeline[Len(pipeline)].id
Left(c) == RowsAfter(c.queue[c.user], LastId(c.pipeline))
Taken(c) == IF Len(Left(c)) < Room(c) THEN Left(c) ELSE SubSeq(Left(c), 1, Room(c))

\* The rows of the user that the pipeline does not hold yet.
LEMMA LeftFacts ==
    ASSUME NEW c, Sane(c), Prefixed(c), NEW rows, rows = c.queue[c.user]
    PROVE  /\ rows \in Seq(Batch) /\ c.pipeline \in Seq(Batch)
           /\ Heads(c.pipeline, rows) /\ LeftOf(Left(c), rows, Len(c.pipeline))
  <1> DEFINE pipeline == c.pipeline
             last == LastId(pipeline)
             left == Left(c)
             next == c.nextId
  <1>1. rows \in Seq(Batch) /\ pipeline \in Seq(Batch) /\ next \in Int /\ c.user \in Users
    BY DEF Sane, Client
  <1>2. Ordered(rows, next) /\ Heads(pipeline, rows)
    BY <1>1 DEF Sane, RowsSane, Prefixed
  <1>3. left = RowsAfter(rows, last)
    BY DEF Left
  <1>4. last = IF pipeline = <<>> THEN 0 ELSE pipeline[Len(pipeline)].id
    BY DEF LastId
  <1> HIDE DEF last, left, next, pipeline
  <1>5. LeftOf(left, rows, Len(pipeline))
    BY <1>1, <1>2, <1>3, <1>4, RowsAfterLast
  <1> QED BY <1>1, <1>2, <1>5 DEF pipeline, left

\* Arithmetic of the pipeline's room.
LEMMA RoomOf ==
    ASSUME NEW n \in Nat, n <= MaxPendingWrites, NEW network \in BOOLEAN,
           NEW room, room = IF network THEN MaxPendingWrites - n ELSE 0
    PROVE  /\ room \in Nat /\ n + room <= MaxPendingWrites
           /\ ~network => room = 0
           /\ network /\ n = 0 => room > 0
  BY ParametersAssumption

\* The room left in a client's pipeline.
LEMMA RoomFacts ==
    ASSUME NEW c, Sane(c), NEW n, n = Len(c.pipeline), NEW room, room = Room(c)
    PROVE  /\ n \in Nat /\ room \in Nat /\ n + room <= MaxPendingWrites
           /\ ~c.network => room = 0
           /\ c.network /\ n = 0 => room > 0
  <1> DEFINE network == c.network
  <1>1. n \in Nat /\ n <= MaxPendingWrites
    BY DEF Sane, Client
  <1>2. room = IF network THEN MaxPendingWrites - n ELSE 0
    BY DEF Room
  <1>3. network \in BOOLEAN
    BY DEF Sane, Client
  <1> HIDE DEF network
  <1>4. /\ room \in Nat /\ n + room <= MaxPendingWrites
        /\ ~network => room = 0
        /\ network /\ n = 0 => room > 0
    BY <1>1, <1>2, <1>3, RoomOf
  <1> QED BY <1>1, <1>4 DEF network

\* What fits of the rows that are left.
TakenOf(taken, left, room) ==
    /\ taken \in Seq(Batch) /\ Len(taken) <= room /\ Len(taken) <= Len(left)
    /\ \A i \in 1..Len(taken) : taken[i] = left[i]
    /\ Len(taken) = IF Len(left) < room THEN Len(left) ELSE room

\* As many rows are taken as there is room for.
LEMMA TakenIs ==
    ASSUME NEW left \in Seq(Batch), NEW room \in Nat,
           NEW taken, taken = IF Len(left) < room THEN left ELSE SubSeq(left, 1, room)
    PROVE  TakenOf(taken, left, room)
  <1>1. CASE Len(left) < room
    BY <1>1 DEF TakenOf
  <1>2. CASE ~(Len(left) < room)
    <2>1. room \in 0..Len(left) /\ 1 \in 1..(Len(left) + 1) /\ 1 <= room + 1
      BY <1>2
    <2>2. /\ SubSeq(left, 1, room) \in Seq(Batch) /\ Len(SubSeq(left, 1, room)) = room - 1 + 1
          /\ \A i \in 1..(room - 1 + 1) : SubSeq(left, 1, room)[i] = left[1 + i - 1]
      BY <2>1, SubSeqFacts
    <2>3. room - 1 + 1 = room
      OBVIOUS
    <2>4. taken = SubSeq(left, 1, room)
      BY <1>2
    <2>5. /\ taken \in Seq(Batch) /\ Len(taken) = room
          /\ \A i \in 1..room : taken[i] = left[i]
      BY <2>2, <2>3, <2>4
    <2> QED BY <1>2, <2>1, <2>5 DEF TakenOf
  <1> QED BY <1>1, <1>2

\* A pipeline that takes the next rows is still the head of the queue.
LEMMA HeadsGrow ==
    ASSUME NEW rows \in Seq(Batch), NEW pipeline \in Seq(Batch), NEW left, NEW taken,
           NEW room, Heads(pipeline, rows), LeftOf(left, rows, Len(pipeline)),
           TakenOf(taken, left, room)
    PROVE  Heads(pipeline \o taken, rows)
  <1>1. \A i \in 1..Len(pipeline) : pipeline[i] = rows[i]
    BY DEF Heads
  <1>2. /\ taken \in Seq(Batch) /\ Len(left) \in Nat
        /\ Len(pipeline) + Len(taken) <= Len(rows)
    BY DEF LeftOf, TakenOf
  <1>3. \A i \in 1..Len(taken) : taken[i] = rows[Len(pipeline) + i]
    BY <1>2 DEF LeftOf, TakenOf
  <1> QED BY <1>1, <1>2, <1>3 DEF Heads

\* The room of the pipeline is filled as far as there are rows.
LEMMA FilledOf ==
    ASSUME NEW n \in Nat, NEW m \in Nat, NEW k \in Nat, NEW room \in Nat,
           n + room = MaxPendingWrites, m = IF k < room THEN k ELSE room, NEW rows \in Nat,
           k = rows - n
    PROVE  n + m = IF rows < MaxPendingWrites THEN rows ELSE MaxPendingWrites
  BY ParametersAssumption

\* What the pipeline takes from the queue.
LEMMA TakenFacts ==
    ASSUME NEW c, Sane(c), Prefixed(c), NEW taken, taken = Taken(c), NEW left, left = Left(c)
    PROVE  /\ left \in Seq(Batch) /\ taken \in Seq(Batch) /\ Room(c) \in Nat
           /\ Len(c.pipeline) + Len(taken) <= MaxPendingWrites
           /\ Heads(c.pipeline \o taken, c.queue[c.user])
           /\ c.network /\ c.pipeline = <<>> /\ taken = <<>> => Len(left) < Room(c)
           /\ ~c.network => taken = <<>>
           /\ c.network => Filled(c.pipeline \o taken, c.queue[c.user])
  <1> DEFINE rows == c.queue[c.user]
             room == Room(c)
             pipeline == c.pipeline
             n == Len(pipeline)
             network == c.network
  <1>1. /\ rows \in Seq(Batch) /\ pipeline \in Seq(Batch)
        /\ Heads(pipeline, rows) /\ LeftOf(left, rows, Len(pipeline))
    BY LeftFacts
  <1>2. /\ n \in Nat /\ room \in Nat /\ n + room <= MaxPendingWrites
        /\ ~network => room = 0
        /\ network /\ n = 0 => room > 0
    BY RoomFacts
  <1>13. network => n + room = MaxPendingWrites
    BY <1>2, ParametersAssumption DEF Room
  <1>0. taken = IF Len(left) < room THEN left ELSE SubSeq(left, 1, room)
    BY DEF Taken
  <1> HIDE DEF rows, room, pipeline, network
  <1>3. left \in Seq(Batch)
    BY <1>1 DEF LeftOf
  <1>4. TakenOf(taken, left, room)
    BY <1>0, <1>2, <1>3, TakenIs
  <1>5. Heads(pipeline \o taken, rows)
    BY <1>1, <1>4, HeadsGrow
  <1> DEFINE m == Len(taken)
  <1>6. taken \in Seq(Batch) /\ m \in Nat /\ m <= room
    BY <1>4 DEF TakenOf
  <1>7. (taken = <<>> <=> m = 0) /\ (pipeline = <<>> <=> n = 0)
    BY <1>1, <1>6
  <1>8. m = IF Len(left) < room THEN Len(left) ELSE room
    BY <1>4 DEF TakenOf
  <1>14. Len(pipeline \o taken) = n + m
    BY <1>1, <1>6, ConcatFacts
  <1>15. Len(rows) \in Nat /\ Len(left) \in Nat /\ Len(left) = Len(rows) - n
    BY <1>1, <1>3 DEF LeftOf
  <1> HIDE DEF m, n
  <1>9. MaxPendingWrites \in Nat
    BY ParametersAssumption
  <1>10. n + m <= MaxPendingWrites
    BY <1>2, <1>6, <1>9
  <1>11. network /\ pipeline = <<>> /\ taken = <<>> => Len(left) < room
    BY <1>2, <1>6, <1>7, <1>8
  <1>12. ~network => taken = <<>>
    BY <1>2, <1>6, <1>7
  <1>16. ASSUME network PROVE Filled(pipeline \o taken, rows)
    <2>1. n + m = IF Len(rows) < MaxPendingWrites THEN Len(rows) ELSE MaxPendingWrites
      BY <1>2, <1>6, <1>8, <1>13, <1>15, <1>16, FilledOf
    <2> QED BY <1>14, <2>1 DEF Filled
  <1> QED BY <1>2, <1>3, <1>5, <1>6, <1>10, <1>11, <1>12, <1>16 DEF rows, room, pipeline, network, n, m

\* The batches' writes.
LEMMA WritesOfFacts ==
    ASSUME NEW batches \in Seq(Batch)
    PROVE  /\ WritesOf(batches) \in Seq(Nat) /\ Len(WritesOf(batches)) = Len(batches)
           /\ \A i \in 1..Len(batches) : WritesOf(batches)[i] = batches[i].write
  <1>1. ASSUME NEW i \in 1..Len(batches) PROVE batches[i].write \in Nat
    <2> DEFINE b == batches[i]
    <2>1. b \in Batch
      OBVIOUS
    <2> HIDE DEF b
    <2>2. b.write \in Nat
      BY <2>1 DEF Batch
    <2> QED BY <2>2 DEF b
  <1> QED BY <1>1 DEF WritesOf

\* What goes out when a pipeline that was sent takes more.
LEMMA WireGrows ==
    ASSUME NEW down \in Seq(Answer), NEW up \in Seq(Nat),
           NEW pipeline \in Seq(Batch), NEW taken \in Seq(Batch),
           NEW writes, writes = WritesOf(taken), Matches(down, up, pipeline)
    PROVE  Matches(down, up \o writes, pipeline \o taken)
  <1>0. writes \in Seq(Nat) /\ Len(writes) = Len(taken)
    BY WritesOfFacts
  <1> DEFINE d == Len(down)
             u == Len(up)
             p == Len(pipeline)
             t == Len(taken)
             all == pipeline \o taken
             sent == up \o writes
  <1>1. d \in Nat /\ u \in Nat /\ p \in Nat /\ t \in Nat /\ d + u = p
    BY DEF Matches
  <1>2. /\ Len(all) = p + t /\ \A i \in 1..p : all[i] = pipeline[i]
        /\ \A i \in 1..t : all[p + i] = taken[i]
    OBVIOUS
  <1>3. /\ Len(sent) = u + t /\ \A i \in 1..u : sent[i] = up[i]
        /\ \A i \in 1..t : sent[u + i] = writes[i]
    <2>1. writes \in Seq(Nat)
      BY <1>0
    <2>2. /\ Len(sent) = u + Len(writes) /\ \A i \in 1..u : sent[i] = up[i]
          /\ \A i \in 1..Len(writes) : sent[u + i] = writes[i]
      BY <2>1, ConcatFacts
    <2> QED BY <1>0, <2>2, Zenon
  <1>4. /\ \A i \in 1..d : down[i].write = pipeline[i].write
        /\ \A i \in 1..u : up[i] = pipeline[d + i].write
    BY DEF Matches
  <1>5. \A i \in 1..t : writes[i] = taken[i].write
    BY WritesOfFacts
  <1> HIDE DEF d, u, p, t, all, sent
  <1>6. d + Len(sent) = Len(all)
    BY <1>1, <1>2, <1>3
  <1>7. ASSUME NEW i \in 1..d PROVE down[i].write = all[i].write
    <2>1. i \in 1..p
      BY <1>1
    <2> QED BY <1>2, <1>4, <2>1
  <1>8. ASSUME NEW i \in 1..Len(sent) PROVE sent[i] = all[d + i].write
    <2>1. CASE i <= u
      <3>1. i \in 1..u /\ d + i \in 1..p
        BY <1>1, <1>3, <2>1
      <3> QED BY <1>2, <1>3, <1>4, <3>1
    <2>2. CASE ~(i <= u)
      <3> DEFINE j == i - u
      <3>1. j \in 1..t /\ u + j = i /\ d + i = p + j
        BY <1>1, <1>3, <2>2
      <3> HIDE DEF j
      <3>2. sent[i] = writes[j] /\ all[d + i] = taken[j]
        BY <1>2, <1>3, <3>1
      <3> QED BY <1>5, <3>1, <3>2
    <2> QED BY <2>1, <2>2
  <1> QED BY <1>6, <1>7, <1>8 DEF Matches, d, all, sent

\* A client whose pipeline has become all, with the new rows sent.
SentRight(c, d, all) ==
    /\ Sane(d) /\ Rest(c, d) /\ d.pipeline = all
    /\ d.stream.closes = c.stream.closes /\ d.stream.state = c.stream.state
    /\ d.stream.asked = c.stream.asked /\ ~d.stream.idle

\* The rows that go out when a stream that has shaken hands takes more.
LEMMA SentSane ==
    ASSUME NEW c, Sane(c), IsOpen(c.stream), c.handshake, NEW taken \in Seq(Batch),
           taken # <<>>, NEW all, all = c.pipeline \o taken,
           Len(all) <= MaxPendingWrites,
           NEW d, d = WriteMutations([c EXCEPT !.pipeline = all], taken)
    PROVE  SentRight(c, d, all)
  <1> DEFINE full == [c EXCEPT !.pipeline = all]
  <1>20. c \in Client /\ c.pipeline \in Seq(Batch)
    BY DEF Sane, Client
  <1>21. all \in Seq(Batch)
    BY <1>20
  <1>22. full \in Client /\ Rest(c, full) /\ full.stream = c.stream /\ full.pipeline = all
    <2>1. [c EXCEPT !.pipeline = all] \in Client
      BY <1>20, <1>21, SetClient, Zenon
    <2>2. Rest(c, full) /\ full.stream = c.stream /\ full.pipeline = all
      BY <1>20 DEF Client, Rest
    <2> QED BY <2>1, <2>2
  <1>23. d = WriteMutations(full, taken)
    OBVIOUS
  <1> HIDE DEF full
  <1> DEFINE requests == WritesOf(taken)
             down == c.stream.down
             up == c.stream.up
             pipeline == c.pipeline
  <1>1. HardAssert(full, full.handshake) = full
    BY <1>22, AssertHolds DEF Sane, Rest, Client
  <1>2. d = Send(full, requests)
    BY <1>1, <1>23 DEF WriteMutations, WritesOf
  <1>3. requests \in Seq(Nat)
    BY WritesOfFacts
  <1>4. /\ pipeline \in Seq(Batch) /\ down \in Seq(Answer) /\ up \in Seq(Nat)
    BY DEF Sane, Client, StreamType
  <1>5. Matches(down, up, pipeline)
    BY DEF Sane, OnWire
  <1>6. ~full.failed /\ IsOpen(full.stream)
    BY <1>22 DEF Sane, Rest
  <1> HIDE DEF requests
  <1>7. /\ d \in Client /\ Rest(full, d) /\ d.pipeline = full.pipeline
        /\ d.stream.closes = full.stream.closes /\ d.stream.state = full.stream.state
        /\ d.stream.asked = full.stream.asked /\ d.stream.backoff = full.stream.backoff
        /\ d.stream.down = full.stream.down /\ d.stream.idle = FALSE
        /\ d.stream.up = full.stream.up \o requests
    BY <1>2, <1>3, <1>6, <1>22, SendFields
  <1> HIDE DEF down, up, pipeline
  <1>8. Matches(down, up \o requests, pipeline \o taken)
    BY <1>4, <1>5, WireGrows DEF requests
  <1>9. d.stream.down = down /\ d.stream.up = up \o requests /\ d.pipeline = pipeline \o taken
    BY <1>7, <1>22 DEF down, up, pipeline
  <1>10. Rest(c, d)
    BY <1>7, <1>22 DEF Rest
  <1>11. d.handshake = TRUE
    BY <1>10 DEF Rest, Sane, Client
  <1>12. OnWire(d.stream, d.pipeline, d.handshake)
    BY <1>8, <1>9, <1>11 DEF OnWire
  <1>13. StreamSane(d.stream)
    BY <1>7, <1>22 DEF Sane, StreamSane, IsOpen
  <1>14. all # <<>>
    BY <1>4 DEF pipeline
  <1> QED BY <1>7, <1>10, <1>11, <1>12, <1>13, <1>14, <1>22
          DEF SentRight, Sane, Rest, IsOpen, IsStarted

\* Filling the pipeline, sending what is new, and starting a stream that is needed.
LEMMA FillSane ==
    ASSUME NEW c, Sane(c), Prefixed(c), NEW d, d = FillWritePipeline(c)
    PROVE  /\ Sane(d) /\ Prefixed(d) /\ IdleFits(d) /\ Follows(c, d) /\ Rest(c, d)
           /\ d.stream.closes = c.stream.closes
           /\ ~IsStarted(c.stream) => ~IsOpen(d.stream)
           /\ IsOpen(c.stream) => IsOpen(d.stream)
           /\ ~c.network => d.pipeline = c.pipeline
           /\ Served(d)
  <1> DEFINE left == Left(c)
             taken == Taken(c)
             all == c.pipeline \o taken
             full == [c EXCEPT !.pipeline = all]
             sent == IF IsOpen(c.stream) /\ c.handshake
                     THEN WriteMutations(full, taken) ELSE full
             idle == IF Len(left) < Room(c) /\ sent.pipeline = <<>>
                     THEN MarkIdle(sent) ELSE sent
  <1>1. d = StartIfNeeded(idle)
    BY Zenon DEF FillWritePipeline, Left, Taken, LastId
  <1>2. c \in Client /\ c.stream \in StreamType /\ c.pipeline \in Seq(Batch)
    BY DEF Sane, Client
  <1>3. /\ left \in Seq(Batch) /\ taken \in Seq(Batch) /\ Room(c) \in Nat
        /\ Len(c.pipeline) + Len(taken) <= MaxPendingWrites
        /\ Heads(c.pipeline \o taken, c.queue[c.user])
        /\ c.network /\ c.pipeline = <<>> /\ taken = <<>> => Len(left) < Room(c)
        /\ ~c.network => taken = <<>>
        /\ c.network => Filled(all, c.queue[c.user])
    BY TakenFacts
  <1> HIDE DEF left, taken
  <1>4. CASE taken = <<>>
    <2>1. all = c.pipeline
      BY <1>2, <1>4
    <2>2. full = c
      BY <1>2, <2>1 DEF Client
    <2>3. WriteMutations(full, taken) = full
      BY <1>4 DEF WriteMutations
    <2>4. sent = c
      BY <2>2, <2>3
    <2> HIDE DEF sent
    <2>5. CASE Len(left) < Room(c) /\ c.pipeline = <<>>
      <3>1. idle = MarkIdle(c)
        BY <2>4, <2>5
      <3> HIDE DEF idle
      <3>2. /\ Sane(idle) /\ Rest(c, idle) /\ idle.pipeline = c.pipeline
            /\ idle.stream.closes = c.stream.closes /\ idle.stream.state = c.stream.state
            /\ idle.stream.asked = c.stream.asked
            /\ IsOpen(c.stream) => idle.stream.idle
        BY <2>5, <3>1, MarkIdleSane
      <3>3. d = idle
        BY <1>1, <2>5, <3>2 DEF StartIfNeeded, ShouldStartWriteStream
      <3>4. Served(d)
        BY <1>3, <2>1, <2>5, <3>2, <3>3 DEF Served, Rest
      <3> QED BY <3>2, <3>3, <3>4, <2>5
              DEF Prefixed, Sane, IdleFits, Follows, Asks, Rest, IsOpen, IsStarted
    <2>6. CASE ~(Len(left) < Room(c) /\ c.pipeline = <<>>)
      <3>1. idle = c
        BY <2>4, <2>6
      <3> HIDE DEF idle
      <3>2. /\ Sane(d) /\ Follows(c, d) /\ Rest(c, d) /\ d.pipeline = c.pipeline
            /\ d.stream.closes = c.stream.closes
            /\ IsStarted(c.stream) => d = c
            /\ ~IsStarted(c.stream) => ~IsOpen(d.stream)
            /\ c.network /\ c.pipeline # <<>> => IsStarted(d.stream)
        BY <1>1, <3>1, IfNeededSane
      <3>3. IsOpen(c.stream) => c.pipeline # <<>>
        BY <1>3, <1>4, <2>6 DEF Sane, IsOpen, IsStarted
      <3>4. IdleFits(d)
        BY <3>2, <3>3 DEF IdleFits, Sane, IsOpen, IsStarted
      <3>5. Served(d)
        BY <1>3, <2>1, <3>2 DEF Served, Rest
      <3> QED BY <3>2, <3>4, <3>5 DEF Prefixed, Rest, IsOpen, IsStarted
    <2> QED BY <2>5, <2>6
  <1>5. CASE taken # <<>>
    <2>1. all \in Seq(Batch) /\ all # <<>> /\ Len(all) = Len(c.pipeline) + Len(taken)
      BY <1>2, <1>3, <1>5
    <2>2. /\ Heads(all, c.queue[c.user]) /\ c.network /\ Len(all) <= MaxPendingWrites
          /\ all = c.pipeline \o taken
      BY <1>2, <1>3, <1>5, <2>1
    <2> HIDE DEF all
    <2>3. full \in Client /\ Rest(c, full) /\ full.stream = c.stream /\ full.pipeline = all
      BY <1>2, <2>1, SetPipeline
    <2> HIDE DEF full
    <2>4. /\ Sane(sent) /\ Rest(c, sent) /\ sent.pipeline = all
          /\ sent.stream.closes = c.stream.closes /\ sent.stream.state = c.stream.state
          /\ sent.stream.asked = c.stream.asked /\ IdleFits(sent)
      <3>1. CASE IsOpen(c.stream) /\ c.handshake
        <4>1. sent = WriteMutations([c EXCEPT !.pipeline = all], taken)
          BY <3>1 DEF full
        <4> HIDE DEF sent
        <4>2. SentRight(c, sent, all)
          BY <1>3, <1>5, <2>2, <3>1, <4>1, SentSane
        <4> QED BY <2>1, <4>2 DEF SentRight, IdleFits
      <3>2. CASE ~(IsOpen(c.stream) /\ c.handshake)
        <4>1. sent = full
          BY <3>2
        <4> HIDE DEF sent
        <4>2. OnWire(c.stream, all, c.handshake)
          BY <3>2 DEF Sane, OnWire
        <4>3. ~c.stream.idle
          BY <3>2 DEF Sane, StreamSane
        <4> QED BY <1>3, <2>1, <2>2, <2>3, <3>2, <4>1, <4>2, <4>3
                DEF Sane, Rest, IdleFits, IsOpen, IsStarted
      <3> QED BY <3>1, <3>2
    <2> HIDE DEF sent
    <2>5. idle = sent
      BY <2>1, <2>4
    <2> HIDE DEF idle
    <2>6. /\ Sane(d) /\ Follows(sent, d) /\ Rest(sent, d) /\ d.pipeline = sent.pipeline
          /\ d.stream.closes = sent.stream.closes
          /\ IsStarted(sent.stream) => d = sent
          /\ ~IsStarted(sent.stream) => ~IsOpen(d.stream)
          /\ sent.network /\ sent.pipeline # <<>> => IsStarted(d.stream)
      BY <1>1, <2>4, <2>5, IfNeededSane
    <2>7. IdleFits(d)
      BY <2>4, <2>6 DEF IdleFits, IsOpen, IsStarted
    <2>8. Rest(c, d)
      BY <2>4, <2>6 DEF Rest
    <2>9. Prefixed(d)
      BY <2>2, <2>4, <2>6, <2>8 DEF Prefixed, Rest
    <2>10. Follows(c, d)
      BY <2>4, <2>6 DEF Follows
    <2>11. Served(d)
      BY <1>3, <2>1, <2>4, <2>6, <2>8 DEF Served, Rest, all
    <2> QED BY <2>2, <2>4, <2>6, <2>7, <2>8, <2>9, <2>10, <2>11 DEF IsOpen, IsStarted
  <1> QED BY <1>4, <1>5

-----------------------------------------------------------------------------
(* The head of the pipeline leaves it, and the queue on disk. *)

\* The rows without their first.
TailOf(new, rows) ==
    /\ new \in Seq(Batch) /\ Len(new) = Len(rows) - 1
    /\ \A i \in 1..Len(new) : new[i] = rows[i + 1]

\* The rest of the rows.
LEMMA TailIs == ASSUME NEW rows \in Seq(Batch), rows # <<>> PROVE TailOf(Tail(rows), rows)
  BY TailFacts DEF TailOf

\* A pipeline that loses its head is the head of rows that lose theirs.
LEMMA TailHeads ==
    ASSUME NEW rows \in Seq(Batch), NEW pipeline \in Seq(Batch), pipeline # <<>>,
           Heads(pipeline, rows), NEW new, TailOf(new, rows),
           NEW popped, TailOf(popped, pipeline)
    PROVE  Heads(popped, new)
  <1>1. Len(pipeline) \in Nat /\ Len(rows) \in Nat /\ Len(pipeline) <= Len(rows)
    BY DEF Heads
  <1>2. Len(popped) = Len(pipeline) - 1 /\ Len(new) = Len(rows) - 1
    BY DEF TailOf
  <1>3. ASSUME NEW i \in 1..Len(popped) PROVE popped[i] = new[i]
    <2>1. i \in 1..Len(new) /\ i + 1 \in 1..Len(pipeline)
      BY <1>1, <1>2
    <2>2. popped[i] = pipeline[i + 1] /\ new[i] = rows[i + 1]
      BY <2>1 DEF TailOf
    <2>3. pipeline[i + 1] = rows[i + 1]
      BY <2>1 DEF Heads
    <2> QED BY <2>2, <2>3
  <1> QED BY <1>1, <1>2, <1>3 DEF Heads

\* Rows that lose their head are still in order.
LEMMA TailOrdered ==
    ASSUME NEW rows \in Seq(Batch), NEW next \in Int, Ordered(rows, next),
           NEW new, TailOf(new, rows)
    PROVE  Ordered(new, next)
  <1>1. Len(rows) \in Nat /\ Len(new) \in Nat /\ Len(new) = Len(rows) - 1
    BY DEF TailOf
  <1>2. ASSUME NEW i \in 1..Len(new), NEW j \in 1..Len(new)
        PROVE  /\ new[i].id \in 1..(next - 1)
               /\ i < j => new[i].id < new[j].id
    <2>1. i + 1 \in 1..Len(rows) /\ j + 1 \in 1..Len(rows) /\ (i < j => i + 1 < j + 1)
      BY <1>1
    <2>2. new[i] = rows[i + 1] /\ new[j] = rows[j + 1]
      BY DEF TailOf
    <2>3. /\ rows[i + 1].id \in 1..(next - 1)
          /\ i + 1 < j + 1 => rows[i + 1].id < rows[j + 1].id
      BY <2>1 DEF Ordered
    <2> QED BY <2>1, <2>2, <2>3
  <1> QED BY <1>2 DEF Ordered

\* An answer is read for the write that leaves the pipeline.
LEMMA TailMatches ==
    ASSUME NEW down \in Seq(Answer), NEW up \in Seq(Nat), NEW pipeline \in Seq(Batch),
           Matches(down, up, pipeline), down # <<>>,
           NEW popped, TailOf(popped, pipeline), NEW read, read = Tail(down)
    PROVE  Matches(read, up, popped)
  <1>1. /\ Len(down) \in Nat /\ Len(up) \in Nat /\ Len(pipeline) \in Nat
        /\ Len(down) + Len(up) = Len(pipeline) /\ Len(popped) = Len(pipeline) - 1
    BY DEF Matches, TailOf
  <1>2. /\ Len(read) = Len(down) - 1 /\ Len(read) \in Nat
        /\ \A i \in 1..Len(read) : read[i] = down[i + 1]
    BY TailFacts
  <1>3. ASSUME NEW i \in 1..Len(read) PROVE read[i].write = popped[i].write
    <2>1. i + 1 \in 1..Len(down) /\ i \in 1..Len(popped)
      BY <1>1, <1>2
    <2>2. down[i + 1].write = pipeline[i + 1].write
      BY <2>1 DEF Matches
    <2>3. popped[i] = pipeline[i + 1]
      BY <2>1 DEF TailOf
    <2> QED BY <1>2, <2>2, <2>3
  <1>4. ASSUME NEW i \in 1..Len(up) PROVE up[i] = popped[Len(read) + i].write
    <2>1. Len(read) + i \in 1..Len(popped) /\ Len(read) + i + 1 = Len(down) + i
      BY <1>1, <1>2
    <2>2. up[i] = pipeline[Len(down) + i].write
      BY DEF Matches
    <2>3. popped[Len(read) + i] = pipeline[Len(read) + i + 1]
      BY <2>1 DEF TailOf
    <2> QED BY <2>1, <2>2, <2>3
  <1>5. Len(read) + Len(up) = Len(popped)
    BY <1>1, <1>2
  <1> QED BY <1>3, <1>4, <1>5 DEF Matches

\* The places of an id, and the rows without the one at the first of them.
Places(rows, id) == {i \in 1..Len(rows) : rows[i].id = id}
Without(rows, id) ==
    LET first == CHOOSE i \in Places(rows, id) : TRUE
    IN  SubSeq(rows, 1, first - 1) \o SubSeq(rows, first + 1, Len(rows))

\* The first row is the only one with its id.
LEMMA WithoutFirst ==
    ASSUME NEW rows \in Seq(Batch), rows # <<>>, NEW next \in Int, Ordered(rows, next),
           NEW id, id = rows[1].id
    PROVE  Places(rows, id) # {} /\ TailOf(Without(rows, id), rows)
  <1> DEFINE first == CHOOSE i \in Places(rows, id) : TRUE
             new == SubSeq(rows, 1, first - 1) \o SubSeq(rows, first + 1, Len(rows))
  <1>1. Len(rows) \in Nat /\ Len(rows) >= 1
    OBVIOUS
  <1>2. \A i \in 1..Len(rows) : i # 1 => rows[1].id < rows[i].id
    BY <1>1 DEF Ordered
  <1>3. \A i \in 1..Len(rows) : rows[i].id \in Int
    BY DEF Ordered
  <1>4. Places(rows, id) = {1}
    BY <1>1, <1>2, <1>3 DEF Places
  <1>5. first = 1
    BY <1>4
  <1>6. Without(rows, id) = new
    BY DEF Without
  <1> HIDE DEF first
  <1>7. TailOf(new, rows)
    <2>1. new = SubSeq(rows, 1, 0) \o SubSeq(rows, 2, Len(rows))
      BY <1>5
    <2> HIDE DEF new
    <2>2. SubSeq(rows, 1, 0) \in Seq(Batch) /\ Len(SubSeq(rows, 1, 0)) = 0
      BY <1>1
    <2>3. /\ SubSeq(rows, 2, Len(rows)) \in Seq(Batch)
          /\ Len(SubSeq(rows, 2, Len(rows))) = Len(rows) - 1
          /\ \A i \in 1..(Len(rows) - 1) : SubSeq(rows, 2, Len(rows))[i] = rows[i + 1]
      <3>1. /\ 2 \in 1..(Len(rows) + 1) /\ Len(rows) \in 0..Len(rows) /\ 2 <= Len(rows) + 1
            /\ Len(rows) - 2 + 1 = Len(rows) - 1 /\ \A i \in Nat : 2 + i - 1 = i + 1
        BY <1>1
      <3>2. \A i \in 1..(Len(rows) - 1) : i \in Nat
        BY <1>1
      <3> QED BY <3>1, <3>2, SubSeqFacts
    <2> DEFINE a == SubSeq(rows, 1, 0)
               b == SubSeq(rows, 2, Len(rows))
    <2>4. a \in Seq(Batch) /\ b \in Seq(Batch) /\ Len(a) = 0 /\ new = a \o b
      BY <2>1, <2>2, <2>3
    <2>5. /\ Len(b) = Len(rows) - 1
          /\ \A i \in 1..(Len(rows) - 1) : b[i] = rows[i + 1]
      BY <2>3
    <2> HIDE DEF a, b
    <2>6. /\ new \in Seq(Batch) /\ Len(new) = Len(a) + Len(b)
          /\ \A i \in 1..Len(b) : new[Len(a) + i] = b[i]
      BY <2>4, ConcatFacts
    <2>7. \A i \in 1..Len(b) : 0 + i = i
      BY <2>5, <1>1
    <2> QED BY <1>1, <2>4, <2>5, <2>6, <2>7 DEF TailOf
  <1> QED BY <1>4, <1>6, <1>7

\* Removing the first of the rows.
LEMMA RemoveHead ==
    ASSUME NEW c \in Client, ~c.failed, NEW rows, rows = c.queue[c.user], rows # <<>>,
           RowsSane(c.queue, c.nextId), NEW id, id = rows[1].id,
           NEW d, d = RemoveMutationBatch(c, id)
    PROVE  \E new : TailOf(new, rows) /\ d = [c EXCEPT !.queue[c.user] = new]
  <1> DEFINE new == Without(rows, id)
             next == c.nextId
  <1>1. rows \in Seq(Batch) /\ c.user \in Users /\ next \in Int
    BY DEF Client
  <1>2. Ordered(rows, next)
    BY <1>1 DEF RowsSane
  <1> HIDE DEF next
  <1>3. Places(rows, id) # {} /\ TailOf(new, rows)
    BY <1>1, <1>2, WithoutFirst
  <1>4. d = [c EXCEPT !.queue[c.user] = new]
    BY <1>3 DEF RemoveMutationBatch, Places, Without
  <1> HIDE DEF new
  <1> QED BY <1>3, <1>4

\* What a callback leaves alone.
Quiet(c, d) ==
    /\ d.user = c.user /\ d.queue = c.queue /\ d.nextId = c.nextId
    /\ d.pipeline = c.pipeline /\ d.stream = c.stream /\ d.fresh = c.fresh
    /\ d.failed = c.failed /\ d.network = c.network /\ d.handshake = c.handshake

\* Telling the callbacks changes nothing else.
LEMMA NotifyQuiet ==
    ASSUME NEW c \in Client, NEW id, NEW verdict \in Verdict,
           NEW d, d = NotifyUser(c, id, verdict)
    PROVE  d \in Client /\ Quiet(c, d)
  <1> DEFINE due == {k \in c.callbacks[c.user] : k.id = id}
             callbacks == [c.callbacks EXCEPT ![c.user] = @ \ due]
             told == [w \in Writes |-> IF \E k \in due : k.write = w THEN verdict ELSE c.told[w]]
  <1>1. c.callbacks \in [Users -> SUBSET Batch] /\ c.told \in [Writes -> Verdict]
    BY DEF Client
  <1>2. callbacks \in [Users -> SUBSET Batch]
    BY <1>1
  <1> DEFINE some == {w \in Writes : \E k \in due : k.write = w}
  <1>3. told = [w \in Writes |-> IF w \in some THEN verdict ELSE c.told[w]]
    OBVIOUS
  <1>5. d = [c EXCEPT !.callbacks = callbacks, !.told = told]
    BY DEF NotifyUser
  <1> HIDE DEF due, callbacks, some
  <1>4. told \in [Writes -> Verdict]
    <2> HIDE DEF told
    <2> QED BY <1>1, <1>3
  <1> HIDE DEF told
  <1>6. [c EXCEPT !.callbacks = callbacks, !.told = told] \in Client
    BY <1>2, <1>4, SetClient, Zenon
  <1>7. Quiet(c, d)
    BY <1>5 DEF Client, Quiet
  <1> QED BY <1>5, <1>6, <1>7

\* The client whose first write is settled: off the pipeline and the queue.
Popped(c, e, popped, new) ==
    /\ e.user = c.user /\ e.nextId = c.nextId /\ e.failed = c.failed
    /\ e.network = c.network /\ e.handshake = c.handshake
    /\ e.pipeline = popped /\ e.queue = [c.queue EXCEPT ![c.user] = new]

\* The head of the pipeline leaves together with its row.
LEMMA PopSane ==
    ASSUME NEW c, Sane(c), Prefixed(c), c.pipeline # <<>>,
           NEW new, TailOf(new, c.queue[c.user]), NEW popped, TailOf(popped, c.pipeline),
           NEW e \in Client, Popped(c, e, popped, new), StreamSane(e.stream),
           OnWire(e.stream, popped, c.handshake), ~e.stream.idle,
           IsStarted(e.stream) => c.network /\ IsOpen(e.stream) /\ c.handshake
    PROVE  Sane(e) /\ Prefixed(e)
  <1> DEFINE rows == c.queue[c.user]
             pipeline == c.pipeline
             next == c.nextId
  <1>1. /\ rows \in Seq(Batch) /\ pipeline \in Seq(Batch) /\ next \in Int
        /\ c.user \in Users /\ c.queue \in [Users -> Seq(Batch)]
    BY DEF Sane, Client
  <1>2. Ordered(rows, next) /\ Heads(pipeline, rows)
    BY <1>1 DEF Sane, RowsSane, Prefixed
  <1> HIDE DEF rows, pipeline, next
  <1>3. Heads(popped, new)
    BY <1>1, <1>2, TailHeads DEF rows, pipeline
  <1>4. Ordered(new, next)
    BY <1>1, <1>2, TailOrdered DEF rows
  <1>5. /\ e.user = c.user /\ e.nextId = next /\ ~e.failed /\ e.network = c.network
        /\ e.handshake = c.handshake /\ e.pipeline = popped
        /\ e.queue = [c.queue EXCEPT ![c.user] = new]
    BY DEF Popped, Sane, next
  <1>6. e.queue[e.user] = new /\ \A u \in Users : u # c.user => e.queue[u] = c.queue[u]
    BY <1>1, <1>5
  <1>7. RowsSane(e.queue, e.nextId)
    <2>1. ASSUME NEW u \in Users PROVE Ordered(e.queue[u], e.nextId)
      <3>1. CASE u = c.user
        BY <1>4, <1>5, <1>6, <3>1
      <3>2. CASE u # c.user
        BY <1>5, <1>6, <3>2 DEF Sane, RowsSane, next
      <3> QED BY <3>1, <3>2
    <2>2. e.nextId \in 1..(MaxWrites + 1)
      BY <1>5 DEF Sane, RowsSane, next
    <2> QED BY <2>1, <2>2 DEF RowsSane
  <1>8. Len(e.pipeline) <= MaxPendingWrites
    <2> DEFINE n == Len(pipeline)
               m == Len(popped)
    <2>1. n \in Nat /\ n <= MaxPendingWrites /\ m = n - 1
      BY <1>1 DEF Sane, TailOf, pipeline
    <2> HIDE DEF n, m
    <2>2. MaxPendingWrites \in Nat
      BY ParametersAssumption
    <2>3. m <= MaxPendingWrites
      BY <2>1, <2>2
    <2> QED BY <1>5, <2>3 DEF m
  <1>9. Prefixed(e)
    BY <1>3, <1>5, <1>6 DEF Prefixed
  <1> QED BY <1>5, <1>7, <1>8, <1>9 DEF Sane

\* The rows begin with the first of a pipeline that is not empty.
LEMMA FirstRow ==
    ASSUME NEW c, Sane(c), Prefixed(c), c.pipeline # <<>>,
           NEW rows, rows = c.queue[c.user], NEW batch, batch = Head(c.pipeline)
    PROVE  rows \in Seq(Batch) /\ rows # <<>> /\ batch \in Batch /\ batch.id = rows[1].id
  <1> DEFINE pipeline == c.pipeline
  <1>1. rows \in Seq(Batch) /\ pipeline \in Seq(Batch)
    BY DEF Sane, Client
  <1>2. Len(pipeline) <= Len(rows) /\ \A i \in 1..Len(pipeline) : pipeline[i] = rows[i]
    BY DEF Prefixed, Heads
  <1> HIDE DEF pipeline
  <1>3. pipeline # <<>> /\ batch = Head(pipeline)
    BY DEF pipeline
  <1>4. batch \in Batch /\ batch = pipeline[1] /\ Len(pipeline) \in Nat /\ Len(pipeline) >= 1
    BY <1>1, <1>3, TailFacts
  <1>5. batch = rows[1] /\ Len(rows) >= 1 /\ Len(rows) \in Nat
    BY <1>1, <1>2, <1>4
  <1>6. rows # <<>>
    BY <1>5
  <1> QED BY <1>1, <1>4, <1>5, <1>6

\* The writes's result: the head of the pipeline leaves with its callback.
LEMMA ResultRight ==
    ASSUME NEW c, Sane(c), Prefixed(c), c.stream.down # <<>>, c.handshake,
           ~c.stream.asked, NEW d, d = NotifyStreamResponse(c)
    PROVE  /\ Sane(d) /\ Prefixed(d) /\ IdleFits(d) /\ Follows(c, d) /\ Served(d)
           /\ d.handshake /\ IsOpen(d.stream) /\ d.network = c.network
           /\ d.nextId = c.nextId /\ d.stream.closes = c.stream.closes
  <1> DEFINE down == c.stream.down
             up == c.stream.up
             pipeline == c.pipeline
             read == Tail(down)
             popped == Tail(pipeline)
             batch == Head(pipeline)
             rows == c.queue[c.user]
             base == [c EXCEPT !.stream.down = read]
             after == [base EXCEPT !.pipeline = popped]
             told == NotifyUser(after, batch.id, "ok")
             removed == RemoveMutationBatch(told, batch.id)
  <1>1. /\ c \in Client /\ c.stream \in StreamType /\ pipeline \in Seq(Batch)
        /\ down \in Seq(Answer) /\ up \in Seq(Nat)
    BY DEF Sane, Client, StreamType
  <1>2. IsOpen(c.stream)
    BY DEF Sane, StreamSane
  <1>3. Matches(down, up, pipeline)
    BY <1>2 DEF Sane, OnWire
  <1>4. read \in Seq(Answer) /\ down # <<>>
    BY <1>1
  <1>5. pipeline # <<>>
    <2>1. Len(down) + Len(up) = Len(pipeline)
      BY <1>3 DEF Matches
    <2> HIDE DEF down, up, pipeline
    <2>2. Len(down) \in Nat /\ Len(up) \in Nat /\ Len(down) >= 1
      BY <1>1, <1>4, TailFacts
    <2>3. pipeline = <<>> => Len(pipeline) = 0
      OBVIOUS
    <2> QED BY <2>1, <2>2, <2>3
  <1>6. /\ base \in Client /\ base.pipeline = pipeline /\ base.failed = c.failed
        /\ base.stream = [c.stream EXCEPT !.down = read]
    <2>1. base \in Client
      BY <1>1, <1>4, SetBoth, Zenon
    <2> QED BY <1>1, <2>1 DEF Client
  <1>7. d = FillWritePipeline(removed)
    BY <1>5, <1>6 DEF NotifyStreamResponse, OnWriteStreamMutationResult
  <1>8. popped \in Seq(Batch) /\ TailOf(popped, pipeline)
    BY <1>1, <1>5, TailFacts, TailIs
  <1>9. Matches(read, up, popped)
    <2> HIDE DEF down, up, pipeline, popped
    <2> QED BY <1>1, <1>3, <1>4, <1>8, TailMatches
  <1>10. /\ after \in Client /\ Quiet([c EXCEPT !.stream.down = read, !.pipeline = popped], after)
    <2>1. after \in Client
      <3> HIDE DEF base, popped
      <3> QED BY <1>6, <1>8, SetClient, Zenon
    <2>2. Quiet([c EXCEPT !.stream.down = read, !.pipeline = popped], after)
      BY <1>1 DEF Client, Quiet
    <2> QED BY <2>1, <2>2
  <1> HIDE DEF after
  <1>11. told \in Client /\ Quiet(after, told)
    BY <1>10, NotifyQuiet, Values
  <1>12. rows \in Seq(Batch) /\ rows # <<>> /\ batch \in Batch /\ batch.id = rows[1].id
    BY <1>5, FirstRow
  <1> HIDE DEF base, told, read, popped, batch
  <1>13. /\ told.user = c.user /\ told.queue = c.queue /\ told.nextId = c.nextId
         /\ told.failed = c.failed /\ told.network = c.network
         /\ told.handshake = c.handshake /\ told.pipeline = popped
         /\ told.stream = [c.stream EXCEPT !.down = read]
    BY <1>1, <1>10, <1>11 DEF Quiet, Client
  <1>14. \E new : TailOf(new, rows) /\ removed = [told EXCEPT !.queue[told.user] = new]
    <2>1. /\ ~told.failed /\ rows = told.queue[told.user]
          /\ RowsSane(told.queue, told.nextId)
      BY <1>13 DEF Sane
    <2> HIDE DEF rows, removed
    <2>2. removed = RemoveMutationBatch(told, batch.id)
      BY DEF removed
    <2> QED BY <1>11, <1>12, <2>1, <2>2, RemoveHead
  <1>15. PICK new : TailOf(new, rows) /\ removed = [told EXCEPT !.queue[told.user] = new]
    BY <1>14
  <1> HIDE DEF removed
  <1>16. removed \in Client
    <2>1. new \in Seq(Batch)
      BY <1>15 DEF TailOf
    <2>2. told.queue \in [Users -> Seq(Batch)] /\ told.user \in Users
      BY <1>11 DEF Client
    <2> DEFINE queue == [told.queue EXCEPT ![told.user] = new]
    <2>3. queue \in [Users -> Seq(Batch)] /\ removed = [told EXCEPT !.queue = queue]
      BY <1>15, <2>1, <2>2
    <2> HIDE DEF queue
    <2> QED BY <1>11, <2>3, SetClient, Zenon
  <1>17. /\ Popped(c, removed, popped, new)
         /\ removed.stream = [c.stream EXCEPT !.down = read]
    BY <1>11, <1>13, <1>15 DEF Popped, Client
  <1>18. /\ removed.stream.state = c.stream.state /\ removed.stream.closes = c.stream.closes
         /\ removed.stream.asked = c.stream.asked /\ removed.stream.idle = c.stream.idle
         /\ removed.stream.backoff = c.stream.backoff
         /\ removed.stream.up = up /\ removed.stream.down = read
    BY <1>1, <1>17 DEF StreamType
  <1>19. StreamSane(removed.stream) /\ IsOpen(removed.stream) /\ ~removed.stream.idle
    BY <1>2, <1>5, <1>18 DEF Sane, StreamSane, IsOpen
  <1>20. OnWire(removed.stream, popped, c.handshake)
    BY <1>9, <1>18 DEF OnWire
  <1>21. c.network
    BY <1>2 DEF Sane, IsStarted, IsOpen
  <1>22. Sane(removed) /\ Prefixed(removed)
    <2>1. TailOf(new, c.queue[c.user]) /\ TailOf(popped, c.pipeline) /\ c.pipeline # <<>>
      BY <1>5, <1>8, <1>15
    <2> HIDE DEF down, up, pipeline, rows
    <2> QED BY <1>16, <1>17, <1>19, <1>20, <1>21, <2>1, PopSane
  <1>23. /\ Sane(d) /\ Prefixed(d) /\ IdleFits(d) /\ Follows(removed, d) /\ Rest(removed, d)
         /\ d.stream.closes = removed.stream.closes
         /\ IsOpen(removed.stream) => IsOpen(d.stream)
        /\ Served(d)
    BY <1>7, <1>22, FillSane
  <1>24. Follows(c, d)
    BY <1>18, <1>19, <1>23 DEF Follows, IsOpen
  <1> QED BY <1>17, <1>18, <1>19, <1>23, <1>24 DEF Rest, Popped

-----------------------------------------------------------------------------
(* Streams that end. *)

\* The stream of a client that has closed it.
Closed(c, d, status) ==
    /\ d \in Client /\ Rest(c, d) /\ d.pipeline = c.pipeline
    /\ d.stream.state = IF status = "ok" THEN "Initial" ELSE "Error"
    /\ d.stream.closes = c.stream.closes + 1 /\ d.stream.asked = c.stream.asked
    /\ d.stream.idle = FALSE /\ d.stream.backoff = FALSE
    /\ d.stream.up = <<>> /\ d.stream.down = <<>>

\* A stream that is closed.
LEMMA CloseStreamIs ==
    ASSUME NEW c \in Client, ~c.failed, IsStarted(c.stream), NEW status,
           NEW d, d = CloseStream(c, status)
    PROVE  Closed(c, d, status)
  <1> DEFINE closes == c.stream.closes + 1
             state == IF status = "ok" THEN "Initial" ELSE "Error"
  <1>1. HardAssert(c, IsStarted(c.stream)) = c
    BY AssertHolds
  <1>2. d = [c EXCEPT !.stream.idle = FALSE, !.stream.backoff = FALSE,
                      !.stream.closes = closes, !.stream.token = NoUser,
                      !.stream.up = <<>>, !.stream.down = <<>>, !.stream.state = state]
    BY <1>1 DEF CloseStream
  <1>3. c.stream \in StreamType
    BY DEF Client
  <1>4. closes \in Nat /\ state \in StreamState
    BY <1>3 DEF StreamType, StreamState
  <1> HIDE DEF closes, state
  <1>5. [c EXCEPT !.stream.idle = FALSE, !.stream.backoff = FALSE,
                  !.stream.closes = closes, !.stream.token = NoUser,
                  !.stream.up = <<>>, !.stream.down = <<>>, !.stream.state = state] \in Client
    BY <1>4, SetBoth, Values, Zenon
  <1>6. d.stream = [c.stream EXCEPT !.idle = FALSE, !.backoff = FALSE,
                        !.closes = closes, !.token = NoUser,
                        !.up = <<>>, !.down = <<>>, !.state = state]
    BY <1>2 DEF Client
  <1>7. /\ d.stream.state = state /\ d.stream.closes = closes
        /\ d.stream.asked = c.stream.asked /\ d.stream.idle = FALSE
        /\ d.stream.backoff = FALSE /\ d.stream.up = <<>> /\ d.stream.down = <<>>
    BY <1>3, <1>6 DEF StreamType
  <1>8. Rest(c, d) /\ d.pipeline = c.pipeline
    BY <1>2 DEF Client, Rest
  <1> QED BY <1>2, <1>5, <1>7, <1>8 DEF Closed, closes, state

\* A closed stream has nothing on its way.
LEMMA ClosedSane ==
    ASSUME NEW c, Sane(c), ~c.stream.asked, NEW status, NEW d, Closed(c, d, status)
    PROVE  Sane(d) /\ ~IsStarted(d.stream) /\ ~IsOpen(d.stream)
  <1>1. d.stream.state \in {"Initial", "Error"}
    BY DEF Closed
  <1>2. ~IsStarted(d.stream) /\ ~IsOpen(d.stream)
    BY <1>1 DEF IsStarted, IsOpen
  <1>3. StreamSane(d.stream)
    BY <1>1 DEF Closed, StreamSane
  <1>4. OnWire(d.stream, d.pipeline, d.handshake)
    BY <1>2 DEF OnWire
  <1> QED BY <1>2, <1>3, <1>4 DEF Closed, Sane, Rest

\* A stream that is not started may do so at once.
LEMMA InhibitSane ==
    ASSUME NEW c \in Client, ~c.failed, ~IsStarted(c.stream), NEW d, d = InhibitBackoff(c)
    PROVE  /\ d \in Client /\ Rest(c, d) /\ d.pipeline = c.pipeline
           /\ d.stream.state = "Initial" /\ d.stream.closes = c.stream.closes
           /\ d.stream.asked = c.stream.asked /\ d.stream.idle = c.stream.idle
           /\ d.stream.backoff = c.stream.backoff /\ d.stream.up = c.stream.up
           /\ d.stream.down = c.stream.down
  <1>1. HardAssert(c, ~IsStarted(c.stream)) = c
    BY AssertHolds
  <1>2. d = [c EXCEPT !.stream.state = "Initial"]
    BY <1>1 DEF InhibitBackoff
  <1>3. c.stream \in StreamType
    BY DEF Client
  <1>4. [c EXCEPT !.stream.state = "Initial"] \in Client
    BY SetBoth, Values, Zenon
  <1>5. d.stream = [c.stream EXCEPT !.state = "Initial"]
    BY <1>2 DEF Client
  <1>6. /\ d.stream.state = "Initial" /\ d.stream.closes = c.stream.closes
        /\ d.stream.asked = c.stream.asked /\ d.stream.idle = c.stream.idle
        /\ d.stream.backoff = c.stream.backoff /\ d.stream.up = c.stream.up
        /\ d.stream.down = c.stream.down
    BY <1>3, <1>5 DEF StreamType
  <1>7. Rest(c, d) /\ d.pipeline = c.pipeline
    BY <1>2 DEF Client, Rest
  <1> QED BY <1>2, <1>4, <1>6, <1>7

\* A write that was refused leaves the pipeline of the closed stream.
LEMMA ErrorRight ==
    ASSUME NEW c, Sane(c), Prefixed(c), c.pipeline # <<>>, c.network,
           ~IsStarted(c.stream), ~c.stream.asked, NEW d, d = HandleWriteError(c)
    PROVE  /\ Sane(d) /\ Prefixed(d) /\ ~IsOpen(d.stream) /\ Served(d) /\ Asks(d.stream)
           /\ d.network = c.network /\ d.handshake = c.handshake
           /\ d.nextId = c.nextId /\ d.stream.closes = c.stream.closes
  <1> DEFINE pipeline == c.pipeline
             popped == Tail(pipeline)
             batch == Head(pipeline)
             rows == c.queue[c.user]
             base == [c EXCEPT !.pipeline = popped]
             ready == InhibitBackoff(base)
             removed == RemoveMutationBatch(ready, batch.id)
             told == NotifyUser(removed, batch.id, "refused")
  <1>1. c \in Client /\ c.stream \in StreamType /\ pipeline \in Seq(Batch)
    BY DEF Sane, Client
  <1>2. rows \in Seq(Batch) /\ rows # <<>> /\ batch \in Batch /\ batch.id = rows[1].id
    BY FirstRow
  <1>3. popped \in Seq(Batch) /\ TailOf(popped, pipeline)
    BY <1>1, TailFacts, TailIs
  <1>4. d = FillWritePipeline(told)
    BY DEF HandleWriteError
  <1> HIDE DEF popped, batch
  <1>5. base \in Client /\ Rest(c, base) /\ base.stream = c.stream /\ base.pipeline = popped
    BY <1>1, <1>3, SetPipeline
  <1> HIDE DEF base
  <1>6. /\ ready \in Client /\ Rest(base, ready) /\ ready.pipeline = popped
        /\ ready.stream.state = "Initial" /\ ready.stream.closes = c.stream.closes
        /\ ready.stream.asked = c.stream.asked /\ ready.stream.idle = c.stream.idle
        /\ ready.stream.backoff = c.stream.backoff /\ ready.stream.up = c.stream.up
        /\ ready.stream.down = c.stream.down
    <2>1. ~base.failed /\ ~IsStarted(base.stream)
      BY <1>5 DEF Sane, Rest
    <2> HIDE DEF ready
    <2>2. ready = InhibitBackoff(base)
      BY DEF ready
    <2>3. /\ ready \in Client /\ Rest(base, ready) /\ ready.pipeline = base.pipeline
          /\ ready.stream.state = "Initial" /\ ready.stream.closes = base.stream.closes
          /\ ready.stream.asked = base.stream.asked /\ ready.stream.idle = base.stream.idle
          /\ ready.stream.backoff = base.stream.backoff /\ ready.stream.up = base.stream.up
          /\ ready.stream.down = base.stream.down
      BY <1>5, <2>1, <2>2, InhibitSane
    <2> QED BY <1>5, <2>3
  <1> HIDE DEF ready
  <1>7. /\ ready.user = c.user /\ ready.queue = c.queue /\ ready.nextId = c.nextId
        /\ ready.failed = c.failed /\ ready.network = c.network
        /\ ready.handshake = c.handshake
    BY <1>5, <1>6 DEF Rest
  <1>8. \E new : TailOf(new, rows) /\ removed = [ready EXCEPT !.queue[ready.user] = new]
    <2>1. /\ ~ready.failed /\ rows = ready.queue[ready.user]
          /\ RowsSane(ready.queue, ready.nextId)
      BY <1>7 DEF Sane
    <2> HIDE DEF rows, removed
    <2>2. removed = RemoveMutationBatch(ready, batch.id)
      BY DEF removed
    <2> QED BY <1>2, <1>6, <2>1, <2>2, RemoveHead
  <1>9. PICK new : TailOf(new, rows) /\ removed = [ready EXCEPT !.queue[ready.user] = new]
    BY <1>8
  <1> HIDE DEF removed
  <1>10. removed \in Client
    <2>1. new \in Seq(Batch)
      BY <1>9 DEF TailOf
    <2>2. ready.queue \in [Users -> Seq(Batch)] /\ ready.user \in Users
      BY <1>6 DEF Client
    <2> DEFINE queue == [ready.queue EXCEPT ![ready.user] = new]
    <2>3. queue \in [Users -> Seq(Batch)] /\ removed = [ready EXCEPT !.queue = queue]
      BY <1>9, <2>1, <2>2
    <2> HIDE DEF queue
    <2> QED BY <1>6, <2>3, SetClient, Zenon
  <1>11. Popped(c, removed, popped, new) /\ removed.stream = ready.stream
    BY <1>6, <1>7, <1>9 DEF Popped, Client
  <1>12. told \in Client /\ Quiet(removed, told)
    BY <1>10, NotifyQuiet, Values
  <1> HIDE DEF told
  <1>13. Popped(c, told, popped, new) /\ told.stream = ready.stream
    BY <1>11, <1>12 DEF Popped, Quiet
  <1>14. StreamSane(told.stream) /\ ~IsStarted(told.stream) /\ ~told.stream.idle
    BY <1>6, <1>13 DEF Sane, StreamSane, IsOpen, IsStarted
  <1>15. OnWire(told.stream, popped, c.handshake) /\ ~IsOpen(told.stream)
    BY <1>14 DEF OnWire, IsOpen, IsStarted
  <1>16. Sane(told) /\ Prefixed(told)
    <2>1. TailOf(new, c.queue[c.user]) /\ TailOf(popped, c.pipeline)
      BY <1>3, <1>9
    <2> HIDE DEF pipeline, rows
    <2> QED BY <1>12, <1>13, <1>14, <1>15, <2>1, PopSane
  <1>17. /\ Sane(d) /\ Prefixed(d) /\ Rest(told, d) /\ Follows(told, d)
         /\ d.stream.closes = told.stream.closes
         /\ ~IsStarted(told.stream) => ~IsOpen(d.stream)
         /\ Served(d)
    BY <1>4, <1>16, FillSane
  <1>18. Asks(d.stream)
    BY <1>14, <1>17 DEF Follows, IsStarted
  <1> QED BY <1>6, <1>13, <1>14, <1>17, <1>18 DEF Rest, Popped

\* Two steps, one after the other.
LEMMA FollowsBoth ==
    ASSUME NEW c \in Client, NEW d \in Client, NEW e \in Client, Follows(c, d), Follows(d, e)
    PROVE  Follows(c, e)
  <1>1. c.stream.closes \in Nat /\ d.stream.closes \in Nat /\ e.stream.closes \in Nat
    BY DEF Client, StreamType
  <1> QED BY <1>1 DEF Follows, Asks

\* The flag of the handshake is cleared when the listener was told.
LEMMA Unshaken ==
    ASSUME NEW c, Sane(c), ~IsOpen(c.stream), NEW d, d = [c EXCEPT !.handshake = FALSE]
    PROVE  /\ Sane(d) /\ d.stream = c.stream /\ ~d.handshake
           /\ d.pipeline = c.pipeline /\ d.queue = c.queue /\ d.user = c.user
           /\ d.network = c.network /\ d.nextId = c.nextId
  <1>1. c \in Client
    BY DEF Sane
  <1>2. [c EXCEPT !.handshake = FALSE] \in Client
    BY <1>1, SetClient, Values, Zenon
  <1>3. /\ d.stream = c.stream /\ ~d.handshake /\ d.failed = c.failed
        /\ d.pipeline = c.pipeline /\ d.queue = c.queue /\ d.user = c.user
        /\ d.network = c.network /\ d.nextId = c.nextId
    BY <1>1 DEF Client
  <1>4. OnWire(d.stream, d.pipeline, d.handshake)
    BY <1>3 DEF OnWire
  <1>5. ~c.stream.idle
    BY DEF Sane, StreamSane
  <1> QED BY <1>2, <1>3, <1>4, <1>5 DEF Sane

\* A stream ends: with an error it starts again if it is needed.
LEMMA CloseSound ==
    ASSUME NEW c, Sound(c), ~c.stream.asked, NEW status, IsStarted(c.stream),
           status = "ok" => c.pipeline = <<>>, NEW d, d = Close(c, status)
    PROVE  /\ Sound(d) /\ Follows(c, d) /\ d.nextId = c.nextId
           /\ d.stream.closes > c.stream.closes
  <1>0. c \in Client /\ Sane(c) /\ ~c.failed /\ c.stream \in StreamType
    BY DEF Sound, Sane, Client
  <1> DEFINE closed == CloseStream(c, status)
             error == /\ status = "permanent" /\ closed.pipeline # <<>>
                      /\ closed.handshake
             handled == IF error THEN HandleWriteError(closed) ELSE closed
             told == OnWriteStreamClose(closed, status)
  <1>20. ~StaysClosed(c, status)
    BY DEF StaysClosed
  <1>1. d = [told EXCEPT !.handshake = FALSE]
    BY <1>20 DEF Close
  <1>2. Closed(c, closed, status)
    BY <1>0, CloseStreamIs
  <1> HIDE DEF closed
  <1>3. Sane(closed) /\ ~IsStarted(closed.stream) /\ ~IsOpen(closed.stream)
    BY <1>0, <1>2, ClosedSane
  <1>4. /\ Prefixed(closed) /\ closed.network /\ ~closed.stream.asked
        /\ closed.nextId = c.nextId /\ closed.pipeline = c.pipeline
        /\ closed.stream.closes = c.stream.closes + 1
        /\ Filled(closed.pipeline, closed.queue[closed.user])
    BY <1>0, <1>2 DEF Closed, Rest, Prefixed, Served, Sound, Sane
  <1>5. HardAssert(closed, status = "ok" => ~ShouldStartWriteStream(closed)) = closed
    <2>1. (status = "ok" => ~ShouldStartWriteStream(closed)) = TRUE
      BY <1>4 DEF ShouldStartWriteStream
    <2>2. closed \in Client /\ ~closed.failed
      BY <1>3 DEF Sane
    <2> QED BY <2>1, <2>2, AssertHolds
  <1>6. told = StartIfNeeded(handled)
    BY <1>5 DEF OnWriteStreamClose
  <1> HIDE DEF told
  <1>7. /\ Sane(handled) /\ Prefixed(handled) /\ ~IsOpen(handled.stream)
        /\ handled.network /\ handled.nextId = c.nextId
        /\ handled.stream.closes = c.stream.closes + 1
        /\ Filled(handled.pipeline, handled.queue[handled.user]) /\ Asks(handled.stream)
    <2>1. CASE error
      <3>1. handled = HandleWriteError(closed)
        BY <2>1
      <3> HIDE DEF handled
      <3> QED BY <1>3, <1>4, <2>1, <3>1, ErrorRight DEF Served
    <2>2. CASE ~error
      BY <1>3, <1>4, <2>2 DEF Asks, IsStarted
    <2> QED BY <2>1, <2>2
  <1> HIDE DEF handled
  <1>8. /\ Sane(told) /\ Follows(handled, told) /\ Rest(handled, told) /\ told.pipeline = handled.pipeline
        /\ told.stream.closes = handled.stream.closes
        /\ IsStarted(handled.stream) => told = handled
        /\ ~IsStarted(handled.stream) => ~IsOpen(told.stream)
        /\ handled.network /\ handled.pipeline # <<>> => IsStarted(told.stream)
    BY <1>6, <1>7, IfNeededSane
  <1>9. ~IsOpen(told.stream)
    BY <1>7, <1>8
  <1>10. /\ Sane(d) /\ d.stream = told.stream /\ ~d.handshake
         /\ d.pipeline = told.pipeline /\ d.queue = told.queue /\ d.user = told.user
         /\ d.network = told.network /\ d.nextId = told.nextId
    BY <1>1, <1>8, <1>9, Unshaken
  <1>11. Prefixed(d) /\ IdleFits(d) /\ d.network /\ d.nextId = c.nextId
    BY <1>7, <1>8, <1>9, <1>10 DEF Prefixed, IdleFits, Rest
  <1>12. d.stream.closes > c.stream.closes
    BY <1>0, <1>7, <1>8, <1>10 DEF StreamType
  <1>13. Served(d)
    BY <1>7, <1>8, <1>10 DEF Served, Rest
  <1>14. Asks(d.stream)
    BY <1>7, <1>8, <1>10 DEF Follows, IsStarted
  <1> QED BY <1>10, <1>11, <1>12, <1>13, <1>14 DEF Sound, Follows

\* The network is turned off: the stream stops and the pipeline is emptied.
LEMMA DisableSound ==
    ASSUME NEW c, Sane(c), ~c.stream.asked, c.handshake => IsOpen(c.stream),
           NEW d, d = DisableNetworkInternal(c)
    PROVE  /\ Sound(d) /\ Follows(c, d) /\ d.nextId = c.nextId /\ ~d.network
           /\ ~IsStarted(d.stream) /\ ~d.stream.asked /\ d.user = c.user
  <1> DEFINE off == [c EXCEPT !.network = FALSE]
             closed == Close(off, "ok")
  <1>0. c \in Client /\ ~c.failed /\ c.stream \in StreamType
    BY DEF Sane, Client
  <1>1. off \in Client
    BY <1>0, SetClient, Values, Zenon
  <1>2. /\ off.stream = c.stream /\ off.user = c.user /\ off.queue = c.queue
        /\ off.nextId = c.nextId /\ off.failed = c.failed /\ ~off.network
        /\ off.handshake = c.handshake
    BY <1>0 DEF Client
  <1>3. d = [closed EXCEPT !.pipeline = <<>>]
    BY DEF DisableNetworkInternal
  <1> HIDE DEF off
  <1>4. /\ closed \in Client /\ closed.user = c.user /\ closed.queue = c.queue
        /\ closed.nextId = c.nextId /\ ~closed.failed /\ ~closed.network
        /\ ~closed.handshake /\ ~IsStarted(closed.stream) /\ ~closed.stream.asked
        /\ StreamSane(closed.stream) /\ Follows(c, closed)
    <2>1. CASE IsStarted(c.stream)
      <3> DEFINE stopped == CloseStream(off, "ok")
                 told == OnWriteStreamClose(stopped, "ok")
      <3>1. closed = [told EXCEPT !.handshake = FALSE]
        BY <1>2, <2>1 DEF Close, StaysClosed
      <3>2. Closed(off, stopped, "ok")
        BY <1>0, <1>1, <1>2, <2>1, CloseStreamIs
      <3> HIDE DEF stopped
      <3>3. /\ stopped \in Client /\ stopped.user = c.user /\ stopped.queue = c.queue
            /\ stopped.nextId = c.nextId /\ ~stopped.failed /\ ~stopped.network
            /\ stopped.stream.state = "Initial" /\ ~stopped.stream.asked
            /\ stopped.stream.closes = c.stream.closes + 1
            /\ stopped.stream.idle = FALSE /\ stopped.stream.backoff = FALSE
            /\ stopped.stream.up = <<>> /\ stopped.stream.down = <<>>
        BY <1>0, <1>2, <3>2 DEF Closed, Rest
      <3>4. ~ShouldStartWriteStream(stopped)
        BY <3>3 DEF ShouldStartWriteStream
      <3>5. HardAssert(stopped, "ok" = "ok" => ~ShouldStartWriteStream(stopped)) = stopped
        <4>1. ("ok" = "ok" => ~ShouldStartWriteStream(stopped)) = TRUE
          BY <3>4
        <4> QED BY <3>3, <4>1, AssertHolds
      <3>6. told = stopped
        BY <3>4, <3>5 DEF OnWriteStreamClose, StartIfNeeded
      <3> HIDE DEF told
      <3>7. [stopped EXCEPT !.handshake = FALSE] \in Client
        BY <3>3, SetClient, Values, Zenon
      <3>8. /\ closed \in Client /\ closed.stream = stopped.stream /\ ~closed.handshake
            /\ closed.user = c.user /\ closed.queue = c.queue
            /\ closed.nextId = c.nextId /\ ~closed.failed /\ ~closed.network
        BY <3>1, <3>3, <3>6, <3>7 DEF Client
      <3> HIDE DEF closed
      <3>9. c.stream.closes + 1 > c.stream.closes
        BY <1>0 DEF StreamType
      <3> QED BY <3>3, <3>8, <3>9 DEF StreamSane, IsStarted, Follows, Asks
    <2>2. CASE ~IsStarted(c.stream)
      <3>1. closed = off
        BY <1>2, <2>2 DEF Close, StaysClosed
      <3>2. ~c.handshake
        BY <2>2 DEF IsStarted, IsOpen
      <3> HIDE DEF closed
      <3> QED BY <1>0, <1>1, <1>2, <2>2, <3>1, <3>2 DEF Sane, Follows, Asks
    <2> QED BY <2>1, <2>2
  <1> HIDE DEF closed
  <1>5. [closed EXCEPT !.pipeline = <<>>] \in Client
    BY <1>4, SetClient, Values, Zenon
  <1>6. /\ d \in Client /\ d.user = c.user /\ d.queue = c.queue
        /\ d.nextId = c.nextId /\ ~d.failed /\ ~d.network /\ ~d.handshake
        /\ d.stream = closed.stream /\ d.pipeline = <<>>
    BY <1>3, <1>4, <1>5 DEF Client
  <1>7. Len(d.pipeline) <= MaxPendingWrites
    BY <1>6, ParametersAssumption
  <1>8. ~IsOpen(d.stream) /\ ~d.stream.idle
    BY <1>4, <1>6 DEF IsOpen, IsStarted, StreamSane
  <1>9. Sane(d)
    BY <1>4, <1>6, <1>7, <1>8 DEF Sane, OnWire
  <1>10. Prefixed(d)
    <2>1. d.queue[d.user] \in Seq(Batch)
      BY <1>6 DEF Client
    <2> DEFINE rows == d.queue[d.user]
    <2>2. Len(rows) \in Nat /\ Len(<<>>) = 0
      BY <2>1
    <2> HIDE DEF rows
    <2>3. Heads(<<>>, rows)
      BY <2>2 DEF Heads
    <2> QED BY <1>6, <2>3 DEF Prefixed, rows
  <1> QED BY <1>4, <1>6, <1>8, <1>9, <1>10 DEF Sound, IdleFits, Served, Follows

\* The network is turned on: the pipeline is filled, and the stream starts.
LEMMA EnableSound ==
    ASSUME NEW c, Sound(c), NEW d, d = EnableNetworkInternal(c)
    PROVE  /\ Sound(d) /\ Follows(c, d) /\ d.nextId = c.nextId /\ d.queue = c.queue
           /\ d.stream.closes = c.stream.closes
  <1> DEFINE on == [c EXCEPT !.network = TRUE]
  <1>0. c \in Client /\ Sane(c)
    BY DEF Sound, Sane
  <1>1. on \in Client
    BY <1>0, SetClient, Values, Zenon
  <1>2. /\ on.stream = c.stream /\ on.user = c.user /\ on.queue = c.queue
        /\ on.nextId = c.nextId /\ on.failed = c.failed /\ on.network = TRUE
        /\ on.handshake = c.handshake /\ on.pipeline = c.pipeline
    BY <1>0 DEF Client
  <1>3. d = FillWritePipeline(on)
    BY DEF EnableNetworkInternal
  <1> HIDE DEF on
  <1>4. Sane(on) /\ Prefixed(on)
    BY <1>0, <1>1, <1>2 DEF Sound, Sane, Prefixed
  <1>5. /\ Sane(d) /\ Prefixed(d) /\ IdleFits(d) /\ Follows(on, d) /\ Rest(on, d)
        /\ IsOpen(on.stream) => IsOpen(d.stream)
        /\ Served(d) /\ d.stream.closes = on.stream.closes
    BY <1>3, <1>4, FillSane
  <1>6. d.handshake => IsOpen(d.stream)
    BY <1>2, <1>5 DEF Sound, Rest
  <1> QED BY <1>2, <1>5, <1>6 DEF Sound, Follows, Rest

\* A stream that is not started may do so at once.
LEMMA InhibitSound ==
    ASSUME NEW c, Sound(c), ~IsStarted(c.stream), ~c.stream.asked, NEW d, d = InhibitBackoff(c)
    PROVE  Sound(d) /\ Follows(c, d) /\ d.nextId = c.nextId
  <1>1. c \in Client /\ ~c.failed
    BY DEF Sound, Sane
  <1>2. /\ d \in Client /\ Rest(c, d) /\ d.pipeline = c.pipeline
        /\ d.stream.state = "Initial" /\ d.stream.closes = c.stream.closes
        /\ d.stream.asked = c.stream.asked /\ d.stream.idle = c.stream.idle
        /\ d.stream.backoff = c.stream.backoff /\ d.stream.up = c.stream.up
        /\ d.stream.down = c.stream.down
    BY <1>1, InhibitSane
  <1>3. ~IsStarted(d.stream) /\ ~IsOpen(d.stream)
    BY <1>2 DEF IsStarted, IsOpen
  <1>4. StreamSane(d.stream) /\ ~d.stream.idle
    BY <1>2, <1>3 DEF Sound, Sane, StreamSane, IsStarted, IsOpen
  <1>5. ~d.handshake
    BY <1>2 DEF Sound, Rest, IsStarted, IsOpen
  <1>6. Follows(c, d)
    BY <1>2 DEF Follows, Asks, IsStarted
  <1>7. Served(d)
    BY <1>2, <1>3 DEF Sound, Served, Rest
  <1> QED BY <1>2, <1>3, <1>4, <1>5, <1>6, <1>7
          DEF Sound, Sane, OnWire, Prefixed, IdleFits, Rest

\* The network is turned off and on: the stream starts anew.
LEMMA RestartSound ==
    ASSUME NEW c, Sane(c), ~c.stream.asked, c.handshake => IsOpen(c.stream),
           NEW d, d = RestartNetwork(c)
    PROVE  Sound(d) /\ Follows(c, d) /\ d.nextId = c.nextId
  <1> DEFINE off == DisableNetworkInternal(c)
             ready == InhibitBackoff(off)
  <1>1. d = EnableNetworkInternal(ready)
    BY DEF RestartNetwork
  <1> HIDE DEF off
  <1>2. /\ Sound(off) /\ Follows(c, off) /\ off.nextId = c.nextId
        /\ ~IsStarted(off.stream) /\ ~off.stream.asked
    BY DisableSound DEF off
  <1> HIDE DEF ready
  <1>3. Sound(ready) /\ Follows(off, ready) /\ ready.nextId = off.nextId
    BY <1>2, InhibitSound DEF ready
  <1>4. Sound(d) /\ Follows(ready, d) /\ d.nextId = ready.nextId
    BY <1>1, <1>3, EnableSound
  <1>5. c \in Client /\ off \in Client /\ ready \in Client /\ d \in Client
    BY <1>2, <1>3, <1>4 DEF Sound, Sane
  <1>6. Follows(c, ready)
    BY <1>2, <1>3, <1>5, FollowsBoth
  <1>7. Follows(c, d)
    BY <1>4, <1>5, <1>6, FollowsBoth
  <1> QED BY <1>2, <1>3, <1>4, <1>7

\* Another user's queue takes over, with ids above those of all queues.
LEMMA ChangeSane ==
    ASSUME NEW c, Sane(c), NEW u \in Users, NEW d, d = ChangeUser(c, u)
    PROVE  /\ Sane(d) /\ d.stream = c.stream /\ d.handshake = c.handshake
           /\ d.pipeline = c.pipeline /\ d.network = c.network /\ d.nextId <= c.nextId
  <1>0. c \in Client /\ c.nextId \in Nat
    BY DEF Sane, Client
  <1>1. CASE u = c.user
    BY <1>0, <1>1 DEF ChangeUser
  <1>2. CASE u # c.user
    <2> DEFINE next == NextBatchId(c.queue)
    <2>1. d = [c EXCEPT !.user = u, !.nextId = next]
      BY <1>2 DEF ChangeUser
    <2>2. next \in 1..c.nextId /\ RowsSane(c.queue, next)
      BY <1>0, NextIdFits DEF Sane, Client
    <2> HIDE DEF next
    <2>3. next \in Nat /\ next <= c.nextId
      BY <1>0, <2>2
    <2>4. [c EXCEPT !.user = u, !.nextId = next] \in Client
      BY <1>0, <2>3, SetClient, Zenon
    <2>5. /\ d.stream = c.stream /\ d.handshake = c.handshake /\ d.queue = c.queue
          /\ d.pipeline = c.pipeline /\ d.network = c.network /\ d.nextId = next
          /\ d.failed = c.failed
      BY <1>0, <2>1 DEF Client
    <2> QED BY <2>1, <2>2, <2>3, <2>4, <2>5 DEF Sane
  <1> QED BY <1>1, <1>2

\* The queue of the user who signed in is taken up.
LEMMA CredentialSound ==
    ASSUME NEW c, Sound(c), ~c.stream.asked, NEW u \in Users,
           NEW d, d = HandleCredentialChange(c, u)
    PROVE  Sound(d) /\ Follows(c, d) /\ d.nextId <= c.nextId
  <1> DEFINE changed == ChangeUser(c, u)
  <1>1. d = IF changed.network THEN RestartNetwork(changed) ELSE changed
    BY DEF HandleCredentialChange
  <1>2. /\ Sane(changed) /\ changed.stream = c.stream /\ changed.handshake = c.handshake
        /\ changed.pipeline = c.pipeline /\ changed.network = c.network
        /\ changed.nextId <= c.nextId
    BY ChangeSane DEF Sound
  <1> HIDE DEF changed
  <1>3. changed.handshake => IsOpen(changed.stream)
    BY <1>2 DEF Sound
  <1>4. CASE changed.network
    <2>1. Sound(d) /\ Follows(changed, d) /\ d.nextId = changed.nextId
      BY <1>1, <1>2, <1>3, <1>4, RestartSound
    <2> QED BY <1>2, <2>1 DEF Follows
  <1>5. CASE ~changed.network
    <2>1. d = changed /\ changed.pipeline = <<>>
      BY <1>1, <1>2, <1>5 DEF Sound
    <2>2. Prefixed(changed)
      <3> DEFINE rows == changed.queue[changed.user]
      <3>1. rows \in Seq(Batch)
        BY <1>2 DEF Sane, Client
      <3>2. Len(rows) \in Nat /\ Len(<<>>) = 0
        BY <3>1
      <3> HIDE DEF rows
      <3>3. Heads(<<>>, rows)
        BY <3>2 DEF Heads
      <3> QED BY <2>1, <3>3 DEF Prefixed, rows
    <2>3. IdleFits(changed)
      BY <1>2, <1>5 DEF IdleFits, Sane, IsOpen, IsStarted
    <2> QED BY <1>2, <1>3, <1>5, <2>1, <2>2, <2>3 DEF Sound, Served, Follows, Asks
  <1> QED BY <1>4, <1>5

-----------------------------------------------------------------------------
(* Writes, tokens and answers. *)

\* A sequence with one more element.
LEMMA AppendFacts ==
    ASSUME NEW S, NEW s \in Seq(S), NEW x \in S, NEW t, t = Append(s, x)
    PROVE  /\ t \in Seq(S) /\ Len(s) \in Nat /\ Len(t) = Len(s) + 1
           /\ \A i \in 1..Len(s) : t[i] = s[i]
           /\ t[Len(s) + 1] = x
  OBVIOUS

\* A row behind the others has the next id.
LEMMA AppendOrdered ==
    ASSUME NEW rows \in Seq(Batch), NEW next \in Nat, next >= 1, Ordered(rows, next),
           NEW batch \in Batch, batch.id = next, NEW new, new = Append(rows, batch)
    PROVE  Ordered(new, next + 1)
  <1>1. /\ Len(rows) \in Nat /\ Len(new) = Len(rows) + 1
        /\ \A i \in 1..Len(rows) : new[i] = rows[i]
        /\ new[Len(rows) + 1] = batch
    BY AppendFacts
  <1>2. ASSUME NEW i \in 1..Len(new), NEW j \in 1..Len(new)
        PROVE  /\ new[i].id \in 1..next
               /\ i < j => new[i].id < new[j].id
    <2>1. CASE i \in 1..Len(rows) /\ j \in 1..Len(rows)
      <3>1. /\ rows[i].id \in 1..(next - 1)
            /\ i < j => rows[i].id < rows[j].id
        BY <2>1 DEF Ordered
      <3> QED BY <1>1, <2>1, <3>1
    <2>2. CASE i \in 1..Len(rows) /\ ~(j \in 1..Len(rows))
      <3>1. j = Len(rows) + 1
        BY <1>1, <2>2
      <3>2. new[j].id = next /\ new[i].id = rows[i].id
        BY <1>1, <2>2, <3>1
      <3>3. rows[i].id \in 1..(next - 1)
        BY <2>2 DEF Ordered
      <3> QED BY <3>2, <3>3
    <2>3. CASE ~(i \in 1..Len(rows))
      <3>1. i = Len(rows) + 1
        BY <1>1, <2>3
      <3>2. new[i].id = next
        BY <1>1, <3>1
      <3>3. ~(i < j)
        BY <1>1, <3>1
      <3> QED BY <3>2, <3>3
    <2> QED BY <2>1, <2>2, <2>3
  <1>3. (next + 1) - 1 = next
    OBVIOUS
  <1> QED BY <1>2, <1>3 DEF Ordered

\* Rows below an id are below the next one.
LEMMA LaterOrdered ==
    ASSUME NEW rows, NEW next \in Nat, Ordered(rows, next)
    PROVE  Ordered(rows, next + 1)
  BY DEF Ordered

\* The head of the rows stays their head when one is added.
LEMMA AppendHeads ==
    ASSUME NEW rows \in Seq(Batch), NEW pipeline \in Seq(Batch), Heads(pipeline, rows),
           NEW batch \in Batch, NEW new, new = Append(rows, batch)
    PROVE  Heads(pipeline, new)
  <1>1. /\ Len(rows) \in Nat /\ Len(new) = Len(rows) + 1
        /\ \A i \in 1..Len(rows) : new[i] = rows[i]
    BY AppendFacts
  <1>2. Len(pipeline) \in Nat /\ Len(pipeline) <= Len(rows)
    BY DEF Heads
  <1>3. ASSUME NEW i \in 1..Len(pipeline) PROVE pipeline[i] = new[i]
    <2>1. i \in 1..Len(rows)
      BY <1>1, <1>2
    <2>2. pipeline[i] = rows[i]
      BY DEF Heads
    <2> QED BY <1>1, <2>1, <2>2
  <1> QED BY <1>1, <1>2, <1>3 DEF Heads

\* A write is stored behind the others of the user.
LEMMA LocalSane ==
    ASSUME NEW c, Sane(c), Prefixed(c), NEW w \in Nat, c.nextId <= w, w <= MaxWrites,
           NEW d, d = WriteLocally(c, w)
    PROVE  /\ Sane(d) /\ Prefixed(d) /\ d.stream = c.stream
           /\ d.pipeline = c.pipeline /\ d.network = c.network
           /\ d.handshake = c.handshake /\ d.nextId = c.nextId + 1
  <1> DEFINE batch == [id |-> c.nextId, write |-> w]
             rows == c.queue[c.user]
             new == Append(rows, batch)
             queue == [c.queue EXCEPT ![c.user] = new]
             known == {k.id : k \in c.callbacks[c.user]}
             mine == IF batch.id \in known THEN c.callbacks[c.user]
                     ELSE c.callbacks[c.user] \cup {batch}
             callbacks == [c.callbacks EXCEPT ![c.user] = mine]
             next == c.nextId
             fresh == c.fresh \cup {w}
  <1>0. /\ c \in Client /\ next \in Nat /\ c.user \in Users
        /\ c.queue \in [Users -> Seq(Batch)] /\ c.callbacks \in [Users -> SUBSET Batch]
        /\ c.fresh \in SUBSET Nat /\ rows \in Seq(Batch)
    BY DEF Sane, Client
  <1>1. batch \in Batch /\ batch.id = next
    BY <1>0 DEF Batch
  <1>2. d = [c EXCEPT !.queue = queue, !.nextId = next + 1, !.fresh = fresh,
                      !.callbacks = callbacks]
    BY DEF WriteLocally
  <1> HIDE DEF batch, known
  <1>3. mine \in SUBSET Batch
    BY <1>0, <1>1
  <1> HIDE DEF mine
  <1>4. callbacks \in [Users -> SUBSET Batch]
    BY <1>0, <1>3
  <1>5. new \in Seq(Batch)
    BY <1>0, <1>1, AppendFacts
  <1> HIDE DEF new
  <1>6. queue \in [Users -> Seq(Batch)]
    BY <1>0, <1>5
  <1>7. fresh \in SUBSET Nat /\ next + 1 \in Nat
    BY <1>0
  <1> HIDE DEF callbacks, next
  <1>8. [c EXCEPT !.queue = queue, !.nextId = next + 1, !.fresh = fresh,
                  !.callbacks = callbacks] \in Client
    <2> HIDE DEF queue, fresh
    <2> QED BY <1>0, <1>4, <1>6, <1>7, SetClient, Zenon
  <1>9. /\ d.stream = c.stream /\ d.pipeline = c.pipeline /\ d.network = c.network
        /\ d.handshake = c.handshake /\ d.user = c.user /\ d.failed = c.failed
        /\ d.nextId = next + 1 /\ d.queue = queue
    <2> HIDE DEF queue, fresh
    <2> QED BY <1>0, <1>2 DEF Client
  <1>10. next \in 1..(MaxWrites + 1) /\ \A u \in Users : Ordered(c.queue[u], next)
    BY DEF Sane, RowsSane, next
  <1>11. /\ queue[c.user] = new
         /\ \A u \in Users : u # c.user => queue[u] = c.queue[u]
    BY <1>0
  <1> HIDE DEF queue
  <1>12. Ordered(new, next + 1)
    <2>1. Ordered(rows, next) /\ next >= 1
      BY <1>0, <1>10
    <2> HIDE DEF rows
    <2> QED BY <1>0, <1>1, <2>1, AppendOrdered DEF new
  <1>13. RowsSane(d.queue, d.nextId)
    <2>1. next + 1 \in 1..(MaxWrites + 1)
      BY <1>0, ParametersAssumption DEF next
    <2>2. ASSUME NEW u \in Users PROVE Ordered(queue[u], next + 1)
      <3>1. CASE u = c.user
        BY <1>11, <1>12, <3>1
      <3>2. CASE u # c.user
        BY <1>0, <1>10, <1>11, <3>2, LaterOrdered
      <3> QED BY <3>1, <3>2
    <2> QED BY <1>9, <2>1, <2>2 DEF RowsSane
  <1>14. Prefixed(d)
    <2>1. c.pipeline \in Seq(Batch) /\ Heads(c.pipeline, rows)
      BY <1>0 DEF Client, Prefixed
    <2> HIDE DEF rows
    <2>2. Heads(c.pipeline, new)
      BY <1>0, <1>1, <2>1, AppendHeads DEF new
    <2> QED BY <1>9, <1>11, <2>2 DEF Prefixed
  <1> QED BY <1>2, <1>8, <1>9, <1>13, <1>14 DEF Sane, next

\* A write is stored and, if there is room, sent.
LEMMA WriteSound ==
    ASSUME NEW c, Sound(c), NEW w \in Nat, c.nextId <= w, w <= MaxWrites,
           NEW d, d = FillWritePipeline(WriteLocally(c, w))
    PROVE  Sound(d) /\ Follows(c, d) /\ d.nextId = c.nextId + 1
  <1> DEFINE local == WriteLocally(c, w)
  <1>1. /\ Sane(local) /\ Prefixed(local) /\ local.stream = c.stream
        /\ local.pipeline = c.pipeline /\ local.network = c.network
        /\ local.handshake = c.handshake /\ local.nextId = c.nextId + 1
    BY LocalSane DEF Sound
  <1> HIDE DEF local
  <1>2. /\ Sane(d) /\ Prefixed(d) /\ IdleFits(d) /\ Follows(local, d) /\ Rest(local, d)
        /\ IsOpen(local.stream) => IsOpen(d.stream)
        /\ ~local.network => d.pipeline = local.pipeline
        /\ Served(d)
    BY <1>1, FillSane DEF local
  <1> QED BY <1>1, <1>2 DEF Sound, Rest, Follows

\* A sequence without elements is empty.
LEMMA NoElements == ASSUME NEW S, NEW s \in Seq(S), Len(s) = 0 PROVE s = <<>>
  OBVIOUS

\* Nothing follows the only element.
LEMMA TailEmpty == ASSUME NEW S, NEW s \in Seq(S), Len(s) = 1 PROVE Tail(s) = <<>>
  <1>1. s # <<>>
    OBVIOUS
  <1> DEFINE t == Tail(s)
  <1>2. t \in Seq(S) /\ Len(t) = Len(s) - 1
    BY <1>1, TailFacts
  <1> HIDE DEF t
  <1>3. Len(t) = 0
    BY <1>2
  <1> QED BY <1>2, <1>3, NoElements DEF t

\* The first answer of a stream: all of the pipeline is sent.
LEMMA ShakeSound ==
    ASSUME NEW c, Sound(c), c.stream.down # <<>>, ~c.handshake, ~c.stream.asked,
           NEW d, d = NotifyStreamResponse(c)
    PROVE  Sound(d) /\ Follows(c, d) /\ d.nextId = c.nextId
  <1> DEFINE down == c.stream.down
             up == c.stream.up
             pipeline == c.pipeline
             read == Tail(down)
             base == [c EXCEPT !.stream.down = read, !.handshake = TRUE]
             requests == WritesOf(pipeline)
  <1>1. /\ c \in Client /\ c.stream \in StreamType /\ pipeline \in Seq(Batch)
        /\ down \in Seq(Answer) /\ up \in Seq(Nat)
    BY DEF Sound, Sane, Client, StreamType
  <1>2. IsOpen(c.stream) /\ pipeline # <<>> /\ ~c.stream.idle
    BY DEF Sound, Sane, StreamSane, IsOpen, IsStarted
  <1>3. read = <<>> /\ up = <<>>
    <2>1. Len(down) + Len(up) = 1
      BY <1>2 DEF Sound, Sane, OnWire
    <2>2. down # <<>>
      OBVIOUS
    <2> DEFINE m == Len(down)
               n == Len(up)
    <2> HIDE DEF down, up
    <2>3. m \in Nat /\ m >= 1 /\ n \in Nat /\ m + n = 1
      BY <1>1, <2>1, <2>2, TailFacts
    <2> HIDE DEF m, n
    <2>4. m = 1 /\ n = 0
      BY <2>3
    <2>5. Tail(down) = <<>>
      BY <1>1, <2>4, TailEmpty DEF m
    <2>6. up = <<>>
      BY <1>1, <2>4, NoElements DEF n
    <2> QED BY <2>5, <2>6
  <1>4. read \in Seq(Answer)
    BY <1>3, Values
  <1> HIDE DEF read
  <1>5. base \in Client
    BY <1>1, <1>4, SetBoth, SetClient, Values, Zenon
  <1>6. /\ base.pipeline = pipeline /\ base.failed = c.failed /\ base.handshake = TRUE
        /\ base.stream = [c.stream EXCEPT !.down = read]
        /\ base.user = c.user /\ base.queue = c.queue /\ base.network = c.network
        /\ base.nextId = c.nextId
    BY <1>1 DEF Client
  <1>7. d = WriteMutations(base, pipeline)
    BY DEF NotifyStreamResponse, read
  <1> HIDE DEF base
  <1>8. HardAssert(base, base.handshake) = base
    BY <1>5, <1>6, AssertHolds DEF Sound, Sane
  <1>9. d = Send(base, requests)
    BY <1>2, <1>7, <1>8 DEF WriteMutations, WritesOf
  <1>10. /\ requests \in Seq(Nat) /\ Len(requests) = Len(pipeline)
         /\ \A i \in 1..Len(pipeline) : requests[i] = pipeline[i].write
    BY <1>1, WritesOfFacts
  <1>11. /\ base.stream.state = c.stream.state /\ base.stream.closes = c.stream.closes
         /\ base.stream.asked = c.stream.asked /\ base.stream.backoff = c.stream.backoff
         /\ base.stream.up = <<>> /\ base.stream.down = <<>>
    BY <1>1, <1>3, <1>6 DEF StreamType
  <1> HIDE DEF requests, pipeline
  <1>12. /\ d \in Client /\ Rest(base, d) /\ d.pipeline = base.pipeline
         /\ d.stream.closes = base.stream.closes /\ d.stream.state = base.stream.state
         /\ d.stream.asked = base.stream.asked /\ d.stream.backoff = base.stream.backoff
         /\ d.stream.down = base.stream.down /\ d.stream.idle = FALSE
         /\ d.stream.up = base.stream.up \o requests
    <2>1. ~base.failed /\ IsOpen(base.stream) /\ requests \in Seq(Nat)
      BY <1>2, <1>6, <1>10, <1>11 DEF Sound, Sane, IsOpen
    <2> QED BY <1>5, <1>9, <2>1, SendFields
  <1>13. d.stream.up = requests /\ d.stream.down = <<>> /\ d.pipeline = pipeline
    BY <1>6, <1>10, <1>11, <1>12
  <1>14. Matches(<<>>, requests, pipeline)
    <2> DEFINE n == Len(pipeline)
    <2>1. n \in Nat /\ Len(requests) = n /\ Len(<<>>) = 0
      BY <1>1, <1>10 DEF pipeline
    <2>2. \A i \in 1..n : requests[i] = pipeline[i].write
      BY <1>10
    <2> HIDE DEF n
    <2>3. \A i \in 1..n : requests[i] = pipeline[0 + i].write
      BY <2>1, <2>2
    <2>4. 0 + n = n
      BY <2>1
    <2> QED BY <2>1, <2>3, <2>4 DEF Matches, n
  <1>15. d.handshake = TRUE
    BY <1>6, <1>12 DEF Rest
  <1>16. OnWire(d.stream, d.pipeline, d.handshake)
    BY <1>13, <1>14, <1>15 DEF OnWire
  <1>17. IsOpen(d.stream) /\ StreamSane(d.stream)
    BY <1>2, <1>11, <1>12 DEF Sound, Sane, StreamSane, IsOpen
  <1>18. /\ d.user = c.user /\ d.queue = c.queue /\ d.nextId = c.nextId
         /\ ~d.failed /\ d.network = c.network
    BY <1>6, <1>12 DEF Rest, Sound, Sane
  <1>19. Served(d)
    BY <1>11, <1>12, <1>13, <1>17, <1>18 DEF Sound, Served, IsStarted, IsOpen, pipeline
  <1> QED BY <1>2, <1>11, <1>12, <1>13, <1>15, <1>16, <1>17, <1>18, <1>19
          DEF Sound, Sane, Prefixed, IdleFits, Follows, Asks, IsStarted, IsOpen, pipeline


\* An answer that is not an error.
LEMMA AnswerSound ==
    ASSUME NEW c, Sound(c), c.stream.down # <<>>, ~c.stream.asked,
           NEW d, d = NotifyStreamResponse(c)
    PROVE  Sound(d) /\ Follows(c, d) /\ d.nextId = c.nextId
  <1>1. CASE c.handshake
    <2>1. /\ Sane(d) /\ Prefixed(d) /\ IdleFits(d) /\ Follows(c, d) /\ Served(d)
          /\ d.handshake /\ IsOpen(d.stream) /\ d.network = c.network
          /\ d.nextId = c.nextId
      BY <1>1, ResultRight DEF Sound
    <2>2. c.network
      BY DEF Sound, Sane, StreamSane, IsOpen, IsStarted
    <2> QED BY <2>1, <2>2 DEF Sound
  <1>2. CASE ~c.handshake
    BY <1>2, ShakeSound
  <1> QED BY <1>1, <1>2

\* Backoff has elapsed: the stream is still needed, and starts.
LEMMA EndBackoffSound ==
    ASSUME NEW c, Sound(c), c.stream.backoff, NEW d, d = EndBackoff(c)
    PROVE  Sound(d) /\ Follows(c, d) /\ d.nextId = c.nextId
  <1> DEFINE e == [c EXCEPT !.stream.backoff = FALSE, !.stream.state = "Initial"]
  <1>1. c \in Client /\ c.stream \in StreamType /\ c.stream.state = "Backoff"
    BY DEF Sound, Sane, StreamSane, Client
  <1>2. HardAssert(c, c.stream.state = "Backoff") = c
    BY <1>1, AssertHolds DEF Sound, Sane
  <1>3. d = StartStream(e)
    BY <1>2 DEF EndBackoff
  <1>4. e \in Client
    BY <1>1, SetBoth, Values, Zenon
  <1>5. e.stream = [c.stream EXCEPT !.backoff = FALSE, !.state = "Initial"]
    BY <1>1 DEF Client
  <1>6. Rest(c, e) /\ e.pipeline = c.pipeline
    BY <1>1 DEF Client, Rest
  <1> HIDE DEF e
  <1>7. /\ e.stream.closes = c.stream.closes /\ e.stream.state = "Initial"
        /\ e.stream.up = c.stream.up /\ e.stream.down = c.stream.down
        /\ e.stream.idle = c.stream.idle /\ e.stream.asked = c.stream.asked
        /\ e.stream.backoff = FALSE
    BY <1>5, <1>1 DEF StreamType
  <1>8. /\ ~c.stream.idle /\ ~c.stream.asked /\ c.stream.up = <<>> /\ c.stream.down = <<>>
        /\ ~c.handshake /\ c.pipeline # <<>> /\ c.network
    BY <1>1 DEF Sound, Sane, StreamSane, IsOpen, IsStarted
  <1>9. Sane(e) /\ ~IsStarted(e.stream)
    BY <1>4, <1>6, <1>7, <1>8 DEF Sound, Sane, StreamSane, OnWire, Rest, IsOpen, IsStarted
  <1>10. ShouldStartWriteStream(e)
    BY <1>6, <1>8, <1>9 DEF ShouldStartWriteStream, Rest
  <1>11. /\ Sane(d) /\ IsStarted(d.stream) /\ ~IsOpen(d.stream)
         /\ d.stream.closes = e.stream.closes /\ Rest(e, d) /\ d.pipeline = e.pipeline
         /\ Asks(d.stream)
    BY <1>3, <1>9, <1>10, StartSane
  <1>12. Served(d)
    BY <1>6, <1>11 DEF Sound, Served, Rest
  <1> QED BY <1>1, <1>6, <1>7, <1>8, <1>11, <1>12
          DEF Sound, Prefixed, IdleFits, Rest, Follows

\* A token opens the stream that waits for it, and the handshake goes out.
LEMMA OpenSound ==
    ASSUME NEW c, Sound(c), ~c.stream.asked, c.stream.state = "Starting",
           NEW u \in Users, NEW d, d = WriteHandshake(Open(c, u))
    PROVE  /\ Sound(d) /\ d.stream.closes = c.stream.closes /\ ~d.stream.asked
           /\ d.nextId = c.nextId /\ IsOpen(d.stream)
  <1> DEFINE e == [c EXCEPT !.stream.state = "Open", !.stream.token = u]
             requests == <<Handshake>>
  <1>1. c \in Client /\ c.stream \in StreamType
    BY DEF Sound, Sane, Client
  <1>2. HardAssert(c, c.stream.state = "Starting") = c
    BY <1>1, AssertHolds DEF Sound, Sane
  <1>3. Open(c, u) = e
    BY <1>2 DEF Open
  <1>4. e \in Client
    <2>1. u \in Users \cup {NoUser}
      OBVIOUS
    <2> QED BY <1>1, <2>1, SetBoth, Values, Zenon
  <1>5. e.stream = [c.stream EXCEPT !.state = "Open", !.token = u]
    BY <1>1 DEF Client
  <1>6. Rest(c, e) /\ e.pipeline = c.pipeline
    BY <1>1 DEF Client, Rest
  <1> HIDE DEF e
  <1>7. /\ e.stream.closes = c.stream.closes /\ e.stream.state = "Open"
        /\ e.stream.up = c.stream.up /\ e.stream.down = c.stream.down
        /\ e.stream.idle = c.stream.idle /\ e.stream.asked = c.stream.asked
        /\ e.stream.backoff = c.stream.backoff
    BY <1>5, <1>1 DEF StreamType
  <1>8. /\ ~c.stream.idle /\ ~c.stream.backoff /\ c.stream.up = <<>> /\ c.stream.down = <<>>
        /\ ~c.handshake /\ c.pipeline # <<>> /\ c.network
    BY <1>1 DEF Sound, Sane, StreamSane, IsOpen, IsStarted
  <1>9. HardAssert(e, ~e.handshake) = e
    <2>1. ~e.failed /\ (~e.handshake) = TRUE
      BY <1>6, <1>8 DEF Rest, Sound, Sane
    <2> QED BY <1>4, <2>1, AssertHolds
  <1>10. d = Send(e, requests)
    BY <1>3, <1>9 DEF WriteHandshake
  <1>11. requests \in Seq(Nat) /\ Len(requests) = 1
    BY DEF Handshake
  <1> HIDE DEF requests
  <1>12. /\ d \in Client /\ Rest(e, d) /\ d.pipeline = e.pipeline
         /\ d.stream.closes = e.stream.closes /\ d.stream.state = e.stream.state
         /\ d.stream.asked = e.stream.asked /\ d.stream.backoff = e.stream.backoff
         /\ d.stream.down = e.stream.down /\ d.stream.idle = FALSE
         /\ d.stream.up = e.stream.up \o requests
    <2>1. ~e.failed /\ IsOpen(e.stream)
      BY <1>6, <1>7 DEF Rest, Sound, Sane, IsOpen
    <2> QED BY <1>4, <1>10, <1>11, <2>1, SendFields
  <1>13. d.stream.up = requests /\ d.stream.down = <<>>
    <2>1. requests \in Seq(Nat)
      BY <1>11
    <2>2. <<>> \o requests = requests
      BY <2>1
    <2>3. d.stream.up = <<>> \o requests /\ d.stream.down = <<>>
      BY <1>7, <1>8, <1>12
    <2> QED BY <2>2, <2>3
  <1>14. Len(d.stream.down) + Len(d.stream.up) = 1
    <2>1. Len(d.stream.down) = 0 /\ Len(d.stream.up) = 1
      BY <1>11, <1>13
    <2> QED BY <2>1
  <1>15. Rest(c, d) /\ d.pipeline = c.pipeline
    BY <1>6, <1>12 DEF Rest
  <1>16. OnWire(d.stream, d.pipeline, d.handshake)
    BY <1>8, <1>14, <1>15 DEF OnWire, Rest
  <1>17. /\ d.stream.state = "Open" /\ ~d.stream.backoff /\ ~d.stream.idle
         /\ ~d.stream.asked /\ d.stream.closes = c.stream.closes
    BY <1>7, <1>8, <1>12
  <1>18. Served(d)
    BY <1>15, <1>17 DEF Sound, Served, Rest, IsStarted
  <1> QED BY <1>8, <1>12, <1>15, <1>16, <1>17, <1>18
          DEF Sound, Sane, Prefixed, IdleFits, StreamSane, Rest, IsOpen, IsStarted

\* GetToken was called; the call is noted, and the flag taken back.
Called(c) == [c EXCEPT !.stream.asked = FALSE]

\* The call of GetToken is noted, and the flag taken back.
LEMMA AskedSound ==
    ASSUME NEW c, Sound(c), NEW d, d = Called(c)
    PROVE  /\ Sound(d) /\ ~d.stream.asked /\ d.stream.closes = c.stream.closes
           /\ d.stream.state = c.stream.state /\ d.nextId = c.nextId
  <1>1. c \in Client /\ c.stream \in StreamType
    BY DEF Sound, Sane, Client
  <1>2. d \in Client
    BY <1>1, SetBoth, Values, Zenon DEF Called
  <1>3. d.stream = [c.stream EXCEPT !.asked = FALSE]
    BY <1>1 DEF Client, Called
  <1>4. Rest(c, d) /\ d.pipeline = c.pipeline
    BY <1>1 DEF Client, Called, Rest
  <1>5. /\ d.stream.closes = c.stream.closes /\ d.stream.state = c.stream.state
        /\ d.stream.up = c.stream.up /\ d.stream.down = c.stream.down
        /\ d.stream.idle = c.stream.idle /\ d.stream.asked = FALSE
        /\ d.stream.backoff = c.stream.backoff
    BY <1>3, <1>1 DEF StreamType
  <1>6. OnWire(d.stream, d.pipeline, d.handshake)
    BY <1>4, <1>5, SameWire DEF Sound, Sane, Rest
  <1>7. Served(d)
    BY <1>4, <1>5 DEF Sound, Served, Rest, IsStarted
  <1> QED BY <1>2, <1>4, <1>5, <1>6, <1>7
          DEF Sound, Sane, Prefixed, IdleFits, StreamSane, Rest, IsOpen, IsStarted

\* What was the first request has become the last answer.
Handed(more, rest, down, up) ==
    /\ more \in Seq(Answer) /\ rest \in Seq(Nat)
    /\ Len(more) + Len(rest) = Len(down) + Len(up)
    /\ \A pipeline \in Seq(Batch) :
           Matches(down, up, pipeline) => Matches(more, rest, pipeline)

\* The backend answers the first request of the stream.
LEMMA AnsweredMatches ==
    ASSUME NEW down \in Seq(Answer), NEW up \in Seq(Nat), up # <<>>,
           NEW answer \in Answer, answer.write = Head(up),
           NEW more, more = Append(down, answer), NEW rest, rest = Tail(up)
    PROVE  Handed(more, rest, down, up)
  <1> DEFINE m == Len(down)
             n == Len(up)
  <1>1. /\ more \in Seq(Answer) /\ m \in Nat /\ Len(more) = m + 1
        /\ \A i \in 1..m : more[i] = down[i]
        /\ more[m + 1] = answer
    BY AppendFacts
  <1>2. /\ rest \in Seq(Nat) /\ n \in Nat /\ n >= 1 /\ Len(rest) = n - 1
        /\ answer.write = up[1]
        /\ \A i \in 1..(n - 1) : rest[i] = up[i + 1]
    <2>1. /\ Head(up) = up[1] /\ rest \in Seq(Nat) /\ n \in Nat /\ n >= 1
          /\ Len(rest) = n - 1
          /\ \A i \in 1..Len(rest) : rest[i] = up[i + 1]
      BY TailFacts
    <2> HIDE DEF n
    <2> QED BY <2>1
  <1>3. ASSUME NEW pipeline \in Seq(Batch), Matches(down, up, pipeline)
        PROVE  Matches(more, rest, pipeline)
    <2>1. /\ m + n = Len(pipeline)
          /\ \A i \in 1..m : down[i].write = pipeline[i].write
          /\ \A i \in 1..n : up[i] = pipeline[m + i].write
      BY <1>3 DEF Matches
    <2> HIDE DEF m, n
    <2>2. ASSUME NEW i \in 1..(m + 1) PROVE more[i].write = pipeline[i].write
      <3>1. CASE i \in 1..m
        BY <1>1, <2>1, <3>1
      <3>2. CASE i = m + 1
        <4>1. up[1] = pipeline[m + 1].write
          BY <1>2, <2>1
        <4> QED BY <1>1, <1>2, <3>2, <4>1
      <3> QED BY <1>1, <3>1, <3>2
    <2>3. ASSUME NEW i \in 1..(n - 1) PROVE rest[i] = pipeline[(m + 1) + i].write
      <3>1. i + 1 \in 1..n /\ m + (i + 1) = (m + 1) + i
        BY <1>1, <1>2
      <3>2. up[i + 1] = pipeline[m + (i + 1)].write
        BY <2>1, <3>1
      <3> QED BY <1>2, <3>1, <3>2
    <2>4. (m + 1) + (n - 1) = m + n
      BY <1>1, <1>2
    <2> QED BY <1>1, <1>2, <2>1, <2>2, <2>3, <2>4 DEF Matches
  <1>4. Len(more) + Len(rest) = Len(down) + Len(up)
    <2> HIDE DEF m, n
    <2>1. Len(more) = m + 1 /\ m \in Nat
      BY <1>1
    <2>2. Len(rest) = n - 1 /\ n \in Nat
      BY <1>2
    <2>3. (m + 1) + (n - 1) = m + n
      BY <2>1, <2>2
    <2> QED BY <2>1, <2>2, <2>3 DEF m, n
  <1> QED BY <1>1, <1>2, <1>3, <1>4 DEF Handed

\* Requests and answers on their way.
Moved(c, up, down) == [c EXCEPT !.stream.up = up, !.stream.down = down]

\* The backend turns the first request into the last answer.
LEMMA MovedSound ==
    ASSUME NEW c, Sound(c), c.stream.up # <<>>,
           NEW answer \in Answer, answer.write = Head(c.stream.up),
           NEW d, d = Moved(c, Tail(c.stream.up), Append(c.stream.down, answer))
    PROVE  /\ Sound(d) /\ d.stream.closes = c.stream.closes
           /\ d.stream.state = c.stream.state /\ d.stream.asked = c.stream.asked
           /\ d.nextId = c.nextId
  <1> DEFINE rest == Tail(c.stream.up)
             more == Append(c.stream.down, answer)
  <1>1. /\ c \in Client /\ c.stream \in StreamType /\ c.pipeline \in Seq(Batch)
        /\ c.stream.up \in Seq(Nat) /\ c.stream.down \in Seq(Answer)
    BY DEF Sound, Sane, Client, StreamType
  <1>2. /\ more \in Seq(Answer) /\ rest \in Seq(Nat)
        /\ Len(more) + Len(rest) = Len(c.stream.down) + Len(c.stream.up)
        /\ Matches(c.stream.down, c.stream.up, c.pipeline) => Matches(more, rest, c.pipeline)
    <2> DEFINE up == c.stream.up
               down == c.stream.down
    <2>1. up # <<>> /\ answer.write = Head(up) /\ up \in Seq(Nat) /\ down \in Seq(Answer)
      BY <1>1
    <2>2. more = Append(down, answer) /\ rest = Tail(up)
      OBVIOUS
    <2> HIDE DEF up, down, more, rest
    <2>3. Handed(more, rest, down, up)
      BY <2>1, <2>2, AnsweredMatches
    <2>4. Matches(down, up, c.pipeline) => Matches(more, rest, c.pipeline)
      BY <1>1, <2>3 DEF Handed
    <2> QED BY <2>3, <2>4 DEF Handed, up, down
  <1>3. d = Moved(c, rest, more)
    OBVIOUS
  <1> HIDE DEF rest, more
  <1>4. d \in Client
    <2>1. [c EXCEPT !.stream.up = rest, !.stream.down = more] \in Client
      BY <1>1, <1>2, SetBoth, Zenon
    <2> QED BY <1>3, <2>1 DEF Moved
  <1>5. d.stream = [c.stream EXCEPT !.up = rest, !.down = more]
    BY <1>1, <1>3 DEF Client, Moved
  <1>6. Rest(c, d) /\ d.pipeline = c.pipeline
    BY <1>1, <1>3 DEF Client, Moved, Rest
  <1>7. /\ d.stream.closes = c.stream.closes /\ d.stream.state = c.stream.state
        /\ d.stream.up = rest /\ d.stream.down = more
        /\ d.stream.idle = c.stream.idle /\ d.stream.asked = c.stream.asked
        /\ d.stream.backoff = c.stream.backoff
    BY <1>5, <1>1 DEF StreamType
  <1>8. IsOpen(c.stream) /\ IsOpen(d.stream)
    BY <1>7 DEF Sound, Sane, StreamSane, IsOpen
  <1>9. OnWire(d.stream, d.pipeline, d.handshake)
    <2>1. OnWire(c.stream, c.pipeline, c.handshake)
      BY DEF Sound, Sane
    <2>2. CASE c.handshake
      <3>1. Matches(more, rest, c.pipeline)
        BY <1>2, <1>8, <2>1, <2>2 DEF OnWire
      <3> QED BY <1>6, <1>7, <2>2, <3>1 DEF OnWire, Rest
    <2>3. CASE ~c.handshake
      <3>1. Len(c.stream.down) + Len(c.stream.up) = 1
        BY <1>8, <2>1, <2>3 DEF OnWire
      <3> QED BY <1>2, <1>6, <1>7, <2>3, <3>1 DEF OnWire, Rest
    <2> QED BY <2>2, <2>3
  <1>10. Served(d)
    BY <1>6, <1>7 DEF Sound, Served, Rest, IsStarted
  <1> QED BY <1>4, <1>6, <1>7, <1>8, <1>9, <1>10
          DEF Sound, Sane, Prefixed, IdleFits, StreamSane, Rest, IsOpen, IsStarted

\* What a run of the app builds from the queues on disk.
LEMMA BootSound ==
    ASSUME NEW queue \in [Users -> Seq(Batch)], NEW bound, RowsSane(queue, bound),
           NEW u \in Users, NEW told \in [Writes -> Verdict],
           NEW d, d = Boot(queue, u, told)
    PROVE  /\ Sound(d) /\ d.nextId <= bound /\ d.queue = queue
           /\ d.stream.closes = 0 /\ Asks(d.stream)
  <1> DEFINE next == NextBatchId(queue)
             none == [v \in Users |-> {}]
             c == [user |-> u, network |-> FALSE, queue |-> queue,
                   nextId |-> next, pipeline |-> <<>>, stream |-> NewStream,
                   handshake |-> FALSE, callbacks |-> none, told |-> told,
                   fresh |-> {}, failed |-> FALSE]
  <1>1. d = EnableNetworkInternal(c)
    BY DEF Boot
  <1>2. next \in 1..bound /\ RowsSane(queue, next) /\ bound \in 1..(MaxWrites + 1)
    BY NextIdFits DEF RowsSane
  <1>3. next \in Nat /\ next <= bound
    BY <1>2, ParametersAssumption
  <1>4. none \in [Users -> SUBSET Batch]
    OBVIOUS
  <1> HIDE DEF next, none
  <1>5. NewStream \in StreamType /\ StreamSane(NewStream) /\ ~IsOpen(NewStream)
        /\ ~IsStarted(NewStream) /\ ~NewStream.idle
    BY Values DEF NewStream, StreamType, StreamSane, IsOpen, IsStarted
  <1> DEFINE fresh == {}
  <1>6. fresh \in SUBSET Nat /\ c.nextId = next
    OBVIOUS
  <1>7. c \in Client
    BY <1>3, <1>4, <1>5, <1>6, Values DEF Client
  <1>8. Len(c.pipeline) = 0 /\ c.pipeline = <<>> /\ Len(c.pipeline) <= MaxPendingWrites
    BY ParametersAssumption
  <1>9. /\ c.queue = queue /\ c.stream = NewStream /\ ~c.failed /\ ~c.network
        /\ ~c.handshake /\ c.user = u
    OBVIOUS
  <1> HIDE DEF c
  <1>10. OnWire(c.stream, c.pipeline, c.handshake)
    BY <1>5, <1>9 DEF OnWire
  <1>11. Prefixed(c)
    <2>1. queue[u] \in Seq(Batch)
      OBVIOUS
    <2>2. Len(queue[u]) \in Nat
      BY <2>1
    <2> QED BY <1>8, <1>9, <2>2 DEF Prefixed, Heads
  <1>12. Sound(c)
    BY <1>2, <1>5, <1>6, <1>7, <1>8, <1>9, <1>10, <1>11 DEF Sound, Sane, IdleFits, Served
  <1>13. NewStream.state = "Initial" /\ NewStream.closes = 0
    BY DEF NewStream
  <1>14. /\ Sound(d) /\ Follows(c, d) /\ d.nextId = c.nextId /\ d.queue = c.queue
         /\ d.stream.closes = c.stream.closes
    BY <1>1, <1>12, EnableSound
  <1>15. d.stream.closes = 0 /\ Asks(d.stream)
    BY <1>9, <1>13, <1>14 DEF Follows
  <1> QED BY <1>3, <1>6, <1>9, <1>14, <1>15

-----------------------------------------------------------------------------
(* The queues of the process. *)

Ticket == [closes : Nat, counter : Nat, user : Users \cup {NoUser}]
Task == [kind : {"write"}, write : Nat] \cup [kind : {"credential"}, user : Users]
        \cup [kind : {"token"}, closes : Nat, user : Users \cup {NoUser}]
Block == [kind : {"notify"}, user : Users]
         \cup [kind : {"token"}, closes : Nat, counter : Nat, user : Users \cup {NoUser}]

\* The close counts the tokens of a queue, and the calls of GetToken, were asked with.
Tokens(q) == {i \in 1..Len(q) : q[i].kind = "token"}
Closes(q) == {q[i].closes : i \in Tokens(q)}
Asked(asks) == {a.closes : a \in asks}
Apart(q) == \A i, j \in Tokens(q) : i < j => q[i].closes # q[j].closes

\* No two tokens on their way were asked with the same close count.
OneToken(asks, m, w) ==
    /\ \A a, b \in asks : a.closes = b.closes => a = b
    /\ Apart(m) /\ Apart(w)
    /\ Asked(asks) \cap Closes(m) = {}
    /\ Asked(asks) \cap Closes(w) = {}
    /\ Closes(m) \cap Closes(w) = {}

AllCloses(asks, m, w) == Asked(asks) \cup Closes(m) \cup Closes(w)

\* A token that is not stale finds the stream waiting for it.
Waits(closes, s) ==
    \A n \in closes : /\ n \in Nat /\ n <= s.closes
                      /\ n = s.closes => s.state = "Starting"

\* The writes to be stored come in the app's order, behind those stored.
DueInOrder(w, next, last) ==
    /\ \A i \in 1..Len(w) : w[i].kind = "write" => w[i].write \in next..last
    /\ \A i, j \in 1..Len(w) :
           w[i].kind = "write" /\ w[j].kind = "write" /\ i < j => w[i].write < w[j].write

\* A queue without its first, and with one more.
Shorter(t, q) ==
    /\ Len(q) \in Nat /\ Len(q) >= 1 /\ Len(t) = Len(q) - 1
    /\ \A i \in 1..Len(t) : t[i] = q[i + 1]
Longer(t, q, x) ==
    /\ Len(q) \in Nat /\ Len(t) = Len(q) + 1 /\ t[Len(q) + 1] = x
    /\ \A i \in 1..Len(q) : t[i] = q[i]

\* The rest of a queue.
LEMMA TailShorter ==
    ASSUME NEW S, NEW q \in Seq(S), q # <<>>
    PROVE  Shorter(Tail(q), q) /\ Head(q) = q[1] /\ Head(q) \in S /\ Tail(q) \in Seq(S)
  BY TailFacts DEF Shorter

\* A queue with one more.
LEMMA AppendLonger ==
    ASSUME NEW S, NEW q \in Seq(S), NEW x \in S
    PROVE  Longer(Append(q, x), q, x) /\ Append(q, x) \in Seq(S)
  BY AppendFacts DEF Longer

\* The first of a queue is taken.
LEMMA TailTokens ==
    ASSUME NEW q, NEW t, Shorter(t, q), Apart(q)
    PROVE  /\ Closes(t) \subseteq Closes(q) /\ Apart(t)
           /\ q[1].kind = "token" =>
                  q[1].closes \in Closes(q) /\ q[1].closes \notin Closes(t)
  <1> DEFINE n == Len(q)
             k == Len(t)
  <1>1. n \in Nat /\ n >= 1 /\ k = n - 1 /\ \A i \in 1..k : t[i] = q[i + 1]
    BY DEF Shorter
  <1> HIDE DEF n, k
  <1>2. ASSUME NEW i \in Tokens(t) PROVE i \in 1..k /\ i + 1 \in Tokens(q) /\ t[i] = q[i + 1]
    <2>1. i \in 1..k /\ t[i].kind = "token"
      BY DEF Tokens, k
    <2>2. i + 1 \in 1..n /\ t[i] = q[i + 1]
      BY <1>1, <2>1
    <2> QED BY <2>1, <2>2 DEF Tokens, n
  <1>3. Closes(t) \subseteq Closes(q)
    BY <1>2 DEF Closes
  <1>4. Apart(t)
    BY <1>1, <1>2 DEF Apart
  <1>5. ASSUME q[1].kind = "token"
        PROVE  q[1].closes \in Closes(q) /\ q[1].closes \notin Closes(t)
    <2>1. 1 \in Tokens(q)
      BY <1>1, <1>5 DEF Tokens, n
    <2>2. ASSUME NEW i \in Tokens(t) PROVE t[i].closes # q[1].closes
      BY <1>1, <1>2, <2>1 DEF Apart
    <2> QED BY <1>1, <2>1, <2>2 DEF Closes
  <1> QED BY <1>3, <1>4, <1>5

\* A queue gets one more.
LEMMA AppendTokens ==
    ASSUME NEW q, NEW x, NEW t, Longer(t, q, x), Apart(q),
           x.kind = "token" => x.closes \notin Closes(q)
    PROVE  /\ Apart(t)
           /\ Closes(t) = IF x.kind = "token" THEN Closes(q) \cup {x.closes} ELSE Closes(q)
  <1> DEFINE n == Len(q)
             k == Len(t)
  <1>1. /\ n \in Nat /\ k = n + 1 /\ t[n + 1] = x
        /\ \A i \in 1..n : t[i] = q[i]
    BY DEF Longer
  <1> HIDE DEF n, k
  <1>2. Tokens(t) = IF x.kind = "token" THEN Tokens(q) \cup {n + 1} ELSE Tokens(q)
    <2>1. ASSUME NEW i \in 1..k
          PROVE  t[i].kind = "token" <=> (i \in Tokens(q) \/ (i = n + 1 /\ x.kind = "token"))
      <3>1. CASE i \in 1..n
        <4>1. i # n + 1 /\ t[i] = q[i]
          BY <1>1, <3>1
        <4> QED BY <3>1, <4>1 DEF Tokens, n
      <3>2. CASE i \notin 1..n
        <4>1. i = n + 1 /\ i \notin Tokens(q)
          BY <1>1, <3>2 DEF Tokens, n
        <4> QED BY <1>1, <4>1
      <3> QED BY <3>1, <3>2
    <2>2. \A i \in Tokens(q) : i \in 1..k
      BY <1>1 DEF Tokens, n
    <2>3. n + 1 \in 1..k
      BY <1>1
    <2>4. Tokens(t) = {i \in 1..k : t[i].kind = "token"}
      BY DEF Tokens, k
    <2> QED BY <2>1, <2>2, <2>3, <2>4
  <1>3. \A i \in Tokens(q) : i \in 1..n /\ t[i] = q[i]
    BY <1>1 DEF Tokens, n
  <1>4. CASE x.kind = "token"
    <2>1. Tokens(t) = Tokens(q) \cup {n + 1}
      BY <1>2, <1>4
    <2>2. Closes(t) = Closes(q) \cup {x.closes}
      BY <1>1, <1>3, <2>1 DEF Closes
    <2>3. Apart(t)
      <3> SUFFICES ASSUME NEW i \in Tokens(t), NEW j \in Tokens(t), i < j
                   PROVE  t[i].closes # t[j].closes
        BY DEF Apart
      <3>1. i \in Tokens(q)
        BY <1>1, <1>3, <2>1
      <3>2. CASE j \in Tokens(q)
        BY <1>3, <3>1, <3>2 DEF Apart
      <3>3. CASE j = n + 1
        <4>1. q[i].closes \in Closes(q) /\ t[j] = x
          BY <1>1, <3>1, <3>3 DEF Closes
        <4> QED BY <1>3, <1>4, <3>1, <4>1
      <3> QED BY <2>1, <3>2, <3>3
    <2> QED BY <1>4, <2>2, <2>3
  <1>5. CASE x.kind # "token"
    <2>1. Tokens(t) = Tokens(q)
      BY <1>2, <1>5
    <2>2. Closes(t) = Closes(q)
      BY <1>3, <2>1 DEF Closes
    <2>3. Apart(t)
      BY <1>3, <2>1 DEF Apart
    <2> QED BY <1>5, <2>2, <2>3
  <1> QED BY <1>4, <1>5

\* The first operation leaves the worker queue.
LEMMA TailDue ==
    ASSUME NEW q, NEW t, Shorter(t, q),
           NEW next \in Nat, NEW last \in Nat, DueInOrder(q, next, last)
    PROVE  /\ DueInOrder(t, next, last)
           /\ q[1].kind = "write" =>
                  /\ q[1].write \in next..last
                  /\ DueInOrder(t, q[1].write + 1, last)
  <1> DEFINE n == Len(q)
             k == Len(t)
  <1>1. n \in Nat /\ n >= 1 /\ k = n - 1 /\ \A i \in 1..k : t[i] = q[i + 1]
    BY DEF Shorter
  <1>2. /\ \A i \in 1..n : q[i].kind = "write" => q[i].write \in next..last
        /\ \A i, j \in 1..n :
             q[i].kind = "write" /\ q[j].kind = "write" /\ i < j => q[i].write < q[j].write
    BY DEF DueInOrder
  <1> HIDE DEF n, k
  <1>3. \A i \in 1..k : i + 1 \in 1..n /\ 1 < i + 1 /\ t[i] = q[i + 1]
    BY <1>1
  <1>4. \A i \in 1..k : t[i].kind = "write" => t[i].write \in next..last
    BY <1>2, <1>3
  <1>5. \A i, j \in 1..k :
            t[i].kind = "write" /\ t[j].kind = "write" /\ i < j => t[i].write < t[j].write
    <2> TAKE i, j \in 1..k
    <2>1. i < j => i + 1 < j + 1
      BY <1>1
    <2> QED BY <1>2, <1>3, <2>1
  <1>6. ASSUME q[1].kind = "write"
        PROVE  /\ q[1].write \in next..last
               /\ \A i \in 1..k : t[i].kind = "write" =>
                      t[i].write \in (q[1].write + 1)..last
    <2>1. 1 \in 1..n
      BY <1>1
    <2>2. q[1].write \in next..last
      BY <1>1, <1>2, <1>6, <2>1
    <2>3. ASSUME NEW i \in 1..k, t[i].kind = "write"
          PROVE  t[i].write \in (q[1].write + 1)..last
      <3>1. t[i].write \in next..last /\ q[1].write < t[i].write
        BY <1>1, <1>2, <1>3, <1>6, <2>1, <2>3
      <3> QED BY <2>2, <3>1
    <2> QED BY <1>1, <2>2, <2>3
  <1> QED BY <1>4, <1>5, <1>6 DEF DueInOrder, k

\* An operation joins the worker queue: a write is the app's latest.
LEMMA AppendDue ==
    ASSUME NEW q, NEW x, NEW t, Longer(t, q, x),
           NEW next \in Nat, NEW last \in Nat, NEW latest \in Nat, DueInOrder(q, next, last),
           x.kind = "write" => x.write = last + 1 /\ latest = last + 1 /\ next <= latest,
           last <= latest
    PROVE  DueInOrder(t, next, latest)
  <1> DEFINE n == Len(q)
             k == Len(t)
  <1>1. /\ n \in Nat /\ k = n + 1 /\ t[n + 1] = x
        /\ \A i \in 1..n : t[i] = q[i]
    BY DEF Longer
  <1>2. /\ \A i \in 1..n : q[i].kind = "write" => q[i].write \in next..last
        /\ \A i, j \in 1..n :
             q[i].kind = "write" /\ q[j].kind = "write" /\ i < j => q[i].write < q[j].write
    BY DEF DueInOrder
  <1> HIDE DEF n, k
  <1>3. \A i \in 1..k : i \in 1..n \/ i = n + 1
    BY <1>1
  <1>4. ASSUME NEW i \in 1..k, t[i].kind = "write" PROVE t[i].write \in next..latest
    <2>1. CASE i \in 1..n
      <3>1. t[i].write \in next..last
        BY <1>1, <1>2, <1>4, <2>1
      <3> QED BY <3>1
    <2>2. CASE i = n + 1
      BY <1>1, <1>4, <2>2
    <2> QED BY <1>3, <2>1, <2>2
  <1>5. ASSUME NEW i \in 1..k, NEW j \in 1..k, t[i].kind = "write", t[j].kind = "write", i < j
        PROVE  t[i].write < t[j].write
    <2>1. i \in 1..n
      BY <1>1, <1>3, <1>5
    <2>2. CASE j \in 1..n
      BY <1>1, <1>2, <1>5, <2>1, <2>2
    <2>3. CASE j = n + 1
      <3>1. t[j] = x /\ t[i] = q[i]
        BY <1>1, <2>1, <2>3
      <3>2. q[i].write \in next..last /\ x.write = last + 1
        BY <1>2, <1>5, <2>1, <3>1
      <3> QED BY <3>1, <3>2
    <2> QED BY <1>3, <2>2, <2>3
  <1> QED BY <1>4, <1>5 DEF DueInOrder, k

\* Ids may go back.
LEMMA EarlierDue ==
    ASSUME NEW q, NEW next \in Nat, NEW last \in Nat, DueInOrder(q, next, last),
           NEW first \in Nat, first <= next
    PROVE  DueInOrder(q, first, last)
  BY DEF DueInOrder

-----------------------------------------------------------------------------
(* The inductive invariant. *)

Typed ==
    /\ account \in Users /\ credentials \in [user : Users, counter : Nat]
    /\ by \in Seq(Users) /\ Len(by) <= MaxWrites
    /\ worker \in Seq(Task) /\ main \in Seq(Block) /\ asking \in SUBSET Ticket

TokensFit ==
    /\ OneToken(asking, main, worker)
    /\ Waits(AllCloses(asking, main, worker), client.stream)

WritesFit ==
    /\ client.nextId <= Len(by) + 1
    /\ DueInOrder(worker, client.nextId, Len(by))

\* Between two operations the client is sound, every token on its way was asked
\* for once, by a stream that still waits for it or was closed since, and the
\* writes to be stored fit behind the rows.
IInv == Sound(client) /\ ~client.stream.asked /\ Typed /\ TokensFit /\ WritesFit

\* A stream that was not closed still waits for its token.
LEMMA WaitsFollows ==
    ASSUME NEW c \in Client, NEW d \in Client, ~c.stream.asked, Follows(c, d),
           StreamSane(d.stream), NEW closes, Waits(closes, c.stream)
    PROVE  /\ Waits(closes, d.stream)
           /\ d.stream.asked => d.stream.closes \notin closes
  <1>1. c.stream.closes \in Nat /\ d.stream.closes \in Nat
    BY DEF Client, StreamType
  <1>2. CASE d.stream.closes > c.stream.closes
    BY <1>1, <1>2 DEF Waits
  <1>3. CASE /\ d.stream.closes = c.stream.closes
             /\ c.stream.state \in {"Starting", "Open"} =>
                  d.stream.state = c.stream.state /\ d.stream.asked = c.stream.asked
    <2>1. CASE c.stream.state = "Starting"
      BY <1>3, <2>1 DEF Waits
    <2>2. CASE c.stream.state # "Starting"
      BY <1>3, <2>2 DEF Waits
    <2> QED BY <2>1, <2>2
  <1> QED BY <1>2, <1>3 DEF Follows

\* A call of GetToken joins the others.
LEMMA AskJoins ==
    ASSUME NEW asks \in SUBSET Ticket, NEW m, NEW w, OneToken(asks, m, w),
           NEW s \in StreamType, Waits(AllCloses(asks, m, w), s),
           NEW ask \in Ticket, ask.closes = s.closes, s.state = "Starting",
           ask.closes \notin AllCloses(asks, m, w),
           NEW more, more = asks \cup {ask}
    PROVE  more \in SUBSET Ticket /\ OneToken(more, m, w) /\ Waits(AllCloses(more, m, w), s)
  <1>1. Asked(more) = Asked(asks) \cup {ask.closes}
    BY DEF Asked
  <1>2. \A a \in asks : a.closes # ask.closes
    BY DEF AllCloses, Asked
  <1>3. \A a, b \in more : a.closes = b.closes => a = b
    BY <1>2 DEF OneToken
  <1>4. OneToken(more, m, w)
    <2>1. ask.closes \notin Closes(m) /\ ask.closes \notin Closes(w)
      BY DEF AllCloses
    <2>2. Asked(more) \cap Closes(m) = {} /\ Asked(more) \cap Closes(w) = {}
      BY <1>1, <2>1 DEF OneToken
    <2> QED BY <1>3, <2>2 DEF OneToken
  <1>5. ask.closes \in Nat /\ ask.closes <= s.closes
    BY DEF Ticket, StreamType
  <1>6. \A n \in AllCloses(more, m, w) : n \in AllCloses(asks, m, w) \/ n = ask.closes
    BY <1>1 DEF AllCloses
  <1>7. Waits(AllCloses(more, m, w), s)
    BY <1>5, <1>6 DEF Waits
  <1> QED BY <1>4, <1>7

\* What an operation of the worker queue leaves behind.
LEMMA PerformKeeps ==
    ASSUME IInv, NEW d, Sound(d), Perform(d),
           UNCHANGED <<main, account, credentials, by>>,
           worker' \in Seq(Task), OneToken(asking, main, worker'),
           Waits(AllCloses(asking, main, worker'), d.stream),
           d.stream.asked => d.stream.closes \notin AllCloses(asking, main, worker'),
           DueInOrder(worker', d.nextId, Len(by)), d.nextId <= Len(by) + 1
    PROVE  IInv'
  <1>1. client' = Called(d)
    BY DEF Perform, Called
  <1>2. /\ Sound(client') /\ ~client'.stream.asked
        /\ client'.stream.closes = d.stream.closes /\ client'.stream.state = d.stream.state
        /\ client'.nextId = d.nextId
    BY <1>1, AskedSound
  <1>3. d.stream \in StreamType /\ d.stream.closes \in Nat /\ StreamSane(d.stream)
    BY DEF Sound, Sane, Client, StreamType
  <1>4. /\ asking' \in SUBSET Ticket /\ OneToken(asking', main, worker')
        /\ Waits(AllCloses(asking', main, worker'), d.stream)
    <2>1. CASE d.stream.asked
      <3> DEFINE ask == Ask(d.stream.closes)
      <3>1. ask \in Ticket /\ ask.closes = d.stream.closes
        BY <1>3 DEF IInv, Typed, Ask, Ticket
      <3>2. asking' = asking \cup {ask}
        BY <2>1 DEF Perform
      <3>3. d.stream.state = "Starting"
        BY <1>3, <2>1 DEF StreamSane
      <3>4. asking \in SUBSET Ticket
        BY DEF IInv, Typed
      <3> HIDE DEF ask
      <3> QED BY <1>3, <2>1, <3>1, <3>2, <3>3, <3>4, AskJoins
    <2>2. CASE ~d.stream.asked
      BY <2>2 DEF Perform, IInv, Typed
    <2> QED BY <2>1, <2>2
  <1>5. Waits(AllCloses(asking', main, worker'), client'.stream)
    BY <1>2, <1>4 DEF Waits
  <1>6. TokensFit'
    BY <1>4, <1>5 DEF TokensFit
  <1>7. WritesFit'
    BY <1>2 DEF WritesFit
  <1>8. Typed'
    BY <1>4 DEF IInv, Typed
  <1> QED BY <1>2, <1>6, <1>7, <1>8 DEF IInv

\* Taking the first operation of the worker queue.
LEMMA TakeFits ==
    ASSUME IInv, worker # <<>>, NEW rest, rest = Tail(worker)
    PROVE  /\ rest \in Seq(Task) /\ OneToken(asking, main, rest)
           /\ AllCloses(asking, main, rest) \subseteq AllCloses(asking, main, worker)
           /\ DueInOrder(rest, client.nextId, Len(by))
           /\ Head(worker) \in Task
           /\ Head(worker).kind = "write" =>
                  /\ Head(worker).write \in client.nextId..Len(by)
                  /\ DueInOrder(rest, Head(worker).write + 1, Len(by))
           /\ Head(worker).kind = "token" =>
                  /\ Head(worker).closes \in AllCloses(asking, main, worker)
                  /\ Head(worker).closes \notin AllCloses(asking, main, rest)
  <1>1. worker \in Seq(Task) /\ Len(by) \in Nat /\ client.nextId \in Nat
    BY DEF IInv, Typed, Sound, Sane, Client
  <1>2. /\ Shorter(rest, worker) /\ Head(worker) = worker[1]
        /\ Head(worker) \in Task /\ rest \in Seq(Task)
    BY <1>1, TailShorter
  <1>3. OneToken(asking, main, worker)
    BY DEF IInv, TokensFit
  <1>4. /\ Closes(rest) \subseteq Closes(worker) /\ Apart(rest)
        /\ worker[1].kind = "token" =>
               worker[1].closes \in Closes(worker) /\ worker[1].closes \notin Closes(rest)
    BY <1>2, <1>3, TailTokens DEF OneToken
  <1>5. OneToken(asking, main, rest)
    BY <1>3, <1>4 DEF OneToken
  <1>6. AllCloses(asking, main, rest) \subseteq AllCloses(asking, main, worker)
    BY <1>4 DEF AllCloses
  <1>7. worker[1].kind = "token" =>
            /\ worker[1].closes \in AllCloses(asking, main, worker)
            /\ worker[1].closes \notin AllCloses(asking, main, rest)
    BY <1>3, <1>4 DEF AllCloses, OneToken
  <1>8. /\ DueInOrder(rest, client.nextId, Len(by))
        /\ worker[1].kind = "write" =>
               /\ worker[1].write \in client.nextId..Len(by)
               /\ DueInOrder(rest, worker[1].write + 1, Len(by))
    BY <1>1, <1>2, TailDue DEF IInv, WritesFit
  <1> QED BY <1>2, <1>5, <1>6, <1>7, <1>8

\* An operation after which the stream was closed, or waits as it did.
LEMMA FollowsKeeps ==
    ASSUME IInv, NEW d, Sound(d), Follows(client, d), Perform(d),
           UNCHANGED <<main, account, credentials, by>>,
           worker' \in Seq(Task), OneToken(asking, main, worker'),
           AllCloses(asking, main, worker') \subseteq AllCloses(asking, main, worker),
           DueInOrder(worker', d.nextId, Len(by)), d.nextId <= Len(by) + 1
    PROVE  IInv'
  <1>1. client \in Client /\ d \in Client /\ StreamSane(d.stream) /\ ~client.stream.asked
    BY DEF IInv, Sound, Sane
  <1>2. Waits(AllCloses(asking, main, worker'), client.stream)
    BY DEF IInv, TokensFit, Waits
  <1>3. /\ Waits(AllCloses(asking, main, worker'), d.stream)
        /\ d.stream.asked => d.stream.closes \notin AllCloses(asking, main, worker')
    BY <1>1, <1>2, WaitsFollows
  <1> QED BY <1>3, PerformKeeps

\* An operation that is not on the worker queue.
LEMMA AloneKeeps ==
    ASSUME IInv, NEW d, Sound(d), Follows(client, d), d.nextId = client.nextId, Perform(d),
           UNCHANGED <<worker, main, account, credentials, by>>
    PROVE  IInv'
  <1>1. /\ worker \in Seq(Task) /\ OneToken(asking, main, worker)
        /\ DueInOrder(worker, d.nextId, Len(by)) /\ d.nextId <= Len(by) + 1
    BY DEF IInv, Typed, TokensFit, WritesFit
  <1> QED BY <1>1, FollowsKeeps

-----------------------------------------------------------------------------
(* The actions. *)

\* A write is stored behind the rows: its number is above every id.
LEMMA RunWriteKeeps == ASSUME IInv, RunWrite PROVE IInv'
  <1> DEFINE w == Head(worker).write
             d == FillWritePipeline(WriteLocally(client, w))
  <1>1. /\ worker # <<>> /\ Head(worker).kind = "write" /\ worker' = Tail(worker)
        /\ Perform(d) /\ UNCHANGED <<main, account, credentials, by>>
    BY DEF RunWrite
  <1>2. /\ worker' \in Seq(Task) /\ OneToken(asking, main, worker')
        /\ AllCloses(asking, main, worker') \subseteq AllCloses(asking, main, worker)
        /\ w \in client.nextId..Len(by) /\ DueInOrder(worker', w + 1, Len(by))
    BY <1>1, TakeFits
  <1>3. client.nextId \in Nat /\ Len(by) \in Nat /\ MaxWrites \in Nat /\ Len(by) <= MaxWrites
    BY ParametersAssumption DEF IInv, Sound, Sane, Client, Typed
  <1> HIDE DEF w
  <1>4. w \in Nat /\ client.nextId <= w /\ w <= Len(by) /\ w <= MaxWrites
    BY <1>2, <1>3
  <1>5. Sound(d) /\ Follows(client, d) /\ d.nextId = client.nextId + 1
    BY <1>4, WriteSound DEF IInv
  <1> HIDE DEF d
  <1>6. DueInOrder(worker', d.nextId, Len(by)) /\ d.nextId <= Len(by) + 1
    <2>1. d.nextId \in Nat /\ w + 1 \in Nat /\ d.nextId <= w + 1 /\ w + 1 <= Len(by) + 1
      BY <1>3, <1>4, <1>5
    <2>2. d.nextId <= Len(by) + 1
      BY <1>3, <2>1
    <2> QED BY <1>2, <1>3, <2>1, <2>2, EarlierDue
  <1> QED BY <1>1, <1>2, <1>5, <1>6, FollowsKeeps

\* The user changes: ids may go back, and every token becomes stale.
LEMMA RunCredentialChangeKeeps == ASSUME IInv, RunCredentialChange PROVE IInv'
  <1> DEFINE u == Head(worker).user
             d == HandleCredentialChange(client, u)
  <1>1. /\ worker # <<>> /\ Head(worker).kind = "credential" /\ worker' = Tail(worker)
        /\ Perform(d) /\ UNCHANGED <<main, account, credentials, by>>
    BY DEF RunCredentialChange
  <1>2. /\ worker' \in Seq(Task) /\ OneToken(asking, main, worker')
        /\ AllCloses(asking, main, worker') \subseteq AllCloses(asking, main, worker)
        /\ DueInOrder(worker', client.nextId, Len(by)) /\ Head(worker) \in Task
    BY <1>1, TakeFits
  <1>3. u \in Users
    BY <1>1, <1>2 DEF Task
  <1> HIDE DEF u
  <1>4. Sound(d) /\ Follows(client, d) /\ d.nextId <= client.nextId
    BY <1>3, CredentialSound DEF IInv
  <1> HIDE DEF d
  <1>5. DueInOrder(worker', d.nextId, Len(by)) /\ d.nextId <= Len(by) + 1
    <2>1. d.nextId \in Nat /\ client.nextId \in Nat /\ Len(by) \in Nat
      BY <1>4 DEF IInv, Sound, Sane, Client, Typed
    <2>2. client.nextId <= Len(by) + 1
      BY DEF IInv, WritesFit
    <2>3. d.nextId <= Len(by) + 1
      BY <1>4, <2>1, <2>2
    <2> QED BY <1>2, <1>4, <2>1, <2>3, EarlierDue
  <1> QED BY <1>1, <1>2, <1>4, <1>5, FollowsKeeps

\* The stream that waits for the token opens, or fails without one.
LEMMA RunTokenKeeps == ASSUME IInv, RunToken PROVE IInv'
  <1> DEFINE token == Head(worker)
             rest == Tail(worker)
  <1>1. /\ worker # <<>> /\ token.kind = "token" /\ worker' = rest
        /\ UNCHANGED <<main, account, credentials, by>>
    BY DEF RunToken
  <1>2. /\ rest \in Seq(Task) /\ OneToken(asking, main, rest)
        /\ AllCloses(asking, main, rest) \subseteq AllCloses(asking, main, worker)
        /\ DueInOrder(rest, client.nextId, Len(by)) /\ token \in Task
        /\ token.closes \in AllCloses(asking, main, worker)
        /\ token.closes \notin AllCloses(asking, main, rest)
    BY <1>1, TakeFits
  <1>3. client.nextId <= Len(by) + 1 /\ Waits(AllCloses(asking, main, worker), client.stream)
    BY DEF IInv, WritesFit, TokensFit
  <1>4. token.user \in Users \cup {NoUser}
    BY <1>1, <1>2 DEF Task
  <1>5. CASE Stale(client, token.closes)
    <2>1. UNCHANGED <<client, asking>>
      BY <1>5 DEF RunToken
    <2>2. Waits(AllCloses(asking, main, rest), client.stream)
      BY <1>2, <1>3 DEF Waits
    <2> HIDE DEF rest
    <2>3. TokensFit'
      BY <1>1, <1>2, <2>1, <2>2 DEF TokensFit
    <2>4. WritesFit'
      BY <1>1, <1>2, <1>3, <2>1 DEF WritesFit
    <2>5. Typed'
      BY <1>1, <1>2, <2>1 DEF IInv, Typed
    <2> QED BY <2>1, <2>3, <2>4, <2>5 DEF IInv
  <1>6. CASE ~Stale(client, token.closes)
    <2> DEFINE d == ResumeStartWithCredentials(client, token)
    <2>1. Perform(d)
      BY <1>6 DEF RunToken
    <2>2. token.closes = client.stream.closes
      BY <1>6 DEF Stale
    <2>3. client.stream.state = "Starting"
      BY <1>2, <1>3, <2>2 DEF Waits
    <2>4. Sound(client) /\ ~client.stream.asked /\ IsStarted(client.stream)
      BY <2>3 DEF IInv, IsStarted
    <2>5. CASE token.user = NoUser
      <3>1. HardAssert(client, client.stream.state = "Starting") = client
        <4>1. client \in Client /\ ~client.failed
              /\ (client.stream.state = "Starting") = TRUE
          BY <2>3, <2>4 DEF Sound, Sane
        <4> QED BY <4>1, AssertHolds
      <3>2. d = Close(client, "transient")
        BY <2>5, <3>1 DEF ResumeStartWithCredentials
      <3> HIDE DEF d
      <3>3. Sound(d) /\ Follows(client, d) /\ d.nextId = client.nextId
        <4>1. "transient" = "ok" => client.pipeline = <<>>
          OBVIOUS
        <4> QED BY <2>4, <3>2, <4>1, CloseSound
      <3> HIDE DEF rest
      <3> QED BY <1>1, <1>2, <1>3, <2>1, <3>3, FollowsKeeps
    <2>6. CASE token.user # NoUser
      <3>1. d = WriteHandshake(Open(client, token.user)) /\ token.user \in Users
        BY <1>4, <2>6 DEF ResumeStartWithCredentials
      <3> HIDE DEF d
      <3>2. /\ Sound(d) /\ d.stream.closes = client.stream.closes /\ ~d.stream.asked
            /\ d.nextId = client.nextId
        BY <2>3, <2>4, <3>1, OpenSound
      <3>3. Waits(AllCloses(asking, main, rest), d.stream)
        BY <1>2, <1>3, <2>2, <3>2 DEF Waits
      <3> HIDE DEF rest
      <3> QED BY <1>1, <1>2, <1>3, <2>1, <3>2, <3>3, PerformKeeps
    <2> QED BY <2>5, <2>6
  <1> QED BY <1>5, <1>6

\* A stream that is started ends.
LEMMA CloseKeeps ==
    ASSUME IInv, NEW status, IsStarted(client.stream),
           status = "ok" => client.pipeline = <<>>, Perform(Close(client, status)),
           UNCHANGED <<worker, main, account, credentials, by>>
    PROVE  IInv'
  <1> DEFINE d == Close(client, status)
  <1>1. Sound(d) /\ Follows(client, d) /\ d.nextId = client.nextId
    BY CloseSound DEF IInv
  <1> HIDE DEF d
  <1> QED BY <1>1, AloneKeeps DEF d

\* An answer is read: the first shakes hands, the others settle the head.
LEMMA RunAnswerKeeps == ASSUME IInv, RunAnswer PROVE IInv'
  <1>1. /\ client.stream.down # <<>> /\ UNCHANGED <<worker, main, account, credentials, by>>
        /\ Sound(client) /\ ~client.stream.asked
    BY DEF RunAnswer, IInv
  <1>2. IsOpen(client.stream) /\ IsStarted(client.stream)
    BY <1>1 DEF Sound, Sane, StreamSane, IsOpen, IsStarted
  <1>3. CASE Head(client.stream.down).ok
    <2> DEFINE d == NotifyStreamResponse(client)
    <2>1. Perform(d)
      BY <1>3 DEF RunAnswer
    <2>2. Sound(d) /\ Follows(client, d) /\ d.nextId = client.nextId
      BY <1>1, AnswerSound
    <2> HIDE DEF d
    <2> QED BY <1>1, <2>1, <2>2, AloneKeeps
  <1>4. CASE ~Head(client.stream.down).ok
    <2>1. Perform(Close(client, "permanent"))
      BY <1>4 DEF RunAnswer
    <2>2. "permanent" = "ok" => client.pipeline = <<>>
      OBVIOUS
    <2> QED BY <1>1, <1>2, <2>1, <2>2, CloseKeeps
  <1> QED BY <1>3, <1>4

\* The backend handles a request.
LEMMA BackendHandlesKeeps == ASSUME IInv, BackendHandles PROVE IInv'
  <1> DEFINE w == Head(client.stream.up)
             answer == [write |-> w, ok |-> w \notin Refused]
             d == Moved(client, Tail(client.stream.up), Append(client.stream.down, answer))
  <1>1. /\ client.stream.up # <<>> /\ client' = d
        /\ UNCHANGED <<worker, main, account, credentials, asking, by>>
    BY DEF BackendHandles, Moved
  <1>2. client.stream.up \in Seq(Nat)
    BY DEF IInv, Sound, Sane, Client, StreamType
  <1>3. w \in Nat
    BY <1>1, <1>2, TailFacts
  <1>4. answer \in Answer /\ answer.write = Head(client.stream.up)
    BY <1>3 DEF Answer
  <1> HIDE DEF answer
  <1>5. /\ Sound(d) /\ d.stream.closes = client.stream.closes
        /\ d.stream.state = client.stream.state /\ d.stream.asked = client.stream.asked
        /\ d.nextId = client.nextId
    BY <1>1, <1>4, MovedSound DEF IInv
  <1> HIDE DEF d
  <1>6. TokensFit'
    BY <1>1, <1>5 DEF IInv, TokensFit, Waits
  <1>7. WritesFit' /\ Typed'
    BY <1>1, <1>5 DEF IInv, WritesFit, Typed
  <1> QED BY <1>1, <1>5, <1>6, <1>7 DEF IInv

\* The app's next write joins the worker queue.
LEMMA AppWritesKeeps == ASSUME IInv, AppWrites PROVE IInv'
  <1> DEFINE last == Len(by)
             task == [kind |-> "write", write |-> last + 1]
             u == credentials.user
  <1>1. /\ last < MaxWrites /\ by' = Append(by, u) /\ worker' = Append(worker, task)
        /\ UNCHANGED <<client, main, account, credentials, asking>>
    BY DEF AppWrites
  <1>2. /\ by \in Seq(Users) /\ u \in Users /\ worker \in Seq(Task)
        /\ client.nextId \in Nat /\ MaxWrites \in Nat /\ last \in Nat
    BY ParametersAssumption DEF IInv, Typed, Sound, Sane, Client
  <1> HIDE DEF u
  <1>3. by' \in Seq(Users) /\ Len(by') = last + 1
    BY <1>1, <1>2, AppendFacts
  <1>4. Len(by') <= MaxWrites
    <2> HIDE DEF last
    <2> QED BY <1>1, <1>2, <1>3
  <1> DEFINE latest == Len(by')
  <1>5. client.nextId <= last + 1 /\ DueInOrder(worker, client.nextId, last)
    BY DEF IInv, WritesFit
  <1> HIDE DEF last, latest
  <1>6. task \in Task /\ task.kind = "write" /\ task.write = last + 1
    BY <1>2 DEF Task
  <1> HIDE DEF task
  <1>7. Longer(worker', worker, task) /\ worker' \in Seq(Task)
    BY <1>1, <1>2, <1>6, AppendLonger
  <1>8. /\ latest = last + 1 /\ latest \in Nat /\ last <= latest
        /\ client.nextId <= latest /\ client.nextId <= latest + 1
    BY <1>2, <1>3, <1>5 DEF latest
  <1>9. DueInOrder(worker', client.nextId, latest)
    BY <1>2, <1>5, <1>6, <1>7, <1>8, AppendDue
  <1>10. Apart(worker') /\ Closes(worker') = Closes(worker)
    <2>1. Apart(worker) /\ (task.kind = "token" => task.closes \notin Closes(worker))
      BY <1>6 DEF IInv, TokensFit, OneToken
    <2> QED BY <1>6, <1>7, <2>1, AppendTokens
  <1>11. TokensFit'
    BY <1>1, <1>10 DEF IInv, TokensFit, OneToken, AllCloses, Waits
  <1>12. WritesFit'
    BY <1>1, <1>8, <1>9 DEF WritesFit, latest
  <1>13. Typed'
    BY <1>1, <1>3, <1>4, <1>7 DEF IInv, Typed
  <1> QED BY <1>1, <1>11, <1>12, <1>13 DEF IInv

\* A block joins the main queue.
LEMMA MainKeeps ==
    ASSUME IInv, NEW block \in Block, block.kind = "notify", main' = Append(main, block),
           account' \in Users, UNCHANGED <<client, worker, credentials, asking, by>>
    PROVE  IInv'
  <1>1. main \in Seq(Block)
    BY DEF IInv, Typed
  <1>2. Longer(main', main, block) /\ main' \in Seq(Block)
    BY <1>1, AppendLonger
  <1>3. Apart(main') /\ Closes(main') = Closes(main)
    <2>1. Apart(main) /\ (block.kind = "token" => block.closes \notin Closes(main))
      BY DEF IInv, TokensFit, OneToken
    <2> QED BY <1>2, <2>1, AppendTokens
  <1>4. TokensFit'
    BY <1>3 DEF IInv, TokensFit, OneToken, AllCloses, Waits
  <1>5. WritesFit' /\ Typed'
    BY <1>2 DEF IInv, WritesFit, Typed
  <1> QED BY <1>4, <1>5 DEF IInv

\* FIRAuth takes up a call: the call keeps its close count.
LEMMA AuthTakesCallKeeps ==
    ASSUME IInv, NEW ask \in asking, AuthTakesCall(ask) PROVE IInv'
  <1> DEFINE taken == [ask EXCEPT !.user = account]
  <1>1. /\ asking' = (asking \ {ask}) \cup {taken}
        /\ UNCHANGED <<client, worker, main, account, credentials, by>>
    BY DEF AuthTakesCall
  <1>2. ask \in Ticket /\ account \in Users /\ asking \in SUBSET Ticket
    BY DEF IInv, Typed
  <1>3. taken \in Ticket /\ taken.closes = ask.closes
    BY <1>2 DEF Ticket
  <1> HIDE DEF taken
  <1>4. \A a, b \in asking : a.closes = b.closes => a = b
    BY DEF IInv, TokensFit, OneToken
  <1>5. \A a, b \in asking' : a.closes = b.closes => a = b
    BY <1>1, <1>3, <1>4
  <1>6. Asked(asking') = Asked(asking)
    BY <1>1, <1>3 DEF Asked
  <1>7. OneToken(asking', main, worker) /\ AllCloses(asking', main, worker) = AllCloses(asking, main, worker)
    BY <1>5, <1>6 DEF IInv, TokensFit, OneToken, AllCloses
  <1>8. TokensFit'
    BY <1>1, <1>7 DEF IInv, TokensFit
  <1>9. WritesFit' /\ Typed'
    BY <1>1, <1>2, <1>3 DEF IInv, WritesFit, Typed
  <1> QED BY <1>1, <1>8, <1>9 DEF IInv

\* FIRAuth answers: the call becomes a block of the main queue.
LEMMA AuthAnswersKeeps ==
    ASSUME IInv, NEW ask \in asking, NEW token \in Users \cup {NoUser},
           AuthAnswers(ask, token)
    PROVE  IInv'
  <1> DEFINE block == [kind |-> "token", closes |-> ask.closes,
                       counter |-> ask.counter, user |-> token]
  <1>1. /\ main' = Append(main, block) /\ asking' = asking \ {ask}
        /\ UNCHANGED <<client, worker, account, credentials, by>>
    BY DEF AuthAnswers
  <1>2. ask \in Ticket /\ main \in Seq(Block) /\ asking \in SUBSET Ticket
    BY DEF IInv, Typed
  <1>3. block \in Block /\ block.kind = "token" /\ block.closes = ask.closes
    BY <1>2 DEF Ticket, Block
  <1> HIDE DEF block
  <1>4. OneToken(asking, main, worker)
    BY DEF IInv, TokensFit
  <1>5. ask.closes \in Asked(asking) /\ ask.closes \notin Closes(main)
    BY <1>4 DEF OneToken, Asked
  <1>6. Longer(main', main, block) /\ main' \in Seq(Block)
    BY <1>1, <1>2, <1>3, AppendLonger
  <1>7. Apart(main') /\ Closes(main') = Closes(main) \cup {ask.closes}
    <2>1. Apart(main) /\ (block.kind = "token" => block.closes \notin Closes(main))
      BY <1>3, <1>4, <1>5 DEF OneToken
    <2> QED BY <1>3, <1>6, <2>1, AppendTokens
  <1>8. Asked(asking') = Asked(asking) \ {ask.closes}
    <2>1. \A a \in asking : a.closes = ask.closes => a = ask
      BY <1>4 DEF OneToken
    <2> QED BY <1>1, <2>1 DEF Asked
  <1>9. OneToken(asking', main', worker)
    <2>1. \A a, b \in asking' : a.closes = b.closes => a = b
      BY <1>1, <1>4 DEF OneToken
    <2>2. /\ Asked(asking') \cap Closes(main') = {}
          /\ Asked(asking') \cap Closes(worker) = {}
          /\ Closes(main') \cap Closes(worker) = {}
      BY <1>4, <1>5, <1>7, <1>8 DEF OneToken
    <2> QED BY <1>4, <1>7, <2>1, <2>2 DEF OneToken
  <1>10. AllCloses(asking', main', worker) \subseteq AllCloses(asking, main, worker)
    BY <1>5, <1>7, <1>8 DEF AllCloses
  <1>11. TokensFit'
    BY <1>1, <1>9, <1>10 DEF IInv, TokensFit, Waits
  <1>12. WritesFit' /\ Typed'
    BY <1>1, <1>2, <1>6 DEF IInv, WritesFit, Typed
  <1> QED BY <1>1, <1>11, <1>12 DEF IInv

\* The first block of the main queue runs.
LEMMA TakeBlock ==
    ASSUME IInv, main # <<>>, NEW rest, rest = Tail(main)
    PROVE  /\ rest \in Seq(Block) /\ Head(main) \in Block
           /\ OneToken(asking, rest, worker) /\ Closes(rest) \subseteq Closes(main)
           /\ Head(main).kind = "token" =>
                  /\ Head(main).closes \in Closes(main)
                  /\ Head(main).closes \notin Closes(rest)
  <1>1. main \in Seq(Block) /\ OneToken(asking, main, worker)
    BY DEF IInv, Typed, TokensFit
  <1>2. /\ Shorter(rest, main) /\ Head(main) = main[1]
        /\ Head(main) \in Block /\ rest \in Seq(Block)
    BY <1>1, TailShorter
  <1>3. /\ Closes(rest) \subseteq Closes(main) /\ Apart(rest)
        /\ main[1].kind = "token" =>
               main[1].closes \in Closes(main) /\ main[1].closes \notin Closes(rest)
    BY <1>1, <1>2, TailTokens DEF OneToken
  <1>4. OneToken(asking, rest, worker)
    BY <1>1, <1>3 DEF OneToken
  <1> QED BY <1>2, <1>3, <1>4

\* A notification raises the counter and joins the worker queue.
LEMMA CredentialsNotifiedKeeps == ASSUME IInv, CredentialsNotified PROVE IInv'
  <1> DEFINE u == Head(main).user
             rest == Tail(main)
             task == [kind |-> "credential", user |-> u]
  <1>1. /\ main # <<>> /\ Head(main).kind = "notify" /\ main' = rest
        /\ credentials' = [user |-> u, counter |-> credentials.counter + 1]
        /\ worker' = Append(worker, task)
        /\ UNCHANGED <<client, account, asking, by>>
    BY DEF CredentialsNotified
  <1>2. /\ rest \in Seq(Block) /\ Head(main) \in Block
        /\ OneToken(asking, rest, worker) /\ Closes(rest) \subseteq Closes(main)
    BY <1>1, TakeBlock
  <1>3. u \in Users
    BY <1>1, <1>2 DEF Block
  <1> HIDE DEF u, rest
  <1>4. task \in Task /\ task.kind = "credential"
    BY <1>3 DEF Task
  <1> HIDE DEF task
  <1>5. /\ worker \in Seq(Task) /\ client.nextId \in Nat /\ Len(by) \in Nat
        /\ credentials.counter \in Nat
    BY DEF IInv, Typed, Sound, Sane, Client
  <1>6. Longer(worker', worker, task) /\ worker' \in Seq(Task)
    BY <1>1, <1>4, <1>5, AppendLonger
  <1>7. Apart(worker') /\ Closes(worker') = Closes(worker)
    <2>1. Apart(worker) /\ (task.kind = "token" => task.closes \notin Closes(worker))
      BY <1>2, <1>4 DEF OneToken
    <2> QED BY <1>4, <1>6, <2>1, AppendTokens
  <1>8. DueInOrder(worker', client.nextId, Len(by))
    <2> DEFINE last == Len(by)
    <2>1. DueInOrder(worker, client.nextId, last)
      BY DEF IInv, WritesFit
    <2>2. task.kind # "write" /\ last \in Nat /\ last <= last
      BY <1>4, <1>5
    <2> HIDE DEF last
    <2>3. DueInOrder(worker', client.nextId, last)
      BY <1>5, <1>6, <2>1, <2>2, AppendDue
    <2> QED BY <2>3 DEF last
  <1>9. OneToken(asking, rest, worker')
    BY <1>2, <1>7 DEF OneToken
  <1>10. AllCloses(asking, rest, worker') \subseteq AllCloses(asking, main, worker)
    BY <1>2, <1>7 DEF AllCloses
  <1>11. TokensFit'
    BY <1>1, <1>9, <1>10 DEF IInv, TokensFit, Waits
  <1>12. WritesFit'
    BY <1>1, <1>8 DEF IInv, WritesFit
  <1>13. Typed'
    BY <1>1, <1>2, <1>3, <1>5, <1>6 DEF IInv, Typed
  <1> QED BY <1>1, <1>11, <1>12, <1>13 DEF IInv

\* A token from before a notification is asked for again, another one goes to
\* the worker queue.
LEMMA TokenAnsweredKeeps == ASSUME IInv, TokenAnswered PROVE IInv'
  <1> DEFINE answer == Head(main)
             rest == Tail(main)
             closes == answer.closes
  <1>1. /\ main # <<>> /\ answer.kind = "token" /\ main' = rest
        /\ UNCHANGED <<client, account, credentials, by>>
    BY DEF TokenAnswered
  <1>2. /\ rest \in Seq(Block) /\ answer \in Block
        /\ OneToken(asking, rest, worker) /\ Closes(rest) \subseteq Closes(main)
        /\ closes \in Closes(main) /\ closes \notin Closes(rest)
    BY <1>1, TakeBlock
  <1>3. closes \in Nat /\ answer.user \in Users \cup {NoUser}
    BY <1>1, <1>2 DEF Block
  <1>4. CASE answer.counter # credentials.counter
    <2> DEFINE ask == Ask(closes)
    <2>1. asking' = asking \cup {ask} /\ UNCHANGED worker
      BY <1>4 DEF TokenAnswered
    <2>2. /\ asking \in SUBSET Ticket /\ credentials.counter \in Nat
          /\ OneToken(asking, main, worker)
      BY DEF IInv, Typed, TokensFit
    <2> HIDE DEF closes, rest
    <2>3. ask \in Ticket /\ ask.closes = closes
      BY <1>3, <2>2 DEF Ask, Ticket
    <2> HIDE DEF ask
    <2>4. closes \notin Asked(asking) /\ closes \notin Closes(worker)
      BY <1>2, <2>2 DEF OneToken
    <2>5. Asked(asking') = Asked(asking) \cup {closes}
      BY <2>1, <2>3 DEF Asked
    <2>6. \A a, b \in asking' : a.closes = b.closes => a = b
      <3>1. \A a \in asking : a.closes # closes
        BY <2>4 DEF Asked
      <3> QED BY <2>1, <2>2, <2>3, <3>1 DEF OneToken
    <2>7. OneToken(asking', rest, worker)
      <3>1. /\ Asked(asking') \cap Closes(rest) = {}
            /\ Asked(asking') \cap Closes(worker) = {}
        BY <1>2, <2>4, <2>5 DEF OneToken
      <3> QED BY <1>2, <2>6, <3>1 DEF OneToken
    <2>8. AllCloses(asking', rest, worker) \subseteq AllCloses(asking, main, worker)
      BY <1>2, <2>5 DEF AllCloses
    <2>9. TokensFit'
      BY <1>1, <2>1, <2>7, <2>8 DEF IInv, TokensFit, Waits
    <2>10. WritesFit' /\ Typed'
      BY <1>1, <1>2, <2>1, <2>2, <2>3 DEF IInv, WritesFit, Typed
    <2> QED BY <1>1, <2>9, <2>10 DEF IInv
  <1>5. CASE answer.counter = credentials.counter
    <2> DEFINE task == [kind |-> "token", closes |-> closes, user |-> answer.user]
    <2>1. worker' = Append(worker, task) /\ UNCHANGED asking
      BY <1>5 DEF TokenAnswered
    <2>2. /\ worker \in Seq(Task) /\ client.nextId \in Nat /\ Len(by) \in Nat
          /\ OneToken(asking, main, worker)
      BY DEF IInv, Typed, TokensFit, Sound, Sane, Client
    <2> HIDE DEF closes, rest, answer
    <2>3. task \in Task /\ task.kind = "token" /\ task.closes = closes
      BY <1>3 DEF Task
    <2> HIDE DEF task
    <2>4. closes \notin Asked(asking) /\ closes \notin Closes(worker)
      BY <1>2, <2>2 DEF OneToken
    <2>5. Longer(worker', worker, task) /\ worker' \in Seq(Task)
      BY <2>1, <2>2, <2>3, AppendLonger
    <2>6. Apart(worker') /\ Closes(worker') = Closes(worker) \cup {closes}
      <3>1. Apart(worker) /\ (task.kind = "token" => task.closes \notin Closes(worker))
        BY <2>2, <2>3, <2>4 DEF OneToken
      <3> QED BY <2>3, <2>5, <3>1, AppendTokens
    <2>7. OneToken(asking, rest, worker')
      <3>1. /\ Asked(asking) \cap Closes(worker') = {}
            /\ Closes(rest) \cap Closes(worker') = {}
        BY <1>2, <2>4, <2>6 DEF OneToken
      <3> QED BY <1>2, <2>6, <3>1 DEF OneToken
    <2>8. AllCloses(asking, rest, worker') \subseteq AllCloses(asking, main, worker)
      BY <1>2, <2>6 DEF AllCloses
    <2>9. DueInOrder(worker', client.nextId, Len(by))
      <3> DEFINE last == Len(by)
      <3>1. DueInOrder(worker, client.nextId, last)
        BY DEF IInv, WritesFit
      <3>2. task.kind # "write" /\ last \in Nat /\ last <= last
        BY <2>2, <2>3
      <3> HIDE DEF last
      <3>3. DueInOrder(worker', client.nextId, last)
        BY <2>2, <2>5, <3>1, <3>2, AppendDue
      <3> QED BY <3>3 DEF last
    <2>10. TokensFit'
      BY <1>1, <2>1, <2>7, <2>8 DEF IInv, TokensFit, Waits
    <2>11. WritesFit'
      BY <1>1, <2>9 DEF IInv, WritesFit
    <2>12. Typed'
      BY <1>1, <1>2, <2>1, <2>5 DEF IInv, Typed
    <2> QED BY <1>1, <2>10, <2>11, <2>12 DEF IInv
  <1> QED BY <1>4, <1>5

\* Nothing waits in empty queues.
LEMMA EmptyFits ==
    ASSUME NEW s, NEW next, NEW last
    PROVE  /\ OneToken({}, <<>>, <<>>) /\ Waits(AllCloses({}, <<>>, <<>>), s)
           /\ DueInOrder(<<>>, next, last)
  <1>1. Tokens(<<>>) = {}
    BY DEF Tokens
  <1>2. Closes(<<>>) = {} /\ Apart(<<>>) /\ Asked({}) = {}
    BY <1>1 DEF Closes, Apart, Asked
  <1>3. AllCloses({}, <<>>, <<>>) = {}
    BY <1>2 DEF AllCloses
  <1>4. DueInOrder(<<>>, next, last)
    BY DEF DueInOrder
  <1> QED BY <1>2, <1>3, <1>4 DEF OneToken, Waits

\* The app crashes and starts again: nothing but the queues on disk is left.
LEMMA CrashKeeps == ASSUME IInv, Crash PROVE IInv'
  <1> DEFINE d == Boot(client.queue, account, client.told)
  <1>1. /\ client' = Called(d) /\ worker' = <<>> /\ main' = <<>>
        /\ asking' = IF d.stream.asked
                     THEN {[closes |-> 0, counter |-> 0, user |-> NoUser]} ELSE {}
        /\ credentials' = [user |-> account, counter |-> 0]
        /\ UNCHANGED <<account, by>>
    BY DEF Crash, Called
  <1>2. Sound(d) /\ d.nextId <= Len(by) + 1
    <2>1. /\ client.queue \in [Users -> Seq(Batch)] /\ client.told \in [Writes -> Verdict]
          /\ RowsSane(client.queue, client.nextId) /\ account \in Users
      BY DEF IInv, Typed, Sound, Sane, Client
    <2>2. Sound(d) /\ d.nextId <= client.nextId
      BY <2>1, BootSound
    <2> HIDE DEF d
    <2>3. d.nextId \in Nat /\ client.nextId \in Nat /\ Len(by) \in Nat
      BY <2>2 DEF IInv, Typed, Sound, Sane, Client
    <2>4. client.nextId <= Len(by) + 1
      BY DEF IInv, WritesFit
    <2> QED BY <2>2, <2>3, <2>4
  <1> HIDE DEF d
  <1>3. /\ Sound(client') /\ ~client'.stream.asked
        /\ client'.stream.closes = d.stream.closes /\ client'.stream.state = d.stream.state
        /\ client'.nextId = d.nextId
    BY <1>1, <1>2, AskedSound
  <1>4. d.stream \in StreamType /\ d.stream.closes \in Nat /\ StreamSane(d.stream)
    BY <1>2 DEF Sound, Sane, Client, StreamType
  <1>5. WritesFit'
    BY <1>1, <1>2, <1>3, EmptyFits DEF WritesFit
  <1>6. Tokens(<<>>) = {}
    BY DEF Tokens
  <1>7. Closes(<<>>) = {} /\ Apart(<<>>)
    BY <1>6 DEF Closes, Apart
  <1>8. OneToken(asking', main', worker')
    <2>1. \A a, b \in asking' : a.closes = b.closes => a = b
      BY <1>1
    <2> QED BY <1>1, <1>7, <2>1 DEF OneToken
  <1>9. \A n \in AllCloses(asking', main', worker') : n = 0 /\ d.stream.asked
    <2>1. \A a \in asking' : a.closes = 0 /\ d.stream.asked
      BY <1>1
    <2> QED BY <1>1, <1>7, <2>1 DEF AllCloses, Asked
  <1>10. Waits(AllCloses(asking', main', worker'), client'.stream)
    <2> SUFFICES ASSUME NEW n \in AllCloses(asking', main', worker')
                 PROVE  /\ n \in Nat /\ n <= client'.stream.closes
                        /\ client'.stream.state = "Starting"
      BY DEF Waits
    <2>1. n = 0 /\ d.stream.asked
      BY <1>9
    <2>2. d.stream.state = "Starting"
      BY <1>4, <2>1 DEF StreamSane
    <2> QED BY <1>3, <1>4, <2>1, <2>2
  <1>11. TokensFit'
    BY <1>8, <1>10 DEF TokensFit
  <1>12. Typed'
    <2>1. <<>> \in Seq(Task) /\ <<>> \in Seq(Block)
      OBVIOUS
    <2>2. [closes |-> 0, counter |-> 0, user |-> NoUser] \in Ticket
      BY DEF Ticket
    <2>3. asking' \in SUBSET Ticket
      BY <1>1, <2>2
    <2> QED BY <1>1, <2>1, <2>3 DEF IInv, Typed
  <1> QED BY <1>3, <1>5, <1>11, <1>12 DEF IInv

\* The first run begins with empty queues and no stream.
LEMMA InitHolds == ASSUME Init PROVE IInv
  <1> DEFINE queue == [u \in Users |-> <<>>]
             told == [w \in Writes |-> "no"]
             d == Boot(queue, account, told)
  <1>1. account \in Users
    BY DEF Init
  <1>2. queue \in [Users -> Seq(Batch)] /\ told \in [Writes -> Verdict]
    BY Values DEF Verdict
  <1>3. RowsSane(queue, 1)
    <2>1. 1 \in 1..(MaxWrites + 1)
      BY ParametersAssumption
    <2>2. \A u \in Users : Ordered(queue[u], 1)
      BY DEF Ordered
    <2> QED BY <2>1, <2>2 DEF RowsSane
  <1> HIDE DEF queue, told
  <1>4. Sound(d) /\ d.nextId <= 1 /\ d.queue = queue
    BY <1>1, <1>2, <1>3, BootSound
  <1>5. client = d
    BY DEF Init, queue, told
  <1> HIDE DEF d
  <1>6. ~d.stream.asked
    <2> SUFFICES ASSUME d.stream.asked PROVE FALSE
      OBVIOUS
    <2>1. d.stream.state = "Starting"
      BY <1>4 DEF Sound, Sane, StreamSane
    <2>2. d.pipeline # <<>>
      BY <1>4, <2>1 DEF Sound, Sane, IsStarted, IsOpen
    <2>3. d.user \in Users /\ d.pipeline \in Seq(Batch)
      BY <1>4 DEF Sound, Sane, Client
    <2>4. queue[d.user] = <<>>
      BY <2>3 DEF queue
    <2>5. Heads(d.pipeline, <<>>)
      BY <1>4, <2>4 DEF Sound, Prefixed
    <2>6. Len(d.pipeline) = 0
      <3>1. Len(d.pipeline) \in Nat
        BY <2>3
      <3>2. Len(d.pipeline) <= Len(<<>>) /\ Len(<<>>) = 0
        BY <2>5 DEF Heads
      <3> QED BY <3>1, <3>2
    <2> QED BY <2>2, <2>3, <2>6, NoElements
  <1>7. /\ worker = <<>> /\ main = <<>> /\ asking = {} /\ by = <<>>
        /\ credentials = [user |-> account, counter |-> 0]
    BY DEF Init
  <1>8. Typed
    <2>1. <<>> \in Seq(Users) /\ <<>> \in Seq(Task) /\ <<>> \in Seq(Block)
          /\ Len(<<>>) = 0
      OBVIOUS
    <2>2. {} \in SUBSET Ticket
      OBVIOUS
    <2>3. 0 <= MaxWrites
      BY ParametersAssumption
    <2> QED BY <1>1, <1>7, <2>1, <2>2, <2>3 DEF Typed
  <1>9. TokensFit
    BY <1>7, EmptyFits DEF TokensFit
  <1>10. WritesFit
    <2>1. d.nextId <= Len(<<>>) + 1
      <3>1. Len(<<>>) + 1 = 1
        OBVIOUS
      <3> QED BY <1>4, <3>1
    <2> QED BY <1>5, <1>7, <2>1, EmptyFits DEF WritesFit
  <1> QED BY <1>4, <1>5, <1>6, <1>8, <1>9, <1>10 DEF IInv

\* The timers, failures and network switches, which leave the queues alone.
LEMMA LoneStepsKeep ==
    ASSUME IInv, \/ RunBackoff \/ RunIdle \/ StreamBreaks
                 \/ ConnectivityChanges \/ DisableNetwork \/ EnableNetwork
    PROVE  IInv'
  <1>0. Sound(client) /\ Sane(client) /\ ~client.stream.asked
        /\ (client.handshake => IsOpen(client.stream))
    BY DEF IInv, Sound
  <1>1. CASE RunBackoff
    <2> DEFINE d == EndBackoff(client)
    <2>1. Sound(d) /\ Follows(client, d) /\ d.nextId = client.nextId
      BY <1>0, <1>1, EndBackoffSound DEF RunBackoff
    <2>2. Perform(d) /\ UNCHANGED <<worker, main, account, credentials, by>>
      BY <1>1 DEF RunBackoff
    <2> HIDE DEF d
    <2> QED BY <2>1, <2>2, AloneKeeps
  <1>2. CASE RunIdle
    <2>1. IsStarted(client.stream) /\ client.pipeline = <<>>
      BY <1>0, <1>2 DEF Sane, StreamSane, IsOpen, IsStarted, RunIdle
    <2> QED BY <1>2, <2>1, CloseKeeps DEF RunIdle
  <1>3. CASE StreamBreaks
    <2>1. IsStarted(client.stream)
      BY <1>3 DEF StreamBreaks, IsOpen, IsStarted
    <2>2. "transient" = "ok" => client.pipeline = <<>>
      OBVIOUS
    <2>3. /\ Perform(Close(client, "transient"))
          /\ UNCHANGED <<worker, main, account, credentials, by>>
      BY <1>3 DEF StreamBreaks
    <2> QED BY <2>1, <2>2, <2>3, CloseKeeps
  <1>4. CASE ConnectivityChanges
    <2> DEFINE d == RestartNetwork(client)
    <2>1. Sound(d) /\ Follows(client, d) /\ d.nextId = client.nextId
      BY <1>0, RestartSound
    <2>2. Perform(d) /\ UNCHANGED <<worker, main, account, credentials, by>>
      BY <1>4 DEF ConnectivityChanges
    <2> HIDE DEF d
    <2> QED BY <2>1, <2>2, AloneKeeps
  <1>5. CASE DisableNetwork
    <2> DEFINE d == DisableNetworkInternal(client)
    <2>1. Sound(d) /\ Follows(client, d) /\ d.nextId = client.nextId
      BY <1>0, DisableSound
    <2>2. Perform(d) /\ UNCHANGED <<worker, main, account, credentials, by>>
      BY <1>5 DEF DisableNetwork
    <2> HIDE DEF d
    <2> QED BY <2>1, <2>2, AloneKeeps
  <1>6. CASE EnableNetwork
    <2> DEFINE d == EnableNetworkInternal(client)
    <2>1. Sound(d) /\ Follows(client, d) /\ d.nextId = client.nextId
      BY <1>0, EnableSound
    <2>2. Perform(d) /\ UNCHANGED <<worker, main, account, credentials, by>>
      BY <1>6 DEF EnableNetwork
    <2> HIDE DEF d
    <2> QED BY <2>1, <2>2, AloneKeeps
  <1> QED BY <1>1, <1>2, <1>3, <1>4, <1>5, <1>6

\* Every step of the system keeps the invariant.
LEMMA StepKeeps == ASSUME IInv, [Next]_vars PROVE IInv'
  <1>1. CASE UNCHANGED vars
    BY <1>1 DEF vars, IInv, Typed, TokensFit, WritesFit
  <1>2. ASSUME NEW u \in Users, AccountChanges(u) PROVE IInv'
    <2> DEFINE block == [kind |-> "notify", user |-> u]
    <2>1. block \in Block /\ block.kind = "notify"
      BY DEF Block
    <2>2. /\ main' = Append(main, block) /\ account' \in Users
          /\ UNCHANGED <<client, worker, credentials, asking, by>>
      BY <1>2 DEF AccountChanges
    <2> HIDE DEF block
    <2> QED BY <2>1, <2>2, MainKeeps
  <1>3. ASSUME NEW ask \in asking, AuthTakesCall(ask) PROVE IInv'
    BY <1>3, AuthTakesCallKeeps
  <1>4. ASSUME NEW ask \in asking, AuthGivesToken(ask) \/ AuthFails(ask) PROVE IInv'
    <2>1. ask.user \in Users \cup {NoUser} /\ NoUser \in Users \cup {NoUser}
      BY DEF IInv, Typed, Ticket
    <2> QED BY <1>4, <2>1, AuthAnswersKeeps DEF AuthGivesToken, AuthFails
  <1>5. CASE Next
    BY <1>2, <1>3, <1>4, <1>5, LoneStepsKeep, AppWritesKeeps, CredentialsNotifiedKeeps,
       TokenAnsweredKeeps, RunWriteKeeps, RunCredentialChangeKeeps, RunTokenKeeps,
       BackendHandlesKeeps, RunAnswerKeeps, CrashKeeps, Zenon DEF Next, Works
  <1> QED BY <1>1, <1>5

-----------------------------------------------------------------------------
(* A stream that waits for its token will get it. *)

\* The token of a stream that waits for it is on its way.
TokenIsDue ==
    client.stream.state = "Starting" =>
        client.stream.closes \in AllCloses(asking, main, worker)

\* An operation of the worker queue, in which the stream was closed, asked for
\* its token or waits as it did.
LEMMA PerformDue ==
    ASSUME IInv, TokenIsDue, NEW d, Sound(d), Follows(client, d), Perform(d),
           NEW w, UNCHANGED main, worker' = w,
           \/ d.stream.closes > client.stream.closes
           \/ AllCloses(asking, main, worker) \subseteq AllCloses(asking, main, w)
    PROVE  TokenIsDue'
  <1>1. client' = Called(d)
    BY DEF Perform, Called
  <1>2. client'.stream.closes = d.stream.closes /\ client'.stream.state = d.stream.state
    BY <1>1, AskedSound
  <1> SUFFICES ASSUME d.stream.state = "Starting"
               PROVE  d.stream.closes \in AllCloses(asking', main, w)
    BY <1>2 DEF TokenIsDue
  <1>3. CASE d.stream.asked
    <2>1. asking' = asking \cup {Ask(d.stream.closes)}
      BY <1>3 DEF Perform
    <2>2. Ask(d.stream.closes).closes = d.stream.closes
      BY DEF Ask
    <2> QED BY <2>1, <2>2 DEF AllCloses, Asked
  <1>4. CASE ~d.stream.asked
    <2>1. asking' = asking
      BY <1>4 DEF Perform
    <2>2. client.stream.state = "Starting" /\ d.stream.closes = client.stream.closes
      BY <1>4 DEF Follows, Asks
    <2>3. ~(d.stream.closes > client.stream.closes)
      BY <2>2 DEF IInv, Sound, Sane, Client, StreamType
    <2> QED BY <2>1, <2>2, <2>3 DEF TokenIsDue
  <1> QED BY <1>3, <1>4

\* An operation that is not on the worker queue.
LEMMA AloneDue ==
    ASSUME IInv, TokenIsDue, NEW d, Sound(d), Follows(client, d), Perform(d),
           UNCHANGED <<worker, main>>
    PROVE  TokenIsDue'
  <1> DEFINE w == worker
  <1>1. AllCloses(asking, main, worker) \subseteq AllCloses(asking, main, w) /\ worker' = w
    OBVIOUS
  <1> HIDE DEF w
  <1> QED BY <1>1, PerformDue

\* The first of a queue is not a token: the tokens are those of the rest.
LEMMA TailCloses ==
    ASSUME NEW q, NEW t, Shorter(t, q)
    PROVE  Closes(q) \subseteq Closes(t) \cup {q[1].closes}
           /\ (q[1].kind # "token" => Closes(q) \subseteq Closes(t))
  <1> DEFINE n == Len(q)
             k == Len(t)
  <1>1. n \in Nat /\ n >= 1 /\ k = n - 1 /\ \A i \in 1..k : t[i] = q[i + 1]
    BY DEF Shorter
  <1> HIDE DEF n, k
  <1>2. ASSUME NEW i \in Tokens(q), i # 1 PROVE q[i].closes \in Closes(t)
    <2>1. i \in 1..n /\ q[i].kind = "token"
      BY DEF Tokens, n
    <2>2. i - 1 \in 1..k /\ t[i - 1] = q[i]
      BY <1>1, <1>2, <2>1
    <2>3. i - 1 \in Tokens(t)
      BY <2>1, <2>2 DEF Tokens, k
    <2> QED BY <2>2, <2>3 DEF Closes
  <1>3. q[1].kind # "token" => 1 \notin Tokens(q)
    BY DEF Tokens
  <1> QED BY <1>2, <1>3 DEF Closes

\* Another operation than a token is taken from the worker queue.
LEMMA TakesNoToken ==
    ASSUME IInv, worker # <<>>, Head(worker).kind # "token", worker' = Tail(worker)
    PROVE  AllCloses(asking, main, worker) \subseteq AllCloses(asking, main, worker')
  <1>1. Shorter(worker', worker) /\ Head(worker) = worker[1]
    BY TailShorter DEF IInv, Typed
  <1>2. Closes(worker) \subseteq Closes(worker')
    BY <1>1, TailCloses
  <1> QED BY <1>2 DEF AllCloses

\* A write is stored.
LEMMA RunWriteDue == ASSUME IInv, TokenIsDue, RunWrite PROVE TokenIsDue'
  <1> DEFINE w == Head(worker).write
             d == FillWritePipeline(WriteLocally(client, w))
  <1>1. /\ worker # <<>> /\ Head(worker).kind = "write" /\ worker' = Tail(worker)
        /\ Perform(d) /\ UNCHANGED main
    BY DEF RunWrite
  <1>2. w \in client.nextId..Len(by)
    BY <1>1, TakeFits
  <1>3. client.nextId \in Nat /\ Len(by) \in Nat /\ MaxWrites \in Nat /\ Len(by) <= MaxWrites
    BY ParametersAssumption DEF IInv, Sound, Sane, Client, Typed
  <1> HIDE DEF w
  <1>4. w \in Nat /\ client.nextId <= w /\ w <= MaxWrites
    BY <1>2, <1>3
  <1>5. Sound(d) /\ Follows(client, d)
    BY <1>4, WriteSound DEF IInv
  <1> HIDE DEF d
  <1>6. AllCloses(asking, main, worker) \subseteq AllCloses(asking, main, worker')
    BY <1>1, TakesNoToken
  <1> QED BY <1>1, <1>5, <1>6, PerformDue

\* The user changes.
LEMMA RunCredentialChangeDue ==
    ASSUME IInv, TokenIsDue, RunCredentialChange PROVE TokenIsDue'
  <1> DEFINE u == Head(worker).user
             d == HandleCredentialChange(client, u)
  <1>1. /\ worker # <<>> /\ Head(worker).kind = "credential" /\ worker' = Tail(worker)
        /\ Perform(d) /\ UNCHANGED main
    BY DEF RunCredentialChange
  <1>2. Head(worker) \in Task
    BY <1>1, TakeFits
  <1>3. u \in Users
    BY <1>1, <1>2 DEF Task
  <1> HIDE DEF u
  <1>4. Sound(d) /\ Follows(client, d)
    BY <1>3, CredentialSound DEF IInv
  <1> HIDE DEF d
  <1>5. AllCloses(asking, main, worker) \subseteq AllCloses(asking, main, worker')
    BY <1>1, TakesNoToken
  <1> QED BY <1>1, <1>4, <1>5, PerformDue

\* A token is taken: it was for an earlier stream, or the stream stops waiting.
LEMMA RunTokenDue == ASSUME IInv, TokenIsDue, RunToken PROVE TokenIsDue'
  <1> DEFINE token == Head(worker)
             rest == Tail(worker)
  <1>1. /\ worker # <<>> /\ token.kind = "token" /\ worker' = rest /\ UNCHANGED main
    BY DEF RunToken
  <1>2. token \in Task /\ token.closes \in AllCloses(asking, main, worker)
    BY <1>1, TakeFits
  <1>3. CASE Stale(client, token.closes)
    <2>1. UNCHANGED <<client, asking>> /\ token.closes # client.stream.closes
      BY <1>3 DEF RunToken, Stale
    <2>2. Shorter(rest, worker) /\ token = worker[1]
      BY <1>1, TailShorter DEF IInv, Typed
    <2> HIDE DEF rest, token
    <2>3. Closes(worker) \subseteq Closes(rest) \cup {token.closes}
      BY <2>2, TailCloses
    <2> QED BY <1>1, <2>1, <2>3 DEF TokenIsDue, AllCloses
  <1>4. CASE ~Stale(client, token.closes)
    <2> DEFINE d == ResumeStartWithCredentials(client, token)
    <2>1. Perform(d) /\ token.closes = client.stream.closes
      BY <1>4 DEF RunToken, Stale
    <2>2. client.stream.state = "Starting"
      BY <1>2, <2>1 DEF IInv, TokensFit, Waits
    <2>3. Sound(client) /\ ~client.stream.asked /\ IsStarted(client.stream)
      BY <2>2 DEF IInv, IsStarted
    <2>4. CASE token.user = NoUser
      <3>1. HardAssert(client, client.stream.state = "Starting") = client
        <4>1. client \in Client /\ ~client.failed
              /\ (client.stream.state = "Starting") = TRUE
          BY <2>2, <2>3 DEF Sound, Sane
        <4> QED BY <4>1, AssertHolds
      <3>2. d = Close(client, "transient")
        BY <2>4, <3>1 DEF ResumeStartWithCredentials
      <3> HIDE DEF d
      <3>3. Sound(d) /\ Follows(client, d) /\ d.stream.closes > client.stream.closes
        <4>1. "transient" = "ok" => client.pipeline = <<>>
          OBVIOUS
        <4> QED BY <2>3, <3>2, <4>1, CloseSound
      <3> HIDE DEF rest
      <3> QED BY <1>1, <2>1, <3>3, PerformDue
    <2>5. CASE token.user # NoUser
      <3>1. token.user \in Users
        BY <1>1, <1>2, <2>5 DEF Task
      <3>2. d = WriteHandshake(Open(client, token.user))
        BY <2>5 DEF ResumeStartWithCredentials
      <3> HIDE DEF d
      <3>3. Sound(d) /\ IsOpen(d.stream)
        BY <2>2, <2>3, <3>1, <3>2, OpenSound
      <3>4. client' = Called(d)
        BY <2>1 DEF Perform, Called
      <3>5. client'.stream.state = "Open"
        BY <3>3, <3>4, AskedSound DEF IsOpen
      <3> QED BY <3>5 DEF TokenIsDue
    <2> QED BY <2>4, <2>5
  <1> QED BY <1>3, <1>4

\* A stream ends.
LEMMA CloseDue ==
    ASSUME IInv, TokenIsDue, NEW status, IsStarted(client.stream),
           status = "ok" => client.pipeline = <<>>, Perform(Close(client, status)),
           UNCHANGED <<worker, main>>
    PROVE  TokenIsDue'
  <1> DEFINE d == Close(client, status)
  <1>1. Sound(d) /\ Follows(client, d)
    BY CloseSound DEF IInv
  <1> HIDE DEF d
  <1> QED BY <1>1, AloneDue DEF d

\* An answer is read over an open stream, which stays open or is closed.
LEMMA RunAnswerDue == ASSUME IInv, TokenIsDue, RunAnswer PROVE TokenIsDue'
  <1>1. /\ client.stream.down # <<>> /\ UNCHANGED <<worker, main>>
        /\ Sound(client) /\ ~client.stream.asked
    BY DEF RunAnswer, IInv
  <1>2. IsOpen(client.stream) /\ IsStarted(client.stream)
    BY <1>1 DEF Sound, Sane, StreamSane, IsOpen, IsStarted
  <1>3. CASE Head(client.stream.down).ok
    <2> DEFINE d == NotifyStreamResponse(client)
    <2>1. Perform(d)
      BY <1>3 DEF RunAnswer
    <2>2. Sound(d) /\ Follows(client, d)
      BY <1>1, AnswerSound
    <2> HIDE DEF d
    <2> QED BY <1>1, <2>1, <2>2, AloneDue
  <1>4. CASE ~Head(client.stream.down).ok
    <2>1. Perform(Close(client, "permanent"))
      BY <1>4 DEF RunAnswer
    <2>2. "permanent" = "ok" => client.pipeline = <<>>
      OBVIOUS
    <2> QED BY <1>1, <1>2, <2>1, <2>2, CloseDue
  <1> QED BY <1>3, <1>4

\* The timers, failures and network switches.
LEMMA LoneStepsDue ==
    ASSUME IInv, TokenIsDue, \/ RunBackoff \/ RunIdle \/ StreamBreaks
                             \/ ConnectivityChanges \/ DisableNetwork \/ EnableNetwork
    PROVE  TokenIsDue'
  <1>0. Sound(client) /\ Sane(client) /\ ~client.stream.asked
        /\ (client.handshake => IsOpen(client.stream))
    BY DEF IInv, Sound
  <1>1. CASE RunBackoff
    <2> DEFINE d == EndBackoff(client)
    <2>1. Sound(d) /\ Follows(client, d)
      BY <1>0, <1>1, EndBackoffSound DEF RunBackoff
    <2>2. Perform(d) /\ UNCHANGED <<worker, main>>
      BY <1>1 DEF RunBackoff
    <2> HIDE DEF d
    <2> QED BY <2>1, <2>2, AloneDue
  <1>2. CASE RunIdle
    <2>1. IsStarted(client.stream) /\ client.pipeline = <<>>
      BY <1>0, <1>2 DEF Sane, StreamSane, IsOpen, IsStarted, RunIdle
    <2> QED BY <1>2, <2>1, CloseDue DEF RunIdle
  <1>3. CASE StreamBreaks
    <2>1. IsStarted(client.stream)
      BY <1>3 DEF StreamBreaks, IsOpen, IsStarted
    <2>2. "transient" = "ok" => client.pipeline = <<>>
      OBVIOUS
    <2>3. Perform(Close(client, "transient")) /\ UNCHANGED <<worker, main>>
      BY <1>3 DEF StreamBreaks
    <2> QED BY <2>1, <2>2, <2>3, CloseDue
  <1>4. CASE ConnectivityChanges
    <2> DEFINE d == RestartNetwork(client)
    <2>1. Sound(d) /\ Follows(client, d)
      BY <1>0, RestartSound
    <2>2. Perform(d) /\ UNCHANGED <<worker, main>>
      BY <1>4 DEF ConnectivityChanges
    <2> HIDE DEF d
    <2> QED BY <2>1, <2>2, AloneDue
  <1>5. CASE DisableNetwork
    <2> DEFINE d == DisableNetworkInternal(client)
    <2>1. Sound(d) /\ Follows(client, d)
      BY <1>0, DisableSound
    <2>2. Perform(d) /\ UNCHANGED <<worker, main>>
      BY <1>5 DEF DisableNetwork
    <2> HIDE DEF d
    <2> QED BY <2>1, <2>2, AloneDue
  <1>6. CASE EnableNetwork
    <2> DEFINE d == EnableNetworkInternal(client)
    <2>1. Sound(d) /\ Follows(client, d)
      BY <1>0, EnableSound
    <2>2. Perform(d) /\ UNCHANGED <<worker, main>>
      BY <1>6 DEF EnableNetwork
    <2> HIDE DEF d
    <2> QED BY <2>1, <2>2, AloneDue
  <1> QED BY <1>1, <1>2, <1>3, <1>4, <1>5, <1>6

\* A queue that gets one more keeps its tokens.
LEMMA AppendKeepsCloses ==
    ASSUME NEW S, NEW q \in Seq(S), NEW x \in S, NEW t, t = Append(q, x)
    PROVE  /\ Closes(q) \subseteq Closes(t)
           /\ x.kind = "token" => x.closes \in Closes(t)
  <1> DEFINE n == Len(q)
  <1>1. /\ n \in Nat /\ Len(t) = n + 1 /\ t[n + 1] = x
        /\ \A i \in 1..n : t[i] = q[i]
    BY AppendFacts
  <1>2. ASSUME NEW i \in Tokens(q) PROVE q[i].closes \in Closes(t)
    <2>1. i \in 1..n /\ q[i].kind = "token"
      BY DEF Tokens
    <2> HIDE DEF n
    <2>2. i \in 1..Len(t) /\ t[i] = q[i]
      BY <1>1, <2>1
    <2> QED BY <2>1, <2>2 DEF Closes, Tokens
  <1>3. n + 1 \in 1..Len(t)
    <2> HIDE DEF n
    <2> QED BY <1>1
  <1>4. x.kind = "token" => x.closes \in Closes(t)
    BY <1>1, <1>3 DEF Closes, Tokens
  <1> QED BY <1>2, <1>4 DEF Closes

\* The backend handles a request over an open stream.
LEMMA BackendHandlesDue == ASSUME IInv, TokenIsDue, BackendHandles PROVE TokenIsDue'
  <1> DEFINE up == Tail(client.stream.up)
             down == Append(client.stream.down, [write |-> Head(client.stream.up),
                                                 ok |-> Head(client.stream.up) \notin Refused])
  <1>1. client' = [client EXCEPT !.stream.up = up, !.stream.down = down]
    BY DEF BackendHandles
  <1>2. client \in Client /\ client.stream \in StreamType /\ IsOpen(client.stream)
    BY DEF BackendHandles, IInv, Sound, Sane, StreamSane, Client
  <1> HIDE DEF up, down
  <1>3. client'.stream.state = client.stream.state
    BY <1>1, <1>2 DEF Client, StreamType
  <1> QED BY <1>2, <1>3 DEF TokenIsDue, IsOpen

\* The app, FIRAuth and the blocks of the main queue hand tokens on.
LEMMA OthersDue ==
    ASSUME IInv, TokenIsDue, \/ AppWrites \/ CredentialsNotified
                             \/ \E u \in Users : AccountChanges(u)
                             \/ \E ask \in asking : AuthTakesCall(ask)
    PROVE  TokenIsDue'
  <1>0. main \in Seq(Block) /\ worker \in Seq(Task) /\ credentials.user \in Users
        /\ asking \in SUBSET Ticket
    BY DEF IInv, Typed
  <1>1. CASE AppWrites
    <2> DEFINE task == [kind |-> "write", write |-> Len(by) + 1]
    <2>1. worker' = Append(worker, task) /\ UNCHANGED <<client, main, asking>>
      BY <1>1 DEF AppWrites
    <2>2. task \in Task
      BY DEF Task, IInv, Typed
    <2> HIDE DEF task
    <2>3. Closes(worker) \subseteq Closes(worker')
      BY <1>0, <2>1, <2>2, AppendKeepsCloses
    <2> QED BY <2>1, <2>3 DEF TokenIsDue, AllCloses
  <1>2. CASE CredentialsNotified
    <2> DEFINE task == [kind |-> "credential", user |-> Head(main).user]
    <2>1. /\ main # <<>> /\ Head(main).kind = "notify" /\ main' = Tail(main)
          /\ worker' = Append(worker, task) /\ UNCHANGED <<client, asking>>
      BY <1>2 DEF CredentialsNotified
    <2>2. Shorter(main', main) /\ Head(main) = main[1] /\ Head(main) \in Block
      BY <1>0, <2>1, TailShorter
    <2>3. task \in Task
      BY <2>1, <2>2 DEF Task, Block
    <2> HIDE DEF task
    <2>4. Closes(worker) \subseteq Closes(worker')
      BY <1>0, <2>1, <2>3, AppendKeepsCloses
    <2>5. Closes(main) \subseteq Closes(main')
      BY <2>1, <2>2, TailCloses
    <2> QED BY <2>1, <2>4, <2>5 DEF TokenIsDue, AllCloses
  <1>3. ASSUME NEW u \in Users, AccountChanges(u) PROVE TokenIsDue'
    <2> DEFINE block == [kind |-> "notify", user |-> u]
    <2>1. main' = Append(main, block) /\ UNCHANGED <<client, worker, asking>>
      BY <1>3 DEF AccountChanges
    <2>2. block \in Block
      BY DEF Block
    <2> HIDE DEF block
    <2>3. Closes(main) \subseteq Closes(main')
      BY <1>0, <2>1, <2>2, AppendKeepsCloses
    <2> QED BY <2>1, <2>3 DEF TokenIsDue, AllCloses
  <1>4. ASSUME NEW ask \in asking, AuthTakesCall(ask) PROVE TokenIsDue'
    <2> DEFINE taken == [ask EXCEPT !.user = account]
    <2>1. /\ asking' = (asking \ {ask}) \cup {taken} /\ UNCHANGED <<client, worker, main>>
      BY <1>4 DEF AuthTakesCall
    <2>2. taken.closes = ask.closes
      BY <1>0 DEF Ticket
    <2> HIDE DEF taken
    <2>3. Asked(asking) \subseteq Asked(asking')
      BY <2>1, <2>2 DEF Asked
    <2> QED BY <2>1, <2>3 DEF TokenIsDue, AllCloses
  <1> QED BY <1>1, <1>2, <1>3, <1>4

\* FIRAuth answers: the call becomes a block.
LEMMA AuthAnswersDue ==
    ASSUME IInv, TokenIsDue, NEW ask \in asking, NEW token \in Users \cup {NoUser},
           AuthAnswers(ask, token)
    PROVE  TokenIsDue'
  <1> DEFINE block == [kind |-> "token", closes |-> ask.closes,
                       counter |-> ask.counter, user |-> token]
  <1>1. /\ main' = Append(main, block) /\ asking' = asking \ {ask}
        /\ UNCHANGED <<client, worker>>
    BY DEF AuthAnswers
  <1>2. ask \in Ticket /\ main \in Seq(Block)
    BY DEF IInv, Typed
  <1>3. block \in Block /\ block.kind = "token" /\ block.closes = ask.closes
    BY <1>2 DEF Ticket, Block
  <1> HIDE DEF block
  <1>4. Closes(main) \subseteq Closes(main') /\ ask.closes \in Closes(main')
    BY <1>1, <1>2, <1>3, AppendKeepsCloses
  <1>5. Asked(asking) \subseteq Asked(asking') \cup {ask.closes}
    BY <1>1 DEF Asked
  <1> QED BY <1>1, <1>4, <1>5 DEF TokenIsDue, AllCloses

\* A token from before a notification is asked for again, another is handed on.
LEMMA TokenAnsweredDue == ASSUME IInv, TokenIsDue, TokenAnswered PROVE TokenIsDue'
  <1> DEFINE answer == Head(main)
             closes == answer.closes
  <1>1. /\ main # <<>> /\ answer.kind = "token" /\ main' = Tail(main) /\ UNCHANGED client
    BY DEF TokenAnswered
  <1>2. main \in Seq(Block) /\ worker \in Seq(Task)
    BY DEF IInv, Typed
  <1>3. Shorter(main', main) /\ answer = main[1] /\ answer \in Block
    BY <1>1, <1>2, TailShorter
  <1>4. closes \in Nat /\ answer.user \in Users \cup {NoUser}
    BY <1>1, <1>3 DEF Block
  <1>5. Closes(main) \subseteq Closes(main') \cup {closes}
    BY <1>3, TailCloses
  <1>6. CASE answer.counter # credentials.counter
    <2>1. asking' = asking \cup {Ask(closes)} /\ UNCHANGED worker
      BY <1>6 DEF TokenAnswered
    <2>2. Ask(closes).closes = closes
      BY DEF Ask
    <2> HIDE DEF closes
    <2>3. Asked(asking') = Asked(asking) \cup {closes}
      BY <2>1, <2>2 DEF Asked
    <2> QED BY <1>1, <1>5, <2>1, <2>3 DEF TokenIsDue, AllCloses
  <1>7. CASE answer.counter = credentials.counter
    <2> DEFINE task == [kind |-> "token", closes |-> closes, user |-> answer.user]
    <2>1. worker' = Append(worker, task) /\ UNCHANGED asking
      BY <1>7 DEF TokenAnswered
    <2> HIDE DEF closes, answer
    <2>2. task \in Task /\ task.kind = "token" /\ task.closes = closes
      BY <1>4 DEF Task
    <2> HIDE DEF task
    <2>3. Closes(worker) \subseteq Closes(worker') /\ closes \in Closes(worker')
      BY <1>2, <2>1, <2>2, AppendKeepsCloses
    <2> QED BY <1>1, <1>5, <2>1, <2>3 DEF TokenIsDue, AllCloses
  <1> QED BY <1>6, <1>7

\* The first stream of a run of the app asks for its token.
LEMMA CrashDue == ASSUME IInv, Crash PROVE TokenIsDue'
  <1> DEFINE d == Boot(client.queue, account, client.told)
             ask == [closes |-> 0, counter |-> 0, user |-> NoUser]
  <1>1. client' = Called(d) /\ asking' = IF d.stream.asked THEN {ask} ELSE {}
    BY DEF Crash, Called
  <1>2. Sound(d) /\ d.stream.closes = 0 /\ Asks(d.stream)
    <2>1. /\ client.queue \in [Users -> Seq(Batch)] /\ client.told \in [Writes -> Verdict]
          /\ RowsSane(client.queue, client.nextId) /\ account \in Users
      BY DEF IInv, Typed, Sound, Sane, Client
    <2> QED BY <2>1, BootSound
  <1> HIDE DEF d
  <1>3. client'.stream.closes = 0 /\ client'.stream.state = d.stream.state
    BY <1>1, <1>2, AskedSound
  <1>4. ASSUME d.stream.state = "Starting" PROVE 0 \in Asked(asking')
    <2>1. asking' = {ask} /\ ask.closes = 0
      BY <1>1, <1>2, <1>4 DEF Asks
    <2> QED BY <2>1 DEF Asked
  <1> QED BY <1>3, <1>4 DEF TokenIsDue, AllCloses

\* The first run has nothing to send.
LEMMA InitDue == ASSUME Init PROVE TokenIsDue
  <1> DEFINE queue == [u \in Users |-> <<>>]
  <1>1. Sound(client) /\ client.queue = queue
    <2> DEFINE told == [w \in Writes |-> "no"]
               d == Boot(queue, account, told)
    <2>1. queue \in [Users -> Seq(Batch)] /\ told \in [Writes -> Verdict] /\ account \in Users
      BY Values DEF Verdict, Init
    <2>2. RowsSane(queue, 1)
      <3>1. 1 \in 1..(MaxWrites + 1)
        BY ParametersAssumption
      <3>2. \A u \in Users : Ordered(queue[u], 1)
        BY DEF Ordered
      <3> QED BY <3>1, <3>2 DEF RowsSane
    <2>3. client = d
      BY DEF Init
    <2> HIDE DEF d, told, queue
    <2> QED BY <2>1, <2>2, <2>3, BootSound DEF d
  <1>2. client.user \in Users /\ client.pipeline \in Seq(Batch)
    BY <1>1 DEF Sound, Sane, Client
  <1>3. Heads(client.pipeline, <<>>)
    BY <1>1, <1>2 DEF Sound, Prefixed
  <1>4. client.pipeline = <<>>
    <2>1. Len(client.pipeline) <= 0 /\ Len(client.pipeline) \in Nat
      BY <1>2, <1>3 DEF Heads
    <2>2. Len(client.pipeline) = 0
      BY <2>1
    <2> QED BY <1>2, <2>2, NoElements
  <1>5. client.stream.state # "Starting"
    BY <1>1, <1>4 DEF Sound, Sane, IsStarted, IsOpen
  <1> QED BY <1>5 DEF TokenIsDue

\* The token of a stream that waits for it is on its way, after every step.
LEMMA StepDue == ASSUME IInv, TokenIsDue, [Next]_vars PROVE TokenIsDue'
  <1>1. CASE UNCHANGED vars
    BY <1>1 DEF vars, TokenIsDue
  <1>2. ASSUME NEW ask \in asking, AuthGivesToken(ask) \/ AuthFails(ask) PROVE TokenIsDue'
    <2>1. ask.user \in Users \cup {NoUser} /\ NoUser \in Users \cup {NoUser}
      BY DEF IInv, Typed, Ticket
    <2> QED BY <1>2, <2>1, AuthAnswersDue DEF AuthGivesToken, AuthFails
  <1>3. CASE Next
    BY <1>2, <1>3, LoneStepsDue, OthersDue, TokenAnsweredDue, RunWriteDue,
       RunCredentialChangeDue, RunTokenDue, BackendHandlesDue, RunAnswerDue, CrashDue,
       Zenon DEF Next, Works
  <1> QED BY <1>1, <1>3

-----------------------------------------------------------------------------
(* From the invariant to the properties. *)

\* Sequences are equal when their elements are.
LEMMA SameElements ==
    ASSUME NEW S, NEW s \in Seq(S), NEW t \in Seq(S), Len(s) = Len(t),
           \A i \in 1..Len(s) : s[i] = t[i]
    PROVE  s = t
  OBVIOUS

\* Answers and requests that match the pipeline are the writes of the pipeline.
LEMMA OnItsWay ==
    ASSUME NEW down \in Seq(Answer), NEW up \in Seq(Nat), NEW pipeline \in Seq(Batch),
           Matches(down, up, pipeline)
    PROVE  [i \in 1..Len(down) |-> down[i].write] \o up = WritesOf(pipeline)
  <1> DEFINE answered == [i \in 1..Len(down) |-> down[i].write]
             all == answered \o up
             writes == WritesOf(pipeline)
             m == Len(down)
             n == Len(up)
  <1>1. m \in Nat /\ n \in Nat /\ \A i \in 1..m : down[i].write \in Nat
    <2>1. \A i \in 1..m : down[i] \in Answer
      OBVIOUS
    <2> QED BY <2>1 DEF Answer
  <1>2. answered \in Seq(Nat) /\ Len(answered) = m
    BY <1>1
  <1>3. \A i \in 1..m : answered[i] = down[i].write
    OBVIOUS
  <1> HIDE DEF answered
  <1>4. /\ all \in Seq(Nat) /\ Len(all) = m + n
        /\ \A i \in 1..m : all[i] = answered[i]
        /\ \A i \in 1..n : all[m + i] = up[i]
    <2>1. answered \in Seq(Nat)
      BY <1>2
    <2>2. /\ all \in Seq(Nat) /\ Len(all) = Len(answered) + Len(up)
          /\ \A i \in 1..Len(answered) : all[i] = answered[i]
          /\ \A i \in 1..Len(up) : all[Len(answered) + i] = up[i]
      BY <2>1, ConcatFacts
    <2> HIDE DEF m, all
    <2> QED BY <1>2, <2>2 DEF n
  <1>5. /\ writes \in Seq(Nat) /\ Len(writes) = Len(pipeline)
        /\ \A i \in 1..Len(pipeline) : writes[i] = pipeline[i].write
    BY WritesOfFacts
  <1>6. /\ m + n = Len(pipeline)
        /\ \A i \in 1..m : down[i].write = pipeline[i].write
        /\ \A i \in 1..n : up[i] = pipeline[m + i].write
    BY DEF Matches
  <1> HIDE DEF all, writes, m, n
  <1>7. ASSUME NEW i \in 1..(m + n) PROVE all[i] = writes[i]
    <2>0. writes[i] = pipeline[i].write
      BY <1>5, <1>6
    <2>1. CASE i \in 1..m
      BY <1>3, <1>4, <1>6, <2>0, <2>1
    <2>2. CASE i \notin 1..m
      <3>1. i - m \in 1..n /\ m + (i - m) = i
        BY <1>1, <2>2
      <3>2. all[m + (i - m)] = up[i - m] /\ up[i - m] = pipeline[m + (i - m)].write
        BY <1>4, <1>6, <3>1
      <3> QED BY <2>0, <3>1, <3>2
    <2> QED BY <2>1, <2>2
  <1>8. Len(all) = Len(writes) /\ \A i \in 1..Len(all) : all[i] = writes[i]
    BY <1>4, <1>5, <1>6, <1>7
  <1>9. all = writes
    BY <1>4, <1>5, <1>8, SameElements
  <1> QED BY <1>9 DEF all, writes, answered

-----------------------------------------------------------------------------
(* The theorems. *)

\* The inductive invariant holds of every behaviour.
THEOREM Invariant == Spec => []IInv
  <1>1. Init => IInv
    BY InitHolds
  <1>2. IInv /\ [Next]_vars => IInv'
    BY StepKeeps
  <1> QED BY <1>1, <1>2, PTL DEF Spec

\* No HARD_ASSERT of the write side ever fails, for any accounts, any size of
\* the pipeline and any number of writes, failures and restarts.
THEOREM WritesNeverAbort == Spec => []NoAssertFails
  <1>1. IInv => NoAssertFails
    BY DEF IInv, Sound, Sane, NoAssertFails
  <1> QED BY <1>1, Invariant, PTL

\* A stream with a token to come has a stage of the token in one of the queues.
LEMMA DueIsComing ==
    ASSUME client.stream.closes \in AllCloses(asking, main, worker) PROVE TokenComing
  <1> DEFINE n == client.stream.closes
  <1>1. n \in Asked(asking) => \E ask \in asking : ask.closes = n
    BY DEF Asked
  <1>2. ASSUME NEW q, n \in Closes(q) PROVE HoldsToken(q, n)
    BY <1>2 DEF Closes, Tokens, HoldsToken
  <1> QED BY <1>1, <1>2 DEF AllCloses, TokenComing

\* While the network is on and a write of the user is queued, a stream is open
\* with something on its way, or will be by a token or a timer that is due: the
\* client never waits for nobody, for any accounts, pipeline, writes and faults.
THEOREM WritesAreNeverStuck == Spec => []QueueIsServed
  <1>1. ASSUME IInv, TokenIsDue PROVE QueueIsServed
    <2> SUFFICES ASSUME client.network, client.queue[client.user] # <<>>
                 PROVE  \/ client.stream.state = "Starting" /\ TokenComing
                        \/ client.stream.state = "Backoff" /\ client.stream.backoff
                        \/ /\ IsOpen(client.stream)
                           /\ client.stream.up # <<>> \/ client.stream.down # <<>>
      BY DEF QueueIsServed
    <2> DEFINE rows == client.queue[client.user]
               pipeline == client.pipeline
               s == client.stream
    <2>1. /\ rows \in Seq(Batch) /\ pipeline \in Seq(Batch)
          /\ s.up \in Seq(Nat) /\ s.down \in Seq(Answer)
      BY <1>1 DEF IInv, Sound, Sane, Client, StreamType
    <2>2. pipeline # <<>>
      <3>1. Len(pipeline) = IF Len(rows) < MaxPendingWrites THEN Len(rows) ELSE MaxPendingWrites
        BY <1>1 DEF IInv, Sound, Served, Filled
      <3>2. rows # <<>>
        OBVIOUS
      <3> HIDE DEF rows, pipeline
      <3>3. Len(rows) # 0 /\ Len(rows) \in Nat
        BY <2>1, <3>2, NoElements
      <3>4. Len(pipeline) # 0
        BY <3>1, <3>3, ParametersAssumption
      <3> QED BY <3>4
    <2>3. IsStarted(s)
      BY <1>1, <2>2 DEF IInv, Sound, Served
    <2>4. CASE s.state = "Starting"
      BY <1>1, <2>4, DueIsComing DEF TokenIsDue
    <2>5. CASE s.state = "Backoff"
      BY <1>1, <2>5 DEF IInv, Sound, Sane, StreamSane
    <2>6. CASE IsOpen(s)
      <3>1. Len(s.down) + Len(s.up) = Len(pipeline) \/ Len(s.down) + Len(s.up) = 1
        BY <1>1, <2>6 DEF IInv, Sound, Sane, OnWire, Matches
      <3>2. Len(pipeline) # 0
        BY <2>1, <2>2, NoElements
      <3>3. Len(s.down) # 0 \/ Len(s.up) # 0
        <4> DEFINE m == Len(s.down)
                   n == Len(s.up)
                   k == Len(pipeline)
        <4>1. m + n = k \/ m + n = 1
          BY <3>1
        <4>2. k # 0
          BY <3>2
        <4> HIDE DEF m, n, k
        <4>3. m # 0 \/ n # 0
          BY <4>1, <4>2
        <4> QED BY <4>3 DEF m, n
      <3> QED BY <2>6, <3>3
    <2> QED BY <2>3, <2>4, <2>5, <2>6 DEF IsStarted, IsOpen
  <1>2. IInv /\ TokenIsDue /\ [Next]_vars => TokenIsDue'
    BY StepDue
  <1> QED BY <1>1, <1>2, InitDue, Invariant, PTL DEF Spec

\* While the network is on, no write waits that the pipeline has room for.
THEOREM PipelineIsAlwaysFull == Spec => []PipelineIsFull
  <1>1. IInv => PipelineIsFull
    BY DEF IInv, Sound, Served, Filled, PipelineIsFull
  <1> QED BY <1>1, Invariant, PTL

\* The pipeline is the head of the user's queue on disk, as much of it as fits
\* while the network is on, for any accounts and any size of the pipeline.
THEOREM PipelineIsHead == Spec => []PipelineHeadsQueue
  <1>1. ASSUME IInv PROVE PipelineHeadsQueue
    <2> DEFINE rows == client.queue[client.user]
               n == Len(client.pipeline)
    <2>1. rows \in Seq(Batch) /\ client.pipeline \in Seq(Batch) /\ n \in Nat
      BY <1>1 DEF IInv, Sound, Sane, Client
    <2>2. n <= Len(rows) /\ \A i \in 1..n : client.pipeline[i] = rows[i]
      BY <1>1 DEF IInv, Sound, Prefixed, Heads
    <2>3. client.pipeline = SubSeq(rows, 1, n)
      <3> DEFINE taken == SubSeq(rows, 1, n)
      <3>1. /\ taken \in Seq(Batch) /\ Len(taken) = n
            /\ \A i \in 1..n : taken[i] = rows[i]
        <4> HIDE DEF rows, n
        <4>1. 1 \in 1..(Len(rows) + 1) /\ n \in 0..Len(rows) /\ 1 <= n + 1
              /\ (n - 1) + 1 = n
          BY <2>1, <2>2
        <4>2. \A i \in 1..n : (1 + i) - 1 = i
          BY <2>1
        <4> QED BY <2>1, <4>1, <4>2, SubSeqFacts
      <3> HIDE DEF taken, rows
      <3>2. \A i \in 1..n : taken[i] = client.pipeline[i]
        BY <2>2, <3>1
      <3> QED BY <2>1, <3>1, <3>2, SameElements
    <2>4. PipelineIsFull
      BY <1>1 DEF IInv, Sound, Served, Filled, PipelineIsFull
    <2> QED BY <2>2, <2>3, <2>4 DEF PipelineHeadsQueue
  <1> QED BY <1>1, Invariant, PTL

\* What is on its way over a stream that has shaken hands is the pipeline, in order.
THEOREM AnswersAreMatched == Spec => []AnswersMatchPipeline
  <1>1. ASSUME IInv PROVE AnswersMatchPipeline
    <2> DEFINE s == client.stream
               down == [i \in 1..Len(s.down) |-> s.down[i].write]
               all == down \o s.up
               writes == WritesOf(client.pipeline)
    <2> SUFFICES ASSUME IsOpen(s), client.handshake PROVE all = writes
      BY DEF AnswersMatchPipeline
    <2>1. /\ s.down \in Seq(Answer) /\ s.up \in Seq(Nat) /\ client.pipeline \in Seq(Batch)
      BY <1>1 DEF IInv, Sound, Sane, Client, StreamType
    <2>2. Matches(s.down, s.up, client.pipeline)
      BY <1>1 DEF IInv, Sound, Sane, OnWire
    <2> QED BY <2>1, <2>2, OnItsWay
  <1> QED BY <1>1, Invariant, PTL

\* A healthy stream is timed for closing exactly while it has nothing to send.
THEOREM IdleTimerIsRight == Spec => []IdleTimerFits
  <1>1. IInv => IdleTimerFits
    BY DEF IInv, Sound, IdleFits, IdleTimerFits
  <1> QED BY <1>1, Invariant, PTL

\* The values the variables take.
THEOREM TypesAreRight == Spec => []TypeOK
  <1>1. IInv => TypeOK
    BY DEF IInv, Typed, Sound, Sane, Client, StreamType, StreamState, Verdict, TypeOK
  <1> QED BY <1>1, Invariant, PTL

-----------------------------------------------------------------------------
(* What is sent, what the callbacks are told, and WriteContract. *)

\* The parts of a client and of its stream.
Shaped(c) ==
    /\ DOMAIN c = {"user", "network", "queue", "nextId", "pipeline", "stream",
                   "handshake", "callbacks", "told", "fresh", "failed"}
    /\ DOMAIN c.stream = {"state", "closes", "asked", "token", "idle", "backoff",
                          "up", "down"}
    /\ c.user \in Users /\ c.queue \in [Users -> Seq(Batch)]

RowsOf(rows) == {rows[i] : i \in 1..Len(rows)}

\* d brings no write into a queue, and its stream is open only when c's is,
\* with the same token and, before the handshake, the same requests.
Loyal(c, d) ==
    /\ d.user = c.user
    /\ \A u \in Users : RowsOf(d.queue[u]) \subseteq RowsOf(c.queue[u])
    /\ IsOpen(d.stream) =>
           /\ IsOpen(c.stream) /\ d.stream.token = c.stream.token
           /\ ~d.handshake => ~c.handshake /\ d.stream.up = c.stream.up

\* The client stays in shape and loyal.
Obeys(c, d) == Shaped(d) /\ Loyal(c, d)

-----------------------------------------------------------------------------
(* The operations of the client. *)

\* A client has its parts.
LEMMA ClientShaped == ASSUME NEW c \in Client PROVE Shaped(c)
  BY DEF Client, StreamType, Shaped

\* Nothing done is loyal.
LEMMA ObeysItself == ASSUME NEW c, Shaped(c) PROVE Obeys(c, c)
  BY DEF Obeys, Loyal

\* What is loyal to what is loyal is loyal.
LEMMA ObeysBoth ==
    ASSUME NEW c, NEW d, NEW e, Obeys(c, d), Obeys(d, e) PROVE Obeys(c, e)
  BY DEF Obeys, Loyal

\* A check changes nothing but the mark of a failure.
LEMMA AssertObeys ==
    ASSUME NEW c, Shaped(c), NEW holds, NEW d, d = HardAssert(c, holds)
    PROVE  Obeys(c, d) /\ d.stream = c.stream /\ d.handshake = c.handshake
  BY DEF HardAssert, Shaped, Obeys, Loyal

\* Starting a stream does not open it.
LEMMA StartObeys ==
    ASSUME NEW c, Shaped(c), NEW d, d = StartStream(c) PROVE Obeys(c, d)
  <1>1. CASE c.stream.state = "Error"
    BY <1>1 DEF StartStream, Shaped, Obeys, Loyal, IsOpen
  <1>2. CASE c.stream.state = "Initial"
    BY <1>2 DEF StartStream, Shaped, Obeys, Loyal, IsOpen
  <1>3. CASE c.stream.state # "Error" /\ c.stream.state # "Initial"
    <2>1. d = HardAssert(c, FALSE)
      BY <1>3 DEF StartStream
    <2> QED BY <2>1, AssertObeys
  <1> QED BY <1>1, <1>2, <1>3

\* A stream whose backoff is inhibited is not open.
LEMMA InhibitObeys ==
    ASSUME NEW c, Shaped(c), NEW d, d = InhibitBackoff(c)
    PROVE  Obeys(c, d) /\ ~IsOpen(d.stream)
  <1> DEFINE e == HardAssert(c, ~IsStarted(c.stream))
  <1>1. Obeys(c, e)
    BY AssertObeys
  <1>2. d = [e EXCEPT !.stream.state = "Initial"]
    BY DEF InhibitBackoff
  <1> HIDE DEF e
  <1>3. Shaped(d) /\ d.user = e.user /\ d.queue = e.queue /\ d.stream.state = "Initial"
    BY <1>1, <1>2 DEF Shaped, Obeys
  <1> QED BY <1>1, <1>3 DEF Obeys, Loyal, IsOpen

\* Setting the idle timer leaves the rest of the stream alone.
LEMMA MarkIdleObeys ==
    ASSUME NEW c, Shaped(c), NEW d, d = MarkIdle(c) PROVE Obeys(c, d)
  BY DEF MarkIdle, Shaped, Obeys, Loyal, IsOpen

\* After the handshake a stream may send.
LEMMA SendObeys ==
    ASSUME NEW c, Shaped(c), c.handshake, NEW requests, NEW d, d = Send(c, requests)
    PROVE  Obeys(c, d) /\ d.handshake
  <1> DEFINE e == HardAssert(c, IsOpen(c.stream))
  <1>1. Obeys(c, e) /\ e.stream = c.stream /\ e.handshake
    BY AssertObeys
  <1>2. d = [e EXCEPT !.stream.idle = FALSE, !.stream.up = @ \o requests]
    BY DEF Send
  <1> HIDE DEF e
  <1>3. /\ Shaped(d) /\ d.user = e.user /\ d.queue = e.queue /\ d.handshake = e.handshake
        /\ d.stream.state = e.stream.state /\ d.stream.token = e.stream.token
    BY <1>1, <1>2 DEF Shaped, Obeys
  <1> QED BY <1>1, <1>3 DEF Obeys, Loyal, IsOpen

\* A stream that was closed is not open.
LEMMA CloseStreamObeys ==
    ASSUME NEW c, Shaped(c), NEW status, NEW d, d = CloseStream(c, status)
    PROVE  Obeys(c, d) /\ ~IsOpen(d.stream)
  <1> DEFINE e == HardAssert(c, IsStarted(c.stream))
             state == IF status = "ok" THEN "Initial" ELSE "Error"
  <1>1. Obeys(c, e) /\ e.stream = c.stream
    BY AssertObeys
  <1>2. d = [e EXCEPT !.stream.idle = FALSE, !.stream.backoff = FALSE,
                      !.stream.closes = @ + 1, !.stream.token = NoUser,
                      !.stream.up = <<>>, !.stream.down = <<>>,
                      !.stream.state = state]
    BY DEF CloseStream
  <1>3. state # "Open"
    OBVIOUS
  <1> HIDE DEF e, state
  <1> DEFINE stream == [e.stream EXCEPT !.idle = FALSE, !.backoff = FALSE,
                            !.closes = @ + 1, !.token = NoUser,
                            !.up = <<>>, !.down = <<>>, !.state = state]
  <1>4. d = [e EXCEPT !.stream = stream]
    BY <1>1, <1>2 DEF Shaped, Obeys
  <1>5. DOMAIN stream = DOMAIN e.stream /\ stream.state = state
    BY <1>1 DEF Shaped, Obeys
  <1> HIDE DEF stream
  <1>6. /\ Shaped(d) /\ d.user = e.user /\ d.queue = e.queue /\ d.stream.state = state
    BY <1>1, <1>4, <1>5 DEF Shaped, Obeys
  <1> QED BY <1>1, <1>3, <1>6 DEF Obeys, Loyal, IsOpen

\* Writes are sent after the handshake.
LEMMA SentObeys ==
    ASSUME NEW c, Shaped(c), c.handshake, NEW batches, NEW d, d = WriteMutations(c, batches)
    PROVE  Obeys(c, d) /\ d.handshake
  <1>1. CASE batches = <<>>
    BY <1>1, ObeysItself DEF WriteMutations
  <1>2. CASE batches # <<>>
    <2> DEFINE e == HardAssert(c, c.handshake)
               requests == [i \in 1..Len(batches) |-> batches[i].write]
    <2>1. d = Send(e, requests)
      BY <1>2 DEF WriteMutations
    <2>2. Obeys(c, e) /\ e.handshake
      BY AssertObeys
    <2> HIDE DEF e, requests
    <2>3. Obeys(e, d) /\ d.handshake
      BY <2>1, <2>2, SendObeys DEF Obeys
    <2> QED BY <2>2, <2>3, ObeysBoth
  <1> QED BY <1>1, <1>2

\* Starting the stream when it is needed.
LEMMA IfNeededObeys ==
    ASSUME NEW c, Shaped(c), NEW d, d = StartIfNeeded(c) PROVE Obeys(c, d)
  BY StartObeys, ObeysItself DEF StartIfNeeded

\* Filling the pipeline: what is taken is sent only after the handshake.
LEMMA FillObeys ==
    ASSUME NEW c, Shaped(c), NEW d, d = FillWritePipeline(c) PROVE Obeys(c, d)
  <1> DEFINE left == Left(c)
             taken == Taken(c)
             full == [c EXCEPT !.pipeline = @ \o taken]
             sent == IF IsOpen(c.stream) /\ c.handshake
                     THEN WriteMutations(full, taken) ELSE full
             idle == IF Len(left) < Room(c) /\ sent.pipeline = <<>>
                     THEN MarkIdle(sent) ELSE sent
  <1>1. d = StartIfNeeded(idle)
    BY Zenon DEF FillWritePipeline, Left, Taken, LastId
  <1> HIDE DEF left, taken
  <1>2. Obeys(c, full) /\ full.handshake = c.handshake
    BY DEF Shaped, Obeys, Loyal
  <1> HIDE DEF full
  <1>3. c.handshake => Obeys(full, WriteMutations(full, taken))
    BY <1>2, SentObeys DEF Obeys
  <1>4. Obeys(c, sent)
    BY <1>2, <1>3, ObeysBoth
  <1> HIDE DEF sent
  <1>5. Obeys(sent, MarkIdle(sent))
    BY <1>4, MarkIdleObeys DEF Obeys
  <1>6. Obeys(c, idle)
    BY <1>4, <1>5, ObeysBoth
  <1> HIDE DEF idle
  <1>7. Obeys(idle, d)
    BY <1>1, <1>6, IfNeededObeys DEF Obeys
  <1> QED BY <1>6, <1>7, ObeysBoth

\* A write that is settled leaves its queue.
LEMMA RemoveObeys ==
    ASSUME NEW c, Shaped(c), NEW id, NEW d, d = RemoveMutationBatch(c, id)
    PROVE  Obeys(c, d) /\ d.stream = c.stream /\ d.handshake = c.handshake
  <1> DEFINE rows == c.queue[c.user]
             at == {i \in 1..Len(rows) : rows[i].id = id}
             first == CHOOSE i \in at : TRUE
             new == SubSeq(rows, 1, first - 1) \o SubSeq(rows, first + 1, Len(rows))
  <1>1. CASE at = {}
    <2>1. d = HardAssert(c, FALSE)
      BY <1>1 DEF RemoveMutationBatch
    <2> QED BY <2>1, AssertObeys
  <1>2. CASE at # {}
    <2>1. d = [c EXCEPT !.queue[c.user] = new]
      BY <1>2 DEF RemoveMutationBatch
    <2>2. first \in at
      BY <1>2
    <2>3. rows \in Seq(Batch) /\ first \in 1..Len(rows) /\ Len(rows) \in Nat
      BY <2>2 DEF Shaped
    <2> HIDE DEF first, rows
    <2> DEFINE before == SubSeq(rows, 1, first - 1)
               after == SubSeq(rows, first + 1, Len(rows))
    <2>4. /\ before \in Seq(Batch) /\ Len(before) = first - 1
          /\ \A i \in 1..(first - 1) : before[i] = rows[1 + i - 1]
      <3>1. 1 \in 1..(Len(rows) + 1) /\ first - 1 \in 0..Len(rows) /\ 1 <= (first - 1) + 1
        BY <2>3
      <3>2. (first - 1) - 1 + 1 = first - 1
        BY <2>3
      <3> QED BY <2>3, <3>1, <3>2, SubSeqFacts
    <2>5. /\ after \in Seq(Batch) /\ Len(after) = Len(rows) - first
          /\ \A i \in 1..(Len(rows) - first) : after[i] = rows[first + 1 + i - 1]
      <3>1. /\ first + 1 \in 1..(Len(rows) + 1) /\ Len(rows) \in 0..Len(rows)
            /\ first + 1 <= Len(rows) + 1
        BY <2>3
      <3>2. Len(rows) - (first + 1) + 1 = Len(rows) - first
        BY <2>3
      <3> QED BY <2>3, <3>1, <3>2, SubSeqFacts
    <2>6. new = before \o after
      OBVIOUS
    <2> HIDE DEF before, after, new
    <2>7. /\ new \in Seq(Batch) /\ Len(new) = Len(before) + Len(after)
          /\ \A i \in 1..Len(before) : new[i] = before[i]
          /\ \A i \in 1..Len(after) : new[Len(before) + i] = after[i]
      <3>1. before \in Seq(Batch) /\ after \in Seq(Batch)
        BY <2>4, <2>5
      <3> QED BY <2>6, <3>1, ConcatFacts
    <2>8. \A i \in 1..Len(new) : \E j \in 1..Len(rows) : new[i] = rows[j]
      <3> TAKE i \in 1..Len(new)
      <3>1. CASE i <= first - 1
        <4>1. i \in 1..(first - 1) /\ i \in 1..Len(rows) /\ 1 + i - 1 = i
          BY <2>3, <2>4, <2>5, <2>7, <3>1
        <4> QED BY <2>4, <2>7, <4>1
      <3>2. CASE i > first - 1
        <4> DEFINE k == i - (first - 1)
        <4>1. /\ k \in 1..(Len(rows) - first) /\ Len(before) + k = i
              /\ first + 1 + k - 1 \in 1..Len(rows)
          BY <2>3, <2>4, <2>5, <2>7, <3>2
        <4> HIDE DEF k
        <4> QED BY <2>5, <2>7, <4>1
      <3>3. i <= first - 1 \/ i > first - 1
        BY <2>3, <2>4, <2>5, <2>7
      <3> QED BY <3>1, <3>2, <3>3
    <2>9. RowsOf(new) \subseteq RowsOf(rows)
      BY <2>8 DEF RowsOf
    <2>10. /\ Shaped(d) /\ d.stream = c.stream /\ d.handshake = c.handshake
           /\ d.user = c.user /\ d.queue = [c.queue EXCEPT ![c.user] = new]
      BY <2>1, <2>7 DEF Shaped
    <2>11. \A u \in Users : RowsOf(d.queue[u]) \subseteq RowsOf(c.queue[u])
      BY <2>9, <2>10 DEF Shaped, rows
    <2> QED BY <2>10, <2>11 DEF Obeys, Loyal
  <1> QED BY <1>1, <1>2

\* Telling the callbacks.
LEMMA NotifyObeys ==
    ASSUME NEW c, Shaped(c), NEW id, NEW verdict, NEW d, d = NotifyUser(c, id, verdict)
    PROVE  Obeys(c, d) /\ d.stream = c.stream /\ d.handshake = c.handshake
  <1> DEFINE due == {k \in c.callbacks[c.user] : k.id = id}
             callbacks == [c.callbacks EXCEPT ![c.user] = @ \ due]
             told == [w \in Writes |->
                         IF \E k \in due : k.write = w THEN verdict ELSE c.told[w]]
  <1>1. d = [c EXCEPT !.callbacks = callbacks, !.told = told]
    BY DEF NotifyUser
  <1> HIDE DEF callbacks, told
  <1> QED BY <1>1 DEF Shaped, Obeys, Loyal

\* A refused write.
LEMMA ErrorObeys ==
    ASSUME NEW c, Shaped(c), NEW d, d = HandleWriteError(c) PROVE Obeys(c, d)
  <1> DEFINE batch == Head(c.pipeline)
             popped == [c EXCEPT !.pipeline = Tail(@)]
             restartable == InhibitBackoff(popped)
             rejected == RemoveMutationBatch(restartable, batch.id)
             told == NotifyUser(rejected, batch.id, "refused")
  <1>1. d = FillWritePipeline(told)
    BY DEF HandleWriteError
  <1>2. Obeys(c, popped)
    BY DEF Shaped, Obeys, Loyal
  <1> HIDE DEF popped
  <1>3. Obeys(popped, restartable)
    BY <1>2, InhibitObeys DEF Obeys
  <1> HIDE DEF restartable, batch
  <1>4. Obeys(restartable, rejected)
    BY <1>3, RemoveObeys DEF Obeys
  <1> HIDE DEF rejected
  <1>5. Obeys(rejected, told)
    BY <1>4, NotifyObeys DEF Obeys
  <1> HIDE DEF told
  <1>6. Obeys(told, d)
    BY <1>1, <1>5, FillObeys DEF Obeys
  <1> QED BY <1>2, <1>3, <1>4, <1>5, <1>6, ObeysBoth

\* What the remote store does when the stream has ended.
LEMMA OnCloseObeys ==
    ASSUME NEW c, Shaped(c), NEW status, NEW d, d = OnWriteStreamClose(c, status)
    PROVE  Obeys(c, d)
  <1> DEFINE checked == HardAssert(c, status = "ok" => ~ShouldStartWriteStream(c))
             settled == IF status = "permanent" /\ c.pipeline # <<>> /\ c.handshake
                        THEN HandleWriteError(checked) ELSE checked
  <1>1. d = StartIfNeeded(settled)
    BY DEF OnWriteStreamClose
  <1>2. Obeys(c, checked)
    BY AssertObeys
  <1> HIDE DEF checked
  <1>3. Obeys(checked, HandleWriteError(checked))
    BY <1>2, ErrorObeys DEF Obeys
  <1>4. Obeys(c, settled)
    BY <1>2, <1>3, ObeysBoth
  <1> HIDE DEF settled
  <1>5. Obeys(settled, d)
    BY <1>1, <1>4, IfNeededObeys DEF Obeys
  <1> QED BY <1>4, <1>5, ObeysBoth

\* Whatever the state before, the stream is not open after its end.
LEMMA CloseObeys ==
    ASSUME NEW c, Shaped(c), NEW status, NEW d, d = Close(c, status)
    PROVE  Obeys(c, d) /\ ~IsOpen(d.stream)
  <1>1. CASE StaysClosed(c, status)
    <2>1. d = c
      BY <1>1 DEF Close
    <2> QED BY <1>1, <2>1, ObeysItself DEF StaysClosed, IsStarted, IsOpen
  <1>2. CASE ~StaysClosed(c, status)
    <2> DEFINE closed == CloseStream(c, status)
               heard == OnWriteStreamClose(closed, status)
    <2>1. d = [heard EXCEPT !.handshake = FALSE]
      BY <1>2 DEF Close
    <2>2. Obeys(c, closed) /\ ~IsOpen(closed.stream)
      BY CloseStreamObeys
    <2> HIDE DEF closed
    <2>3. Obeys(closed, heard)
      BY <2>2, OnCloseObeys DEF Obeys
    <2> HIDE DEF heard
    <2>4. Obeys(c, heard) /\ ~IsOpen(heard.stream)
      BY <2>2, <2>3, ObeysBoth DEF Obeys, Loyal
    <2>5. /\ Shaped(d) /\ d.user = heard.user /\ d.queue = heard.queue
          /\ d.stream = heard.stream
      BY <2>1, <2>4 DEF Shaped, Obeys
    <2> QED BY <2>4, <2>5 DEF Obeys, Loyal
  <1> QED BY <1>1, <1>2

\* Turning the network off closes the stream.
LEMMA DisableObeys ==
    ASSUME NEW c, Shaped(c), NEW d, d = DisableNetworkInternal(c)
    PROVE  Obeys(c, d) /\ ~IsOpen(d.stream)
  <1> DEFINE off == [c EXCEPT !.network = FALSE]
             closed == Close(off, "ok")
  <1>1. d = [closed EXCEPT !.pipeline = <<>>]
    BY DEF DisableNetworkInternal
  <1>2. Obeys(c, off)
    BY DEF Shaped, Obeys, Loyal
  <1> HIDE DEF off
  <1>3. Obeys(off, closed) /\ ~IsOpen(closed.stream)
    BY <1>2, CloseObeys DEF Obeys
  <1> HIDE DEF closed
  <1>4. /\ Shaped(d) /\ d.user = closed.user /\ d.queue = closed.queue
        /\ d.stream = closed.stream
    BY <1>1, <1>3 DEF Shaped, Obeys
  <1>5. Obeys(closed, d) /\ ~IsOpen(d.stream)
    BY <1>3, <1>4 DEF Obeys, Loyal
  <1> QED BY <1>2, <1>3, <1>5, ObeysBoth

\* Turning the network on does not open it.
LEMMA EnableObeys ==
    ASSUME NEW c, Shaped(c), NEW d, d = EnableNetworkInternal(c) PROVE Obeys(c, d)
  <1> DEFINE on == [c EXCEPT !.network = TRUE]
  <1>1. d = FillWritePipeline(on)
    BY DEF EnableNetworkInternal
  <1>2. Obeys(c, on)
    BY DEF Shaped, Obeys, Loyal
  <1> HIDE DEF on
  <1>3. Obeys(on, d)
    BY <1>1, <1>2, FillObeys DEF Obeys
  <1> QED BY <1>2, <1>3, ObeysBoth

\* A restart of the network closes the stream and asks for a new token.
LEMMA RestartObeys ==
    ASSUME NEW c, Shaped(c), NEW d, d = RestartNetwork(c)
    PROVE  Obeys(c, d) /\ ~IsOpen(d.stream)
  <1> DEFINE off == DisableNetworkInternal(c)
             free == InhibitBackoff(off)
  <1>1. d = EnableNetworkInternal(free)
    BY DEF RestartNetwork
  <1>2. Obeys(c, off)
    BY DisableObeys
  <1> HIDE DEF off
  <1>3. Obeys(off, free) /\ ~IsOpen(free.stream)
    BY <1>2, InhibitObeys DEF Obeys
  <1> HIDE DEF free
  <1>4. Obeys(free, d)
    BY <1>1, <1>3, EnableObeys DEF Obeys
  <1>5. ~IsOpen(d.stream)
    BY <1>3, <1>4 DEF Obeys, Loyal
  <1> QED BY <1>2, <1>3, <1>4, <1>5, ObeysBoth

\* Another user: the streams are restarted, and one that could not be, because
\* the network is off, is not open.
LEMMA CredentialObeys ==
    ASSUME NEW c, Shaped(c), ~c.network => ~IsOpen(c.stream), NEW u \in Users,
           NEW d, d = HandleCredentialChange(c, u)
    PROVE  /\ Shaped(d) /\ d.user = u /\ ~IsOpen(d.stream)
           /\ \A v \in Users : RowsOf(d.queue[v]) \subseteq RowsOf(c.queue[v])
  <1> DEFINE changed == ChangeUser(c, u)
  <1>1. /\ Shaped(changed) /\ changed.user = u /\ changed.queue = c.queue
        /\ changed.stream = c.stream /\ changed.network = c.network
    <2>1. CASE u = c.user
      BY <2>1 DEF ChangeUser
    <2>2. CASE u # c.user
      BY <2>2 DEF ChangeUser, Shaped
    <2> QED BY <2>1, <2>2
  <1>2. d = IF changed.network THEN RestartNetwork(changed) ELSE changed
    BY DEF HandleCredentialChange
  <1> HIDE DEF changed
  <1>3. Obeys(changed, RestartNetwork(changed)) /\ ~IsOpen(RestartNetwork(changed).stream)
    BY <1>1, RestartObeys
  <1>4. CASE changed.network
    BY <1>1, <1>2, <1>3, <1>4 DEF Obeys, Loyal
  <1>5. CASE ~changed.network
    BY <1>1, <1>2, <1>5
  <1> QED BY <1>4, <1>5

\* An answer: it completes the handshake or settles the oldest write.
LEMMA ResponseObeys ==
    ASSUME NEW c, Shaped(c), NEW d, d = NotifyStreamResponse(c) PROVE Obeys(c, d)
  <1> DEFINE read == [c EXCEPT !.stream.down = Tail(@)]
  <1>1. Obeys(c, read) /\ read.handshake = c.handshake
    <2>1. /\ Shaped(read) /\ read.user = c.user /\ read.queue = c.queue
          /\ read.handshake = c.handshake
      BY DEF Shaped
    <2>2. /\ read.stream.state = c.stream.state /\ read.stream.token = c.stream.token
          /\ read.stream.up = c.stream.up
      BY DEF Shaped
    <2> HIDE DEF read
    <2> QED BY <2>1, <2>2 DEF Obeys, Loyal, IsOpen
  <1>2. CASE ~c.handshake
    <2> DEFINE shaken == [read EXCEPT !.handshake = TRUE]
    <2>1. d = WriteMutations(shaken, c.pipeline)
      BY <1>2 DEF NotifyStreamResponse
    <2> HIDE DEF read
    <2>2. Obeys(read, shaken) /\ shaken.handshake
      BY <1>1 DEF Shaped, Obeys, Loyal
    <2> HIDE DEF shaken
    <2>3. Obeys(shaken, d)
      BY <2>1, <2>2, SentObeys DEF Obeys
    <2> QED BY <1>1, <2>2, <2>3, ObeysBoth
  <1>3. CASE c.handshake
    <2>1. d = OnWriteStreamMutationResult(read)
      BY <1>3 DEF NotifyStreamResponse
    <2> HIDE DEF read
    <2>2. CASE read.pipeline = <<>>
      <3>1. d = HardAssert(read, FALSE)
        BY <2>1, <2>2 DEF OnWriteStreamMutationResult
      <3> QED BY <1>1, <3>1, AssertObeys, ObeysBoth DEF Obeys
    <2>3. CASE read.pipeline # <<>>
      <3> DEFINE batch == Head(read.pipeline)
                 popped == [read EXCEPT !.pipeline = Tail(@)]
                 told == NotifyUser(popped, batch.id, "ok")
                 removed == RemoveMutationBatch(told, batch.id)
      <3>1. d = FillWritePipeline(removed)
        BY <2>1, <2>3 DEF OnWriteStreamMutationResult
      <3>2. Obeys(read, popped)
        BY <1>1 DEF Shaped, Obeys, Loyal
      <3> HIDE DEF popped, batch
      <3>3. Obeys(popped, told)
        BY <3>2, NotifyObeys DEF Obeys
      <3> HIDE DEF told
      <3>4. Obeys(told, removed)
        BY <3>3, RemoveObeys DEF Obeys
      <3> HIDE DEF removed
      <3>5. Obeys(removed, d)
        BY <3>1, <3>4, FillObeys DEF Obeys
      <3> QED BY <1>1, <3>2, <3>3, <3>4, <3>5, ObeysBoth
    <2> QED BY <2>2, <2>3
  <1> QED BY <1>2, <1>3

\* The end of the backoff.
LEMMA EndBackoffObeys ==
    ASSUME NEW c, Shaped(c), NEW d, d = EndBackoff(c) PROVE Obeys(c, d)
  <1> DEFINE e == HardAssert(c, c.stream.state = "Backoff")
             ready == [e EXCEPT !.stream.backoff = FALSE, !.stream.state = "Initial"]
  <1>1. d = StartStream(ready)
    BY DEF EndBackoff
  <1>2. Obeys(c, e)
    BY AssertObeys
  <1> HIDE DEF e
  <1>3. /\ Shaped(ready) /\ ready.user = e.user /\ ready.queue = e.queue
        /\ ready.stream.state = "Initial"
    BY <1>2 DEF Shaped, Obeys
  <1> HIDE DEF ready
  <1>4. Obeys(e, ready)
    BY <1>3 DEF Obeys, Loyal, IsOpen
  <1>5. Obeys(ready, d)
    BY <1>1, <1>3, StartObeys
  <1> QED BY <1>2, <1>4, <1>5, ObeysBoth

\* A new write joins the queue of the client's user.
LEMMA LocalOwned ==
    ASSUME NEW c \in Client, NEW w \in Nat, NEW d, d = FillWritePipeline(WriteLocally(c, w))
    PROVE  /\ Shaped(d) /\ d.user = c.user
           /\ \A u \in Users : \A row \in RowsOf(d.queue[u]) :
                  row \in RowsOf(c.queue[u]) \/ (row.write = w /\ u = c.user)
           /\ IsOpen(d.stream) =>
                  /\ IsOpen(c.stream) /\ d.stream.token = c.stream.token
                  /\ ~d.handshake => ~c.handshake /\ d.stream.up = c.stream.up
  <1> DEFINE batch == [id |-> c.nextId, write |-> w]
             rows == c.queue[c.user]
             new == Append(rows, batch)
             e == WriteLocally(c, w)
  <1>1. Shaped(c) /\ rows \in Seq(Batch) /\ batch \in Batch
    BY ClientShaped DEF Client, Batch
  <1>2. /\ DOMAIN e = DOMAIN c /\ e.user = c.user /\ e.stream = c.stream
        /\ e.handshake = c.handshake /\ e.queue = [c.queue EXCEPT ![c.user] = new]
    BY <1>1 DEF WriteLocally, Shaped
  <1>3. batch.write = w
    OBVIOUS
  <1> HIDE DEF e, batch, rows
  <1>4. /\ new \in Seq(Batch) /\ Len(new) = Len(rows) + 1 /\ Len(rows) \in Nat
        /\ \A i \in 1..Len(rows) : new[i] = rows[i]
        /\ new[Len(rows) + 1] = batch
    BY <1>1, AppendFacts
  <1> HIDE DEF new
  <1>5. Shaped(e)
    BY <1>1, <1>2, <1>4 DEF Shaped
  <1>6. \A row \in RowsOf(new) : row \in RowsOf(rows) \/ row = batch
    BY <1>4 DEF RowsOf
  <1>7. \A u \in Users : \A row \in RowsOf(e.queue[u]) :
            row \in RowsOf(c.queue[u]) \/ (row.write = w /\ u = c.user)
    BY <1>1, <1>2, <1>3, <1>6 DEF Shaped, rows
  <1>8. Obeys(e, d)
    BY <1>5, FillObeys DEF e
  <1> QED BY <1>2, <1>7, <1>8 DEF Obeys, Loyal

\* A stream opens with the token's user, and its first request is the handshake.
LEMMA OpenOwned ==
    ASSUME NEW c, Shaped(c), c.stream.up = <<>>, NEW u, NEW d, d = WriteHandshake(Open(c, u))
    PROVE  /\ Shaped(d) /\ d.user = c.user /\ d.queue = c.queue
           /\ d.stream.token = u /\ d.stream.up = <<Handshake>>
  <1> DEFINE e == HardAssert(c, c.stream.state = "Starting")
             opened == Open(c, u)
             checked == HardAssert(opened, ~opened.handshake)
             f == HardAssert(checked, IsOpen(checked.stream))
  <1>1. Shaped(e) /\ e.stream = c.stream /\ e.user = c.user /\ e.queue = c.queue
    BY DEF HardAssert, Shaped
  <1>2. opened = [e EXCEPT !.stream.state = "Open", !.stream.token = u]
    BY DEF Open
  <1> HIDE DEF e
  <1>3. /\ Shaped(opened) /\ opened.user = c.user /\ opened.queue = c.queue
        /\ opened.stream.token = u /\ opened.stream.up = <<>>
    <2> DEFINE stream == [e.stream EXCEPT !.state = "Open", !.token = u]
    <2>1. opened = [e EXCEPT !.stream = stream]
      BY <1>1, <1>2 DEF Shaped
    <2>2. DOMAIN stream = DOMAIN e.stream /\ stream.token = u /\ stream.up = e.stream.up
      BY <1>1 DEF Shaped
    <2> HIDE DEF stream, opened
    <2> QED BY <1>1, <2>1, <2>2 DEF Shaped
  <1> HIDE DEF opened
  <1>4. Shaped(checked) /\ checked.stream = opened.stream /\ checked.user = c.user
        /\ checked.queue = c.queue
    BY <1>3 DEF HardAssert, Shaped
  <1>5. d = Send(checked, <<Handshake>>)
    BY DEF WriteHandshake, opened
  <1> HIDE DEF checked
  <1>6. Shaped(f) /\ f.stream = opened.stream /\ f.user = c.user /\ f.queue = c.queue
    BY <1>4 DEF HardAssert, Shaped
  <1>7. d = [f EXCEPT !.stream.idle = FALSE, !.stream.up = @ \o <<Handshake>>]
    BY <1>5 DEF Send
  <1> HIDE DEF f
  <1>8. <<>> \o <<Handshake>> = <<Handshake>>
    BY DEF Handshake
  <1>9. /\ Shaped(d) /\ d.user = f.user /\ d.queue = f.queue
        /\ d.stream.token = f.stream.token /\ d.stream.up = f.stream.up \o <<Handshake>>
    BY <1>6, <1>7 DEF Shaped
  <1> QED BY <1>3, <1>6, <1>8, <1>9

\* The app starts with the queues on disk and a stream that is not open.
LEMMA BootOwned ==
    ASSUME NEW queue \in [Users -> Seq(Batch)], NEW u \in Users, NEW told,
           NEW d, d = Boot(queue, u, told)
    PROVE  /\ Shaped(d) /\ d.user = u /\ ~IsOpen(d.stream)
           /\ \A v \in Users : RowsOf(d.queue[v]) \subseteq RowsOf(queue[v])
  <1> DEFINE c == [user |-> u, network |-> FALSE, queue |-> queue,
                   nextId |-> NextBatchId(queue), pipeline |-> <<>>, stream |-> NewStream,
                   handshake |-> FALSE,
                   callbacks |-> [v \in Users |-> {}], told |-> told, fresh |-> {},
                   failed |-> FALSE]
  <1>1. d = EnableNetworkInternal(c)
    BY DEF Boot
  <1>2. Shaped(c) /\ c.user = u /\ c.queue = queue /\ ~IsOpen(c.stream)
    BY DEF Shaped, NewStream, IsOpen
  <1> HIDE DEF c
  <1>3. Obeys(c, d)
    BY <1>1, <1>2, EnableObeys
  <1> QED BY <1>2, <1>3 DEF Obeys, Loyal

-----------------------------------------------------------------------------
(* The users in effect along a queue. *)

\* x is the user in effect just before place k of queue q, which started with
\* u: the last change of that kind before k is to x.
InEffect(kind, q, k, u, x) ==
    \/ x = u /\ \A i \in 1..(k - 1) : q[i].kind # kind
    \/ \E i \in 1..(k - 1) :
           /\ q[i].kind = kind /\ q[i].user = x
           /\ \A j \in (i + 1)..(k - 1) : q[j].kind # kind

\* No change of user waits before place k.
Calm(q, k) == \A i \in 1..(k - 1) : q[i].kind # "notify"

\* The rows of each queue are its user's.
RowsOwned(queue, owners) ==
    \A u \in Users : \A row \in RowsOf(queue[u]) :
        row.write \in 1..Len(owners) /\ owners[row.write] = u

\* An open stream has the user's token and starts with its handshake.
StreamOwned(c) ==
    IsOpen(c.stream) =>
        /\ c.stream.token = c.user
        /\ ~c.handshake => \A i \in 1..Len(c.stream.up) : c.stream.up[i] = Handshake

\* A task is for user x.
TaskFor(task, owners, x) ==
    /\ task.kind = "write" => task.write \in 1..Len(owners) /\ owners[task.write] = x
    /\ task.kind = "token" => task.user \in {NoUser, x}

\* Every task on the worker queue is for the user in effect when it runs, and
\* the last of them is the provider's.
WorkerOwned(q, u, owners, last) ==
    /\ \A k \in 1..Len(q) : \A x \in Users :
           InEffect("credential", q, k, u, x) => TaskFor(q[k], owners, x)
    /\ \A x \in Users : InEffect("credential", q, Len(q) + 1, u, x) => x = last

\* An answer that the provider's counter lets pass, made before place k of the
\* main queue, is for the provider's user.
AnswerOwned(answer, q, k, provider) ==
    /\ answer.counter <= provider.counter
    /\ answer.counter = provider.counter /\ Calm(q, k) =>
           answer.user \in {NoUser, provider.user}

\* The last user on the main queue is FIRAuth's, and the answers are right.
MainOwned ==
    /\ \A x \in Users :
           InEffect("notify", main, Len(main) + 1, credentials.user, x) => x = account
    /\ \A k \in 1..Len(main) : main[k].kind = "token" =>
           AnswerOwned(main[k], main, k, credentials)
    /\ \A ask \in asking : AnswerOwned(ask, main, Len(main) + 1, credentials)

OInv ==
    /\ RowsOwned(client.queue, by) /\ StreamOwned(client)
    /\ WorkerOwned(worker, client.user, by, credentials.user)
    /\ MainOwned

\* The head of a queue is taken: the user in effect after it is the next to start with.
LEMMA TailEffect ==
    ASSUME NEW q, NEW t, Shorter(t, q), NEW kind, NEW u, NEW v, NEW x,
           v = IF q[1].kind = kind THEN q[1].user ELSE u,
           NEW k \in 1..Len(q), InEffect(kind, t, k, v, x)
    PROVE  InEffect(kind, q, k + 1, u, x)
  <1>1. /\ Len(q) \in Nat /\ k \in Nat /\ k >= 1 /\ k <= Len(q) /\ Len(t) = Len(q) - 1
        /\ \A i \in 1..(k - 1) : t[i] = q[i + 1]
    BY DEF Shorter
  <1>2. CASE x = v /\ \A i \in 1..(k - 1) : t[i].kind # kind
    <2>1. \A j \in 2..((k + 1) - 1) : q[j].kind # kind
      <3> TAKE j \in 2..((k + 1) - 1)
      <3>1. j - 1 \in 1..(k - 1) /\ (j - 1) + 1 = j
        BY <1>1
      <3> QED BY <1>1, <1>2, <3>1
    <2>2. CASE q[1].kind = kind
      <3>1. 1 \in 1..((k + 1) - 1) /\ 1 + 1 = 2
        BY <1>1
      <3> QED BY <1>2, <2>1, <2>2, <3>1 DEF InEffect
    <2>3. CASE q[1].kind # kind
      <3>1. \A j \in 1..((k + 1) - 1) : j = 1 \/ j \in 2..((k + 1) - 1)
        BY <1>1
      <3> QED BY <1>2, <2>1, <2>3, <3>1 DEF InEffect
    <2> QED BY <2>2, <2>3
  <1>3. ASSUME NEW i \in 1..(k - 1), t[i].kind = kind, t[i].user = x,
               \A j \in (i + 1)..(k - 1) : t[j].kind # kind
        PROVE  InEffect(kind, q, k + 1, u, x)
    <2>1. i + 1 \in 1..((k + 1) - 1) /\ q[i + 1].kind = kind /\ q[i + 1].user = x
      BY <1>1, <1>3
    <2>2. \A j \in ((i + 1) + 1)..((k + 1) - 1) : q[j].kind # kind
      <3> TAKE j \in ((i + 1) + 1)..((k + 1) - 1)
      <3>1. j - 1 \in (i + 1)..(k - 1) /\ j - 1 \in 1..(k - 1) /\ (j - 1) + 1 = j
        BY <1>1
      <3> QED BY <1>1, <1>3, <3>1
    <2> QED BY <2>1, <2>2 DEF InEffect
  <1> QED BY <1>2, <1>3 DEF InEffect

\* A task joins a queue: nothing changes for those before it.
LEMMA AppendEffect ==
    ASSUME NEW q, NEW m, NEW t, Longer(t, q, m), NEW kind, NEW u, NEW x,
           NEW k \in 1..(Len(q) + 1), InEffect(kind, t, k, u, x)
    PROVE  InEffect(kind, q, k, u, x)
  <1>1. /\ Len(q) \in Nat /\ k \in Nat /\ k >= 1
        /\ \A i \in 1..(k - 1) : i \in 1..Len(q) /\ t[i] = q[i]
    BY DEF Longer
  <1> QED BY <1>1 DEF InEffect

\* A task joins a queue, and is the last of its kind.
LEMMA LastEffect ==
    ASSUME NEW q, NEW m, NEW t, Longer(t, q, m), NEW kind, NEW u, NEW x,
           InEffect(kind, t, Len(t) + 1, u, x)
    PROVE  IF m.kind = kind THEN x = m.user ELSE InEffect(kind, q, Len(q) + 1, u, x)
  <1> DEFINE n == Len(q) + 1
  <1>1. /\ Len(q) \in Nat /\ Len(t) = n /\ n \in Nat /\ t[n] = m
        /\ \A i \in 1..Len(q) : t[i] = q[i]
    BY DEF Longer
  <1>2. n \in 1..((n + 1) - 1) /\ (n + 1) - 1 = n /\ n - 1 = Len(q)
    BY <1>1
  <1>3. CASE m.kind = kind
    <2>1. PICK i \in 1..n : /\ t[i].user = x
                            /\ \A j \in (i + 1)..n : t[j].kind # kind
      BY <1>1, <1>2, <1>3 DEF InEffect
    <2>2. ~(n \in (i + 1)..n)
      BY <1>1, <1>3, <2>1
    <2>3. i = n
      BY <1>1, <2>1, <2>2
    <2> QED BY <1>1, <1>3, <2>1, <2>3
  <1>4. CASE m.kind # kind
    <2>1. CASE x = u /\ \A i \in 1..n : t[i].kind # kind
      <3>1. \A i \in 1..(n - 1) : q[i].kind # kind
        BY <1>1, <1>2, <2>1
      <3> QED BY <1>4, <2>1, <3>1 DEF InEffect
    <2>2. ASSUME NEW i \in 1..n, t[i].kind = kind, t[i].user = x,
                 \A j \in (i + 1)..n : t[j].kind # kind
          PROVE  InEffect(kind, q, n, u, x)
      <3>1. i # n /\ i \in 1..(n - 1)
        BY <1>1, <1>2, <1>4, <2>2
      <3>2. q[i].kind = kind /\ q[i].user = x
        BY <1>1, <1>2, <2>2, <3>1
      <3>3. \A j \in (i + 1)..(n - 1) : q[j].kind # kind
        BY <1>1, <1>2, <2>2, <3>1
      <3> QED BY <3>1, <3>2, <3>3 DEF InEffect
    <2> QED BY <1>1, <1>2, <1>4, <2>1, <2>2 DEF InEffect
  <1> QED BY <1>3, <1>4

\* Nobody else is in effect where the queue starts.
LEMMA FirstEffect ==
    ASSUME NEW q, NEW kind, NEW u PROVE InEffect(kind, q, 1, u, u)
  BY DEF InEffect

-----------------------------------------------------------------------------
(* The queues of tasks. *)

\* The worker queue loses its head, which was for the user in effect.
LEMMA TakeOwned ==
    ASSUME NEW q \in Seq(Task), q # <<>>, NEW u \in Users, NEW owners, NEW last,
           WorkerOwned(q, u, owners, last), NEW task, task = Head(q), NEW rest, rest = Tail(q),
           NEW v, v = IF task.kind = "credential" THEN task.user ELSE u
    PROVE  TaskFor(task, owners, u) /\ WorkerOwned(rest, v, owners, last)
  <1>1. Shorter(rest, q) /\ task = q[1]
    BY TailShorter
  <1>2. /\ Len(q) \in Nat /\ Len(q) >= 1 /\ Len(rest) = Len(q) - 1
        /\ \A k \in 1..Len(rest) : rest[k] = q[k + 1] /\ k \in 1..Len(q) /\ k + 1 \in 1..Len(q)
    BY <1>1 DEF Shorter
  <1>3. TaskFor(task, owners, u)
    <2>1. 1 \in 1..Len(q) /\ InEffect("credential", q, 1, u, u)
      BY <1>2, FirstEffect
    <2> QED BY <1>1, <2>1 DEF WorkerOwned
  <1>4. ASSUME NEW k \in 1..Len(rest), NEW x \in Users, InEffect("credential", rest, k, v, x)
        PROVE  TaskFor(rest[k], owners, x)
    <2>1. InEffect("credential", q, k + 1, u, x)
      BY <1>1, <1>2, <1>4, TailEffect
    <2> QED BY <1>2, <2>1 DEF WorkerOwned
  <1>5. ASSUME NEW x \in Users, InEffect("credential", rest, Len(rest) + 1, v, x)
        PROVE  x = last
    <2>1. Len(rest) + 1 = Len(q) /\ Len(q) \in 1..Len(q)
      BY <1>2
    <2>2. InEffect("credential", q, Len(q) + 1, u, x)
      BY <1>1, <1>5, <2>1, TailEffect
    <2> QED BY <2>2 DEF WorkerOwned
  <1> QED BY <1>3, <1>4, <1>5 DEF WorkerOwned

\* A task for the last user joins the worker queue.
LEMMA JoinOwned ==
    ASSUME NEW q \in Seq(Task), NEW u \in Users, NEW owners, NEW last,
           WorkerOwned(q, u, owners, last), NEW task \in Task, NEW more, more = Append(q, task),
           TaskFor(task, owners, last),
           NEW new, new = IF task.kind = "credential" THEN task.user ELSE last
    PROVE  WorkerOwned(more, u, owners, new)
  <1>1. Longer(more, q, task)
    BY AppendLonger
  <1>2. /\ Len(q) \in Nat /\ Len(more) = Len(q) + 1 /\ more[Len(q) + 1] = task
        /\ \A k \in 1..Len(q) : more[k] = q[k]
        /\ \A k \in 1..Len(more) : k \in 1..Len(q) \/ k = Len(q) + 1
        /\ \A k \in 1..Len(more) : k \in 1..(Len(q) + 1)
    BY <1>1 DEF Longer
  <1>3. ASSUME NEW k \in 1..Len(more), NEW x \in Users, InEffect("credential", more, k, u, x)
        PROVE  TaskFor(more[k], owners, x)
    <2>1. InEffect("credential", q, k, u, x)
      BY <1>1, <1>2, <1>3, AppendEffect
    <2>2. CASE k \in 1..Len(q)
      BY <1>2, <2>1, <2>2 DEF WorkerOwned
    <2>3. CASE k = Len(q) + 1
      <3>1. x = last
        BY <2>1, <2>3 DEF WorkerOwned
      <3> QED BY <1>2, <2>3, <3>1
    <2> QED BY <1>2, <2>2, <2>3
  <1>4. ASSUME NEW x \in Users, InEffect("credential", more, Len(more) + 1, u, x)
        PROVE  x = new
    <2>1. IF task.kind = "credential" THEN x = task.user
          ELSE InEffect("credential", q, Len(q) + 1, u, x)
      BY <1>1, <1>4, LastEffect
    <2> QED BY <2>1 DEF WorkerOwned
  <1> QED BY <1>3, <1>4 DEF WorkerOwned

\* The worker queue is right when more writes have been made.
LEMMA MoreWrites ==
    ASSUME NEW owners \in Seq(Users), NEW w \in Users, NEW more, more = Append(owners, w)
    PROVE  /\ Len(owners) \in Nat /\ Len(more) = Len(owners) + 1
           /\ Len(owners) + 1 \in 1..Len(more) /\ more[Len(owners) + 1] = w
           /\ \A i \in 1..Len(owners) : i \in 1..Len(more) /\ more[i] = owners[i]
           /\ \A q, u, last : WorkerOwned(q, u, owners, last) => WorkerOwned(q, u, more, last)
           /\ \A queue : RowsOwned(queue, owners) => RowsOwned(queue, more)
  <1>1. /\ Len(owners) \in Nat /\ Len(more) = Len(owners) + 1
        /\ Len(owners) + 1 \in 1..Len(more) /\ more[Len(owners) + 1] = w
        /\ \A i \in 1..Len(owners) : i \in 1..Len(more) /\ more[i] = owners[i]
    <2>1. /\ Len(owners) \in Nat /\ Len(more) = Len(owners) + 1 /\ more[Len(owners) + 1] = w
          /\ \A i \in 1..Len(owners) : more[i] = owners[i]
      BY AppendFacts
    <2> QED BY <2>1
  <1>2. \A task, x : TaskFor(task, owners, x) => TaskFor(task, more, x)
    BY <1>1 DEF TaskFor
  <1>3. \A q, u, last : WorkerOwned(q, u, owners, last) => WorkerOwned(q, u, more, last)
    BY <1>2 DEF WorkerOwned
  <1>4. \A queue : RowsOwned(queue, owners) => RowsOwned(queue, more)
    BY <1>1 DEF RowsOwned
  <1> QED BY <1>1, <1>3, <1>4

\* What is loyal keeps the rows and the stream right.
LEMMA LoyalOwned ==
    ASSUME NEW c, NEW d, Obeys(c, d), NEW owners, RowsOwned(c.queue, owners), StreamOwned(c)
    PROVE  RowsOwned(d.queue, owners) /\ StreamOwned(d)
  BY DEF Obeys, Loyal, RowsOwned, StreamOwned

-----------------------------------------------------------------------------
(* The actions. *)

\* An operation that leaves rows and stream right.
LEMMA PerformOwned ==
    ASSUME IInv, OInv, NEW d, Shaped(d), RowsOwned(d.queue, by), StreamOwned(d), Perform(d),
           WorkerOwned(worker', d.user, by, credentials.user),
           UNCHANGED <<main, account, credentials, by>>
    PROVE  OInv'
  <1>1. /\ client' = [d EXCEPT !.stream.asked = FALSE]
        /\ asking' = IF d.stream.asked THEN asking \cup {Ask(d.stream.closes)} ELSE asking
    BY DEF Perform
  <1>2. /\ client'.user = d.user /\ client'.queue = d.queue
        /\ client'.handshake = d.handshake
        /\ client'.stream.state = d.stream.state /\ client'.stream.token = d.stream.token
        /\ client'.stream.up = d.stream.up
    BY <1>1 DEF Shaped
  <1>3. StreamOwned(client')
    BY <1>2 DEF StreamOwned, IsOpen
  <1>4. \A ask \in asking' : ask \in asking \/ ask = Ask(d.stream.closes)
    BY <1>1
  <1>5. credentials.counter \in Nat
    BY DEF IInv, Typed
  <1>6. AnswerOwned(Ask(d.stream.closes), main, Len(main) + 1, credentials)
    BY <1>5 DEF AnswerOwned, Ask
  <1>7. MainOwned'
    BY <1>4, <1>6 DEF OInv, MainOwned, InEffect
  <1> QED BY <1>2, <1>3, <1>7 DEF OInv

\* An operation that is loyal.
LEMMA ObeysOwned ==
    ASSUME IInv, OInv, NEW d, Obeys(client, d), Perform(d),
           WorkerOwned(worker', client.user, by, credentials.user),
           UNCHANGED <<main, account, credentials, by>>
    PROVE  OInv'
  <1>1. Shaped(d) /\ d.user = client.user
    BY DEF Obeys, Loyal
  <1>2. RowsOwned(d.queue, by) /\ StreamOwned(d)
    BY LoyalOwned DEF OInv
  <1> QED BY <1>1, <1>2, PerformOwned

\* What the invariants say of the client and of the worker queue.
LEMMA Known ==
    ASSUME IInv, OInv
    PROVE  /\ client \in Client /\ Shaped(client) /\ client.user \in Users
           /\ worker \in Seq(Task) /\ main \in Seq(Block) /\ by \in Seq(Users)
           /\ credentials.user \in Users /\ credentials.counter \in Nat /\ account \in Users
           /\ WorkerOwned(worker, client.user, by, credentials.user)
           /\ RowsOwned(client.queue, by) /\ StreamOwned(client) /\ MainOwned
  <1>1. client \in Client
    BY DEF IInv, Sound, Sane
  <1> QED BY <1>1, ClientShaped DEF Shaped, IInv, Typed, OInv

\* The operations that touch neither queue.
LEMMA LoneOwned ==
    ASSUME IInv, OInv, \/ RunBackoff \/ RunIdle \/ RunAnswer \/ StreamBreaks
                       \/ ConnectivityChanges \/ DisableNetwork \/ EnableNetwork
    PROVE  OInv'
  <1>1. Shaped(client) /\ WorkerOwned(worker, client.user, by, credentials.user)
    BY Known
  <1>2. CASE RunBackoff
    <2>1. Perform(EndBackoff(client)) /\ UNCHANGED <<worker, main, account, credentials, by>>
      BY <1>2 DEF RunBackoff
    <2> QED BY <1>1, <2>1, EndBackoffObeys, ObeysOwned
  <1>3. CASE RunIdle
    <2>1. Perform(Close(client, "ok")) /\ UNCHANGED <<worker, main, account, credentials, by>>
      BY <1>3 DEF RunIdle
    <2> QED BY <1>1, <2>1, CloseObeys, ObeysOwned
  <1>4. CASE RunAnswer
    <2> DEFINE d == IF Head(client.stream.down).ok THEN NotifyStreamResponse(client)
                    ELSE Close(client, "permanent")
    <2>1. Perform(d) /\ UNCHANGED <<worker, main, account, credentials, by>>
      BY <1>4 DEF RunAnswer
    <2>2. Obeys(client, d)
      BY <1>1, ResponseObeys, CloseObeys
    <2> HIDE DEF d
    <2> QED BY <1>1, <2>1, <2>2, ObeysOwned
  <1>5. CASE StreamBreaks
    <2>1. /\ Perform(Close(client, "transient"))
          /\ UNCHANGED <<worker, main, account, credentials, by>>
      BY <1>5 DEF StreamBreaks
    <2> QED BY <1>1, <2>1, CloseObeys, ObeysOwned
  <1>6. CASE ConnectivityChanges
    <2>1. Perform(RestartNetwork(client)) /\ UNCHANGED <<worker, main, account, credentials, by>>
      BY <1>6 DEF ConnectivityChanges
    <2> QED BY <1>1, <2>1, RestartObeys, ObeysOwned
  <1>7. CASE DisableNetwork
    <2>1. /\ Perform(DisableNetworkInternal(client))
          /\ UNCHANGED <<worker, main, account, credentials, by>>
      BY <1>7 DEF DisableNetwork
    <2> QED BY <1>1, <2>1, DisableObeys, ObeysOwned
  <1>8. CASE EnableNetwork
    <2>1. /\ Perform(EnableNetworkInternal(client))
          /\ UNCHANGED <<worker, main, account, credentials, by>>
      BY <1>8 DEF EnableNetwork
    <2> QED BY <1>1, <2>1, EnableObeys, ObeysOwned
  <1> QED BY <1>2, <1>3, <1>4, <1>5, <1>6, <1>7, <1>8

\* A write runs for the user it was made for.
LEMMA RunWriteOwned == ASSUME IInv, OInv, RunWrite PROVE OInv'
  <1> DEFINE task == Head(worker)
             w == task.write
             d == FillWritePipeline(WriteLocally(client, w))
  <1>1. /\ worker # <<>> /\ task.kind = "write" /\ worker' = Tail(worker) /\ Perform(d)
        /\ UNCHANGED <<main, account, credentials, by>>
    BY DEF RunWrite
  <1>2. /\ client \in Client /\ client.user \in Users /\ worker \in Seq(Task)
        /\ WorkerOwned(worker, client.user, by, credentials.user)
        /\ RowsOwned(client.queue, by) /\ StreamOwned(client) /\ by \in Seq(Users)
    BY Known
  <1>3. TaskFor(task, by, client.user)
        /\ WorkerOwned(worker', client.user, by, credentials.user)
    BY <1>1, <1>2, TakeOwned
  <1>4. w \in 1..Len(by) /\ by[w] = client.user /\ w \in Nat
    BY <1>1, <1>2, <1>3 DEF TaskFor
  <1> HIDE DEF w, task
  <1>5. /\ Shaped(d) /\ d.user = client.user
        /\ \A u \in Users : \A row \in RowsOf(d.queue[u]) :
               row \in RowsOf(client.queue[u]) \/ (row.write = w /\ u = client.user)
        /\ IsOpen(d.stream) =>
               /\ IsOpen(client.stream) /\ d.stream.token = client.stream.token
               /\ ~d.handshake => ~client.handshake /\ d.stream.up = client.stream.up
    BY <1>2, <1>4, LocalOwned
  <1> HIDE DEF d
  <1>6. RowsOwned(d.queue, by)
    BY <1>2, <1>4, <1>5 DEF RowsOwned
  <1>7. StreamOwned(d)
    BY <1>2, <1>5 DEF StreamOwned
  <1> QED BY <1>1, <1>3, <1>5, <1>6, <1>7, PerformOwned

\* A change of user reaches the client.
LEMMA RunCredentialChangeOwned == ASSUME IInv, OInv, RunCredentialChange PROVE OInv'
  <1> DEFINE task == Head(worker)
             u == task.user
             d == HandleCredentialChange(client, u)
  <1>1. /\ worker # <<>> /\ task.kind = "credential" /\ worker' = Tail(worker) /\ Perform(d)
        /\ UNCHANGED <<main, account, credentials, by>>
    BY DEF RunCredentialChange
  <1>2. /\ Shaped(client) /\ client.user \in Users /\ worker \in Seq(Task)
        /\ WorkerOwned(worker, client.user, by, credentials.user)
        /\ RowsOwned(client.queue, by)
    BY Known
  <1>3. WorkerOwned(worker', u, by, credentials.user)
    BY <1>1, <1>2, TakeOwned
  <1>4. task \in Task
    BY <1>1, <1>2, TailShorter
  <1>5. u \in Users
    BY <1>1, <1>4 DEF Task
  <1>6. ~client.network => ~IsOpen(client.stream)
    BY DEF IInv, Sound, Sane, IsStarted, IsOpen
  <1> HIDE DEF u, task
  <1>7. /\ Shaped(d) /\ d.user = u /\ ~IsOpen(d.stream)
        /\ \A v \in Users : RowsOf(d.queue[v]) \subseteq RowsOf(client.queue[v])
    BY <1>2, <1>5, <1>6, CredentialObeys
  <1> HIDE DEF d
  <1>8. RowsOwned(d.queue, by) /\ StreamOwned(d)
    BY <1>2, <1>7 DEF RowsOwned, StreamOwned
  <1> QED BY <1>1, <1>3, <1>7, <1>8, PerformOwned

\* A token opens the stream for the client's user.
LEMMA RunTokenOwned == ASSUME IInv, OInv, RunToken PROVE OInv'
  <1> DEFINE task == Head(worker)
             d == ResumeStartWithCredentials(client, task)
  <1>1. /\ worker # <<>> /\ task.kind = "token" /\ worker' = Tail(worker)
        /\ UNCHANGED <<main, account, credentials, by>>
        /\ IF Stale(client, task.closes) THEN UNCHANGED <<client, asking>> ELSE Perform(d)
    BY DEF RunToken
  <1>2. /\ client \in Client /\ Shaped(client) /\ client.user \in Users /\ worker \in Seq(Task)
        /\ WorkerOwned(worker, client.user, by, credentials.user)
        /\ RowsOwned(client.queue, by) /\ StreamOwned(client) /\ MainOwned
    BY Known
  <1>3. TaskFor(task, by, client.user)
        /\ WorkerOwned(worker', client.user, by, credentials.user)
    BY <1>1, <1>2, TakeOwned
  <1>4. CASE Stale(client, task.closes)
    <2>1. UNCHANGED <<client, asking>>
      BY <1>1, <1>4
    <2>2. MainOwned'
      BY <1>1, <1>2, <2>1 DEF MainOwned
    <2> QED BY <1>1, <1>2, <1>3, <2>1, <2>2 DEF OInv
  <1>5. CASE ~Stale(client, task.closes)
    <2>1. Perform(d)
      BY <1>1, <1>5
    <2>2. CASE task.user = NoUser
      <3> DEFINE e == HardAssert(client, client.stream.state = "Starting")
      <3>1. d = Close(e, "transient")
        BY <2>2 DEF ResumeStartWithCredentials
      <3>2. Obeys(client, e)
        BY <1>2, AssertObeys
      <3> HIDE DEF e, task
      <3>3. Obeys(e, d)
        BY <3>1, <3>2, CloseObeys DEF Obeys
      <3> HIDE DEF d
      <3>4. Obeys(client, d)
        BY <3>2, <3>3, ObeysBoth
      <3> QED BY <1>1, <1>3, <2>1, <3>4, ObeysOwned
    <2>3. CASE task.user # NoUser
      <3>1. d = WriteHandshake(Open(client, task.user)) /\ task.user = client.user
        BY <1>1, <1>3, <2>3 DEF ResumeStartWithCredentials, TaskFor
      <3>2. client.stream.state = "Starting"
        <4>1. task.closes \in AllCloses(asking, main, worker)
          BY <1>1, TakeFits
        <4> QED BY <1>5, <4>1 DEF IInv, TokensFit, Waits, Stale
      <3>3. client.stream.up = <<>>
        BY <3>2 DEF IInv, Sound, Sane, StreamSane, IsOpen
      <3> HIDE DEF d, task
      <3>4. /\ Shaped(d) /\ d.user = client.user /\ d.queue = client.queue
            /\ d.stream.token = client.user /\ d.stream.up = <<Handshake>>
        BY <1>2, <3>1, <3>3, OpenOwned
      <3>5. \A i \in 1..Len(d.stream.up) : d.stream.up[i] = Handshake
        BY <3>4 DEF Handshake
      <3>6. RowsOwned(d.queue, by) /\ StreamOwned(d)
        BY <1>2, <3>4, <3>5 DEF StreamOwned
      <3> QED BY <1>1, <1>3, <2>1, <3>4, <3>6, PerformOwned
    <2> QED BY <2>2, <2>3
  <1> QED BY <1>4, <1>5

\* The backend takes a request: the rest of them are still the handshake or
\* the writes.
LEMMA BackendHandlesOwned == ASSUME IInv, OInv, BackendHandles PROVE OInv'
  <1> DEFINE s == client.stream
             w == Head(s.up)
             up == Tail(s.up)
             down == Append(s.down, [write |-> w, ok |-> w \notin Refused])
  <1>1. /\ s.up # <<>> /\ client' = [client EXCEPT !.stream.up = up, !.stream.down = down]
        /\ UNCHANGED <<worker, main, account, credentials, asking, by>>
    BY DEF BackendHandles
  <1>2. /\ client \in Client /\ Shaped(client) /\ StreamOwned(client) /\ MainOwned
        /\ WorkerOwned(worker, client.user, by, credentials.user)
        /\ RowsOwned(client.queue, by) /\ s.up \in Seq(Nat)
    BY Known DEF Client, StreamType
  <1>3. /\ Len(up) = Len(s.up) - 1 /\ Len(s.up) \in Nat
        /\ \A i \in 1..Len(up) : up[i] = s.up[i + 1]
    BY <1>1, <1>2, TailFacts
  <1> HIDE DEF up, down
  <1>4. /\ client'.user = client.user /\ client'.queue = client.queue
        /\ client'.handshake = client.handshake
        /\ client'.stream.state = s.state /\ client'.stream.token = s.token
        /\ client'.stream.up = up
    BY <1>1, <1>2 DEF Shaped
  <1>5. StreamOwned(client')
    <2>1. \A i \in 1..Len(up) : i + 1 \in 1..Len(s.up)
      BY <1>3
    <2> QED BY <1>2, <1>3, <1>4, <2>1 DEF StreamOwned, IsOpen
  <1>6. MainOwned'
    BY <1>1, <1>2 DEF MainOwned
  <1> QED BY <1>1, <1>2, <1>4, <1>5, <1>6 DEF OInv

\* The app makes a write for the provider's user, the last on the worker queue.
LEMMA AppWritesOwned == ASSUME IInv, OInv, AppWrites PROVE OInv'
  <1> DEFINE task == [kind |-> "write", write |-> Len(by) + 1]
  <1>1. /\ by' = Append(by, credentials.user) /\ worker' = Append(worker, task)
        /\ UNCHANGED <<client, main, account, credentials, asking>>
    BY DEF AppWrites
  <1>2. /\ worker \in Seq(Task) /\ by \in Seq(Users) /\ credentials.user \in Users
        /\ client.user \in Users /\ WorkerOwned(worker, client.user, by, credentials.user)
        /\ RowsOwned(client.queue, by) /\ StreamOwned(client) /\ MainOwned
    BY Known
  <1>3. /\ Len(by) \in Nat /\ Len(by) + 1 \in 1..Len(by')
        /\ by'[Len(by) + 1] = credentials.user
        /\ WorkerOwned(worker, client.user, by', credentials.user)
        /\ RowsOwned(client.queue, by')
    <2> DEFINE more == by'
    <2>1. more = Append(by, credentials.user)
      BY <1>1
    <2> HIDE DEF more
    <2>2. /\ Len(by) \in Nat /\ Len(more) = Len(by) + 1
          /\ Len(by) + 1 \in 1..Len(more) /\ more[Len(by) + 1] = credentials.user
          /\ WorkerOwned(worker, client.user, more, credentials.user)
          /\ RowsOwned(client.queue, more)
      <3>1. /\ Len(by) \in Nat /\ Len(more) = Len(by) + 1
            /\ Len(by) + 1 \in 1..Len(more) /\ more[Len(by) + 1] = credentials.user
        BY <1>2, <2>1, MoreWrites
      <3>2. \A q, u, last : WorkerOwned(q, u, by, last) => WorkerOwned(q, u, more, last)
        BY <1>2, <2>1, MoreWrites
      <3>3. \A queue : RowsOwned(queue, by) => RowsOwned(queue, more)
        BY <1>2, <2>1, MoreWrites
      <3> QED BY <1>2, <3>1, <3>2, <3>3
    <2> QED BY <2>2 DEF more
  <1>4. /\ task \in Task /\ task.kind = "write" /\ TaskFor(task, by', credentials.user)
    BY <1>3 DEF Task, TaskFor
  <1> HIDE DEF task
  <1>5. WorkerOwned(worker', client.user, by', credentials.user)
    BY <1>1, <1>2, <1>3, <1>4, JoinOwned
  <1>6. MainOwned'
    BY <1>1, <1>2 DEF MainOwned
  <1> QED BY <1>1, <1>2, <1>3, <1>5, <1>6 DEF OInv

\* What the main queue's invariant says when a block joins it.
LEMMA JoinMain ==
    ASSUME NEW q \in Seq(Block), NEW block \in Block, NEW more, more = Append(q, block),
           NEW answer, NEW k \in 1..(Len(q) + 1)
    PROVE  /\ Longer(more, q, block)
           /\ Calm(more, k) => Calm(q, k)
           /\ block.kind = "notify" => ~Calm(more, Len(more) + 1)
           /\ Calm(more, Len(more) + 1) => Calm(q, Len(q) + 1)
  <1>1. Longer(more, q, block)
    BY AppendLonger
  <1>2. /\ Len(q) \in Nat /\ Len(more) = Len(q) + 1 /\ more[Len(q) + 1] = block
        /\ \A i \in 1..Len(q) : more[i] = q[i]
        /\ (Len(q) + 1) - 1 = Len(q) /\ (Len(more) + 1) - 1 = Len(more)
        /\ \A i \in 1..(k - 1) : i \in 1..Len(q)
        /\ Len(more) \in 1..Len(more)
        /\ \A i \in 1..Len(q) : i \in 1..Len(more)
    BY <1>1 DEF Longer
  <1> QED BY <1>1, <1>2 DEF Calm

\* A change of account: it will be the last notification on the main queue.
LEMMA AccountChangesOwned ==
    ASSUME IInv, OInv, NEW u \in Users, AccountChanges(u) PROVE OInv'
  <1> DEFINE block == [kind |-> "notify", user |-> u]
  <1>1. /\ account' = u /\ main' = Append(main, block)
        /\ UNCHANGED <<client, worker, credentials, asking, by>>
    BY DEF AccountChanges
  <1>2. main \in Seq(Block) /\ MainOwned
    BY Known
  <1>3. block \in Block /\ block.kind = "notify" /\ block.user = u
    BY DEF Block
  <1> HIDE DEF block
  <1>4. /\ Longer(main', main, block) /\ ~Calm(main', Len(main') + 1)
        /\ \A k \in 1..(Len(main) + 1) : Calm(main', k) => Calm(main, k)
    <2>1. Len(main) \in Nat /\ Len(main) + 1 \in 1..(Len(main) + 1)
      BY <1>2
    <2> QED BY <1>1, <1>2, <1>3, <2>1, JoinMain
  <1>5. /\ Len(main) \in Nat /\ Len(main') = Len(main) + 1
        /\ main'[Len(main) + 1] = block
        /\ \A k \in 1..Len(main) : main'[k] = main[k] /\ k \in 1..(Len(main) + 1)
        /\ \A k \in 1..Len(main') : k \in 1..Len(main) \/ k = Len(main) + 1
    BY <1>4 DEF Longer
  <1>6. \A x \in Users :
            InEffect("notify", main', Len(main') + 1, credentials.user, x) => x = account'
    <2> TAKE x \in Users
    <2> HAVE InEffect("notify", main', Len(main') + 1, credentials.user, x)
    <2>1. IF block.kind = "notify" THEN x = block.user
          ELSE InEffect("notify", main, Len(main) + 1, credentials.user, x)
      BY <1>4, LastEffect
    <2> QED BY <1>1, <1>3, <2>1
  <1>7. ASSUME NEW k \in 1..Len(main'), main'[k].kind = "token"
        PROVE  AnswerOwned(main'[k], main', k, credentials')
    <2>1. k \in 1..Len(main) /\ main'[k] = main[k]
      BY <1>3, <1>5, <1>7
    <2>2. AnswerOwned(main[k], main, k, credentials)
      BY <1>2, <1>7, <2>1 DEF MainOwned
    <2> QED BY <1>1, <1>4, <1>5, <2>1, <2>2 DEF AnswerOwned
  <1>8. ASSUME NEW ask \in asking' PROVE AnswerOwned(ask, main', Len(main') + 1, credentials')
    <2>1. AnswerOwned(ask, main, Len(main) + 1, credentials)
      BY <1>1, <1>2, <1>8 DEF MainOwned
    <2> QED BY <1>1, <1>4, <2>1 DEF AnswerOwned
  <1>9. MainOwned'
    BY <1>1, <1>6, <1>7, <1>8 DEF MainOwned
  <1> QED BY <1>1, <1>9 DEF OInv

\* FIRAuth takes up a call: with no notification waiting, its user is the provider's.
LEMMA AuthTakesCallOwned ==
    ASSUME IInv, OInv, NEW ask \in asking, AuthTakesCall(ask) PROVE OInv'
  <1> DEFINE taken == [ask EXCEPT !.user = account]
             last == Len(main) + 1
  <1>1. /\ asking' = (asking \ {ask}) \cup {taken}
        /\ UNCHANGED <<client, worker, main, account, credentials, by>>
    BY DEF AuthTakesCall
  <1>2. /\ MainOwned /\ main \in Seq(Block) /\ credentials.user \in Users /\ ask \in Ticket
    BY Known DEF IInv, Typed
  <1>3. taken.counter = ask.counter /\ taken.user = account
    BY <1>2 DEF Ticket
  <1>4. Calm(main, last) => account = credentials.user
    BY <1>2 DEF MainOwned, InEffect, Calm
  <1>5. AnswerOwned(ask, main, last, credentials)
    BY <1>2 DEF MainOwned
  <1> HIDE DEF taken
  <1>6. AnswerOwned(taken, main, last, credentials)
    BY <1>3, <1>4, <1>5 DEF AnswerOwned
  <1>7. \A a \in asking' : AnswerOwned(a, main, last, credentials)
    BY <1>1, <1>2, <1>6 DEF MainOwned
  <1>8. MainOwned'
    BY <1>1, <1>2, <1>7 DEF MainOwned
  <1> QED BY <1>1, <1>8 DEF OInv

\* FIRAuth answers a call, with the token it took it up for or with none.
LEMMA AuthAnswersOwned ==
    ASSUME IInv, OInv, NEW ask \in asking, NEW token \in Users \cup {NoUser},
           token \in {NoUser, ask.user}, AuthAnswers(ask, token)
    PROVE  OInv'
  <1> DEFINE block == [kind |-> "token", closes |-> ask.closes,
                       counter |-> ask.counter, user |-> token]
  <1>1. /\ main' = Append(main, block) /\ asking' = asking \ {ask}
        /\ UNCHANGED <<client, worker, account, credentials, by>>
    BY DEF AuthAnswers
  <1>2. main \in Seq(Block) /\ MainOwned /\ ask \in Ticket
    BY Known DEF IInv, Typed
  <1>3. /\ block \in Block /\ block.kind = "token" /\ block.counter = ask.counter
        /\ block.user = token
    BY <1>2 DEF Block, Ticket
  <1> HIDE DEF block
  <1>4. /\ Longer(main', main, block)
        /\ Calm(main', Len(main') + 1) => Calm(main, Len(main) + 1)
        /\ \A k \in 1..(Len(main) + 1) : Calm(main', k) => Calm(main, k)
    <2>1. Len(main) \in Nat /\ Len(main) + 1 \in 1..(Len(main) + 1)
      BY <1>2
    <2> QED BY <1>1, <1>2, <1>3, <2>1, JoinMain
  <1>5. /\ Len(main) \in Nat /\ Len(main') = Len(main) + 1
        /\ main'[Len(main) + 1] = block
        /\ \A k \in 1..Len(main) : main'[k] = main[k] /\ k \in 1..(Len(main) + 1)
        /\ \A k \in 1..Len(main') : k \in 1..Len(main) \/ k = Len(main) + 1
        /\ Len(main) + 1 \in 1..(Len(main) + 1)
    BY <1>4 DEF Longer
  <1>6. \A x \in Users :
            InEffect("notify", main', Len(main') + 1, credentials.user, x) => x = account'
    BY <1>1, <1>2, <1>3, <1>4, LastEffect DEF MainOwned
  <1>7. AnswerOwned(ask, main, Len(main) + 1, credentials)
    BY <1>2 DEF MainOwned
  <1>8. ASSUME NEW k \in 1..Len(main'), main'[k].kind = "token"
        PROVE  AnswerOwned(main'[k], main', k, credentials')
    <2>1. CASE k \in 1..Len(main)
      <3>1. AnswerOwned(main[k], main, k, credentials)
        BY <1>2, <1>5, <1>8, <2>1 DEF MainOwned
      <3> QED BY <1>1, <1>4, <1>5, <2>1, <3>1 DEF AnswerOwned
    <2>2. CASE k = Len(main) + 1
      BY <1>1, <1>3, <1>4, <1>5, <1>7, <2>2 DEF AnswerOwned
    <2> QED BY <1>5, <2>1, <2>2
  <1>9. ASSUME NEW a \in asking' PROVE AnswerOwned(a, main', Len(main') + 1, credentials')
    <2>1. AnswerOwned(a, main, Len(main) + 1, credentials)
      BY <1>1, <1>2, <1>9 DEF MainOwned
    <2> QED BY <1>1, <1>4, <2>1 DEF AnswerOwned
  <1>10. MainOwned'
    BY <1>1, <1>6, <1>8, <1>9 DEF MainOwned
  <1> QED BY <1>1, <1>10 DEF OInv

\* What the main queue's invariant says when its head has run.
LEMMA TakeMain ==
    ASSUME NEW q \in Seq(Block), q # <<>>, NEW rest, rest = Tail(q)
    PROVE  /\ Shorter(rest, q) /\ Head(q) = q[1] /\ Head(q) \in Block
           /\ 1 \in 1..Len(q) /\ Calm(q, 1)
           /\ Len(rest) + 1 = Len(q) /\ Len(q) \in 1..Len(q)
           /\ \A k \in 1..Len(q) : q[1].kind # "notify" /\ Calm(rest, k) => Calm(q, k + 1)
           /\ \A k \in 1..Len(rest) :
                  rest[k] = q[k + 1] /\ k \in 1..Len(q) /\ k + 1 \in 1..Len(q)
  <1>1. Shorter(rest, q) /\ Head(q) = q[1] /\ Head(q) \in Block
    BY TailShorter
  <1>2. /\ Len(q) \in Nat /\ Len(q) >= 1 /\ Len(rest) + 1 = Len(q) /\ Len(q) \in 1..Len(q)
        /\ \A k \in 1..Len(rest) :
               rest[k] = q[k + 1] /\ k \in 1..Len(q) /\ k + 1 \in 1..Len(q)
    BY <1>1 DEF Shorter
  <1>3. ASSUME NEW k \in 1..Len(q), q[1].kind # "notify", Calm(rest, k)
        PROVE  Calm(q, k + 1)
    <2>1. \A i \in 1..((k + 1) - 1) : i = 1 \/ (i - 1 \in 1..(k - 1) /\ (i - 1) + 1 = i)
      BY <1>2
    <2>2. \A j \in 1..(k - 1) : j \in 1..Len(rest)
      BY <1>2
    <2> QED BY <1>2, <1>3, <2>1, <2>2 DEF Calm
  <1>4. 1 \in 1..Len(q) /\ Calm(q, 1)
    BY <1>2 DEF Calm
  <1> QED BY <1>1, <1>2, <1>3, <1>4

\* The provider is notified: calls made before it will be asked again.
LEMMA CredentialsNotifiedOwned == ASSUME IInv, OInv, CredentialsNotified PROVE OInv'
  <1> DEFINE u == Head(main).user
             task == [kind |-> "credential", user |-> u]
             rest == Tail(main)
  <1>1. /\ main # <<>> /\ Head(main).kind = "notify" /\ main' = rest
        /\ credentials' = [user |-> u, counter |-> credentials.counter + 1]
        /\ worker' = Append(worker, task)
        /\ UNCHANGED <<client, account, asking, by>>
    BY DEF CredentialsNotified
  <1>2. /\ main \in Seq(Block) /\ worker \in Seq(Task) /\ client.user \in Users
        /\ WorkerOwned(worker, client.user, by, credentials.user) /\ MainOwned
        /\ credentials.counter \in Nat
    BY Known
  <1>3. /\ Shorter(rest, main) /\ Head(main) = main[1] /\ Head(main) \in Block
        /\ Len(rest) + 1 = Len(main) /\ Len(main) \in 1..Len(main)
        /\ \A k \in 1..Len(rest) :
               rest[k] = main[k + 1] /\ k \in 1..Len(main) /\ k + 1 \in 1..Len(main)
    BY <1>1, <1>2, TakeMain
  <1>4. u \in Users
    BY <1>1, <1>3 DEF Block
  <1>5. u = main[1].user /\ main[1].kind = "notify"
    BY <1>1, <1>3
  <1> HIDE DEF u, rest
  <1>6. task \in Task /\ task.kind = "credential" /\ task.user = u
    BY <1>4 DEF Task
  <1> HIDE DEF task
  <1>7. WorkerOwned(worker', client.user, by, u)
    <2>1. TaskFor(task, by, credentials.user)
      BY <1>6 DEF TaskFor
    <2> QED BY <1>1, <1>2, <1>6, <2>1, JoinOwned
  <1>8. credentials'.user = u /\ credentials'.counter = credentials.counter + 1
    BY <1>1
  <1>9. ASSUME NEW x \in Users, InEffect("notify", rest, Len(rest) + 1, u, x)
        PROVE  x = account
    <2>1. u = IF main[1].kind = "notify" THEN main[1].user ELSE credentials.user
      BY <1>5
    <2>2. InEffect("notify", rest, Len(main), u, x)
      BY <1>3, <1>9
    <2>3. InEffect("notify", main, Len(main) + 1, credentials.user, x)
      BY <1>3, <2>1, <2>2, TailEffect
    <2> QED BY <1>2, <2>3 DEF MainOwned
  <1>10. \A answer, q, r, k, n :
             AnswerOwned(answer, q, k, credentials) /\ answer.counter \in Nat =>
                 AnswerOwned(answer, r, n, credentials')
    BY <1>2, <1>8 DEF AnswerOwned
  <1>11. ASSUME NEW k \in 1..Len(rest), rest[k].kind = "token"
         PROVE  AnswerOwned(rest[k], rest, k, credentials')
    <2>1. AnswerOwned(main[k + 1], main, k + 1, credentials)
      BY <1>2, <1>3, <1>11 DEF MainOwned
    <2>2. main[k + 1] \in Block /\ rest[k] = main[k + 1]
      BY <1>2, <1>3
    <2>3. rest[k].counter \in Nat
      BY <1>11, <2>2 DEF Block
    <2> QED BY <1>10, <2>1, <2>2, <2>3
  <1>12. ASSUME NEW ask \in asking
         PROVE  AnswerOwned(ask, rest, Len(rest) + 1, credentials')
    <2>1. AnswerOwned(ask, main, Len(main) + 1, credentials)
      BY <1>2 DEF MainOwned
    <2>2. ask.counter \in Nat
      BY DEF IInv, Typed, Ticket
    <2> QED BY <1>10, <2>1, <2>2
  <1>13. MainOwned'
    BY <1>1, <1>8, <1>9, <1>11, <1>12 DEF MainOwned
  <1> QED BY <1>1, <1>7, <1>8, <1>13 DEF OInv

\* The provider passes an answer on, or asks again.
LEMMA TokenAnsweredOwned == ASSUME IInv, OInv, TokenAnswered PROVE OInv'
  <1> DEFINE answer == Head(main)
             rest == Tail(main)
             task == [kind |-> "token", closes |-> answer.closes, user |-> answer.user]
  <1>1. /\ main # <<>> /\ answer.kind = "token" /\ main' = rest
        /\ UNCHANGED <<client, account, credentials, by>>
        /\ IF answer.counter # credentials.counter
           THEN asking' = asking \cup {Ask(answer.closes)} /\ UNCHANGED worker
           ELSE worker' = Append(worker, task) /\ UNCHANGED asking
    BY DEF TokenAnswered
  <1>2. /\ main \in Seq(Block) /\ worker \in Seq(Task) /\ client.user \in Users
        /\ WorkerOwned(worker, client.user, by, credentials.user) /\ MainOwned
        /\ credentials.counter \in Nat
    BY Known
  <1>3. /\ Shorter(rest, main) /\ answer = main[1] /\ answer \in Block
        /\ 1 \in 1..Len(main) /\ Calm(main, 1)
        /\ Len(rest) + 1 = Len(main) /\ Len(main) \in 1..Len(main)
        /\ \A k \in 1..Len(main) : main[1].kind # "notify" /\ Calm(rest, k) => Calm(main, k + 1)
        /\ \A k \in 1..Len(rest) :
               rest[k] = main[k + 1] /\ k \in 1..Len(main) /\ k + 1 \in 1..Len(main)
    BY <1>1, <1>2, TakeMain
  <1>4. WorkerOwned(worker', client.user, by, credentials.user)
    <2>1. CASE answer.counter # credentials.counter
      BY <1>1, <1>2, <2>1
    <2>2. CASE answer.counter = credentials.counter
      <3>1. answer.user \in {NoUser, credentials.user}
        BY <1>1, <1>2, <1>3, <2>2 DEF MainOwned, AnswerOwned
      <3>2. task \in Task
        BY <1>1, <1>3 DEF Block, Task
      <3>3. task.kind = "token" /\ TaskFor(task, by, credentials.user)
        BY <3>1 DEF TaskFor
      <3>4. worker' = Append(worker, task)
        BY <1>1, <2>2
      <3> HIDE DEF task
      <3>5. credentials.user = IF task.kind = "credential" THEN task.user ELSE credentials.user
        BY <3>3
      <3> QED BY <1>2, <3>2, <3>3, <3>4, <3>5, JoinOwned
    <2> QED BY <2>1, <2>2
  <1>5. main[1].kind # "notify"
    BY <1>1, <1>3
  <1> HIDE DEF rest, answer
  <1>6. ASSUME NEW x \in Users, InEffect("notify", rest, Len(rest) + 1, credentials.user, x)
        PROVE  x = account
    <2>1. credentials.user = IF main[1].kind = "notify" THEN main[1].user ELSE credentials.user
      BY <1>5
    <2>2. InEffect("notify", rest, Len(main), credentials.user, x)
      BY <1>3, <1>6
    <2>3. InEffect("notify", main, Len(main) + 1, credentials.user, x)
      BY <1>3, <2>1, <2>2, TailEffect
    <2> QED BY <1>2, <2>3 DEF MainOwned
  <1>7. ASSUME NEW k \in 1..Len(rest), rest[k].kind = "token"
        PROVE  AnswerOwned(rest[k], rest, k, credentials)
    <2>1. AnswerOwned(main[k + 1], main, k + 1, credentials)
      BY <1>2, <1>3, <1>7 DEF MainOwned
    <2> QED BY <1>3, <1>5, <2>1 DEF AnswerOwned
  <1>8. ASSUME NEW ask \in asking'
        PROVE  AnswerOwned(ask, rest, Len(rest) + 1, credentials)
    <2>1. CASE ask \in asking
      <3>1. AnswerOwned(ask, main, Len(main) + 1, credentials)
        BY <1>2, <2>1 DEF MainOwned
      <3> QED BY <1>3, <1>5, <3>1 DEF AnswerOwned
    <2>2. CASE ask = Ask(answer.closes)
      BY <1>2, <2>2 DEF AnswerOwned, Ask
    <2> QED BY <1>1, <1>8, <2>1, <2>2
  <1>9. MainOwned'
    BY <1>1, <1>6, <1>7, <1>8 DEF MainOwned
  <1> QED BY <1>1, <1>2, <1>4, <1>9 DEF OInv

\* On empty queues the user in effect is the one they start with.
LEMMA NothingWaits ==
    ASSUME NEW owners, NEW u
    PROVE  WorkerOwned(<<>>, u, owners, u)
           /\ \A x : InEffect("notify", <<>>, Len(<<>>) + 1, u, x) => x = u
  <1>1. \A kind, x : InEffect(kind, <<>>, Len(<<>>) + 1, u, x) => x = u
    BY DEF InEffect
  <1> QED BY <1>1 DEF WorkerOwned

\* The app dies and starts with FIRAuth's user and empty queues of tasks.
LEMMA CrashOwned == ASSUME IInv, OInv, Crash PROVE OInv'
  <1> DEFINE d == Boot(client.queue, account, client.told)
             first == [closes |-> 0, counter |-> 0, user |-> NoUser]
  <1>1. /\ client' = [d EXCEPT !.stream.asked = FALSE] /\ worker' = <<>> /\ main' = <<>>
        /\ asking' = IF d.stream.asked THEN {first} ELSE {}
        /\ credentials' = [user |-> account, counter |-> 0]
        /\ UNCHANGED <<account, by>>
    BY DEF Crash
  <1>2. /\ client.queue \in [Users -> Seq(Batch)] /\ account \in Users
        /\ RowsOwned(client.queue, by)
    BY Known DEF Client
  <1>3. /\ Shaped(d) /\ d.user = account /\ ~IsOpen(d.stream)
        /\ \A v \in Users : RowsOf(d.queue[v]) \subseteq RowsOf(client.queue[v])
    <2> DEFINE queue == client.queue
               told == client.told
    <2>1. d = Boot(queue, account, told) /\ queue \in [Users -> Seq(Batch)]
      BY <1>2
    <2> HIDE DEF d, queue, told
    <2>2. /\ Shaped(d) /\ d.user = account /\ ~IsOpen(d.stream)
          /\ \A v \in Users : RowsOf(d.queue[v]) \subseteq RowsOf(queue[v])
      BY <1>2, <2>1, BootOwned
    <2> QED BY <2>2 DEF queue
  <1> HIDE DEF d
  <1>4. /\ client'.user = account /\ client'.queue = d.queue
        /\ client'.stream.state = d.stream.state
    BY <1>1, <1>3 DEF Shaped
  <1>5. RowsOwned(client'.queue, by') /\ StreamOwned(client')
    BY <1>1, <1>2, <1>3, <1>4 DEF RowsOwned, StreamOwned, IsOpen
  <1>6. credentials'.user = account /\ credentials'.counter = 0
    BY <1>1
  <1>7. WorkerOwned(worker', client'.user, by', credentials'.user)
    BY <1>1, <1>4, <1>6, NothingWaits
  <1>8. \A ask \in asking' : ask.counter = 0 /\ ask.user = NoUser
    BY <1>1
  <1>9. MainOwned'
    <2>1. ~\E k \in 1..Len(main') : TRUE
      BY <1>1
    <2>2. \A x \in Users :
              InEffect("notify", main', Len(main') + 1, credentials'.user, x) => x = account'
      BY <1>1, <1>6, NothingWaits
    <2>3. \A ask \in asking' : AnswerOwned(ask, main', Len(main') + 1, credentials')
      BY <1>6, <1>8 DEF AnswerOwned
    <2> QED BY <2>1, <2>2, <2>3 DEF MainOwned
  <1> QED BY <1>5, <1>7, <1>9 DEF OInv

\* The app starts for the first time.
LEMMA InitOwned == ASSUME Init PROVE OInv
  <1> DEFINE queue == [u \in Users |-> <<>>]
             told == [w \in Writes |-> "no"]
  <1>1. /\ client = Boot(queue, account, told) /\ worker = <<>> /\ main = <<>>
        /\ asking = {} /\ credentials = [user |-> account, counter |-> 0]
        /\ account \in Users
    BY DEF Init
  <1>2. queue \in [Users -> Seq(Batch)] /\ \A u \in Users : RowsOf(queue[u]) = {}
    BY DEF RowsOf
  <1> HIDE DEF queue, told
  <1>3. /\ client.user = account /\ ~IsOpen(client.stream)
        /\ \A v \in Users : RowsOf(client.queue[v]) \subseteq RowsOf(queue[v])
    <2>1. queue \in [Users -> Seq(Batch)]
      BY <1>2
    <2>2. /\ client.user = account /\ ~IsOpen(client.stream)
          /\ \A v \in Users : RowsOf(client.queue[v]) \subseteq RowsOf(queue[v])
      BY <1>1, <2>1, BootOwned
    <2> QED BY <2>2
  <1>4. RowsOwned(client.queue, by) /\ StreamOwned(client)
    BY <1>2, <1>3 DEF RowsOwned, StreamOwned
  <1>5. credentials.user = account
    BY <1>1
  <1>6. WorkerOwned(worker, client.user, by, credentials.user)
    BY <1>1, <1>3, <1>5, NothingWaits
  <1>7. MainOwned
    <2>1. ~\E k \in 1..Len(main) : TRUE
      BY <1>1
    <2>2. \A x \in Users :
              InEffect("notify", main, Len(main) + 1, credentials.user, x) => x = account
      BY <1>1, <1>5, NothingWaits
    <2> QED BY <1>1, <2>1, <2>2 DEF MainOwned
  <1> QED BY <1>4, <1>6, <1>7 DEF OInv

\* Every step keeps the invariant.
LEMMA StepOwned == ASSUME IInv, OInv, [Next]_vars PROVE OInv'
  <1>1. CASE \E ask \in asking : AuthTakesCall(ask)
    BY <1>1, AuthTakesCallOwned
  <1>2. CASE \E ask \in asking : AuthGivesToken(ask) \/ AuthFails(ask)
    <2>1. PICK ask \in asking : AuthGivesToken(ask) \/ AuthFails(ask)
      BY <1>2
    <2>2. ask.user \in Users \cup {NoUser}
      BY DEF IInv, Typed, Ticket
    <2>3. PICK token \in {NoUser, ask.user} : AuthAnswers(ask, token)
      BY <2>1 DEF AuthGivesToken, AuthFails
    <2> QED BY <2>2, <2>3, AuthAnswersOwned
  <1>3. CASE CredentialsNotified \/ TokenAnswered
    BY <1>3, CredentialsNotifiedOwned, TokenAnsweredOwned
  <1>4. CASE RunWrite \/ RunCredentialChange \/ RunToken
    BY <1>4, RunWriteOwned, RunCredentialChangeOwned, RunTokenOwned
  <1>5. CASE BackendHandles
    BY <1>5, BackendHandlesOwned
  <1>6. CASE \/ RunBackoff \/ RunIdle \/ RunAnswer \/ StreamBreaks
             \/ ConnectivityChanges \/ DisableNetwork \/ EnableNetwork
    BY <1>6, LoneOwned
  <1>7. CASE AppWrites
    BY <1>7, AppWritesOwned
  <1>8. CASE \E u \in Users : AccountChanges(u)
    BY <1>8, AccountChangesOwned
  <1>9. CASE Crash
    BY <1>9, CrashOwned
  <1>10. CASE UNCHANGED vars
    BY <1>10 DEF vars, OInv, MainOwned
  <1> QED BY <1>1, <1>2, <1>3, <1>4, <1>5, <1>6, <1>7, <1>8, <1>9, <1>10 DEF Next, Works

-----------------------------------------------------------------------------
(* The theorem. *)

\* A place after the first a.
LEMMA After ==
    ASSUME NEW a \in Nat, NEW b \in Nat, NEW i \in 1..b, NEW n, a + b = n
    PROVE  a + i \in 1..n
  OBVIOUS

\* A write only goes out with the token of the user it was made for, for any
\* accounts and any order of sign-ins, token refreshes, answers and restarts.
THEOREM WritesSentAsOwner == Spec => []SentAsOwner
  <1>1. ASSUME IInv, OInv PROVE SentAsOwner
    <2> DEFINE s == client.stream
               rows == client.queue[client.user]
    <2> SUFFICES ASSUME NEW i \in 1..Len(s.up), s.up[i] # Handshake
                 PROVE  s.token = by[s.up[i]]
      BY DEF SentAsOwner
    <2>1. /\ client \in Client /\ s.up \in Seq(Nat) /\ s.down \in Seq(Answer)
          /\ client.pipeline \in Seq(Batch) /\ rows \in Seq(Batch) /\ client.user \in Users
      BY <1>1, Known DEF Client, StreamType
    <2>2. IsOpen(s)
      <3>1. s.up # <<>>
        BY <2>1
      <3> QED BY <1>1, <3>1 DEF IInv, Sound, Sane, StreamSane
    <2>3. s.token = client.user /\ client.handshake
      BY <1>1, <2>2 DEF OInv, StreamOwned
    <2>4. Matches(s.down, s.up, client.pipeline)
      BY <1>1, <2>2, <2>3 DEF IInv, Sound, Sane, OnWire
    <2>5. Heads(client.pipeline, rows)
      BY <1>1 DEF IInv, Sound, Prefixed
    <2> DEFINE k == Len(s.down) + i
    <2>6. k \in 1..Len(client.pipeline) /\ s.up[i] = client.pipeline[k].write
      <3>5. i \in 1..Len(s.up)
        OBVIOUS
      <3> HIDE DEF s
      <3>1. Len(s.down) \in Nat /\ Len(s.up) \in Nat
        BY <2>1
      <3>2. Len(s.down) + Len(s.up) = Len(client.pipeline)
        BY <2>4 DEF Matches
      <3>3. s.up[i] = client.pipeline[Len(s.down) + i].write
        BY <2>4 DEF Matches
      <3>4. k \in 1..Len(client.pipeline)
        BY <3>1, <3>2, <3>5, After
      <3> QED BY <3>3, <3>4
    <2>7. k \in 1..Len(rows) /\ client.pipeline[k] = rows[k]
      BY <2>1, <2>5, <2>6 DEF Heads
    <2>8. rows[k] \in RowsOf(rows)
      BY <2>7 DEF RowsOf
    <2>9. by[rows[k].write] = client.user
      BY <1>1, <2>1, <2>8 DEF OInv, RowsOwned
    <2> QED BY <2>3, <2>6, <2>7, <2>9
  <1>2. Init => OInv
    BY InitOwned
  <1>3. IInv /\ IInv' /\ OInv /\ [Next]_vars => OInv'
    BY StepOwned
  <1> QED BY <1>1, <1>2, <1>3, Invariant, PTL DEF Spec

-----------------------------------------------------------------------------
(* What an operation leaves alone besides: the queues, the callbacks and    *)
(* what they were told.                                                     *)

\* d has what c has on disk and in its callbacks, and no answer that c has not.
Leaves(c, d) ==
    /\ Shaped(d) /\ d.user = c.user /\ d.queue = c.queue
    /\ d.callbacks = c.callbacks /\ d.told = c.told /\ d.fresh = c.fresh
    /\ RowsOf(d.stream.down) \subseteq RowsOf(c.stream.down)

\* Nothing done leaves all alone.
LEMMA ItselfLeaves == ASSUME NEW c, Shaped(c) PROVE Leaves(c, c)
  BY DEF Leaves

\* Two such steps are one.
LEMMA BothLeave ==
    ASSUME NEW c, NEW d, NEW e, Leaves(c, d), Leaves(d, e) PROVE Leaves(c, e)
  BY DEF Leaves

\* A change of the stream, in which no answer joins.
LEMMA StreamLeaves ==
    ASSUME NEW c, Shaped(c), NEW stream, DOMAIN stream = DOMAIN c.stream,
           RowsOf(stream.down) \subseteq RowsOf(c.stream.down),
           NEW d, d = [c EXCEPT !.stream = stream]
    PROVE  Leaves(c, d)
  BY DEF Shaped, Leaves

\* A change of the pipeline, the network or the handshake.
LEMMA OthersLeave ==
    ASSUME NEW c, Shaped(c), NEW x, NEW d,
           \/ d = [c EXCEPT !.pipeline = x] \/ d = [c EXCEPT !.network = x]
           \/ d = [c EXCEPT !.handshake = x] \/ d = [c EXCEPT !.failed = x]
    PROVE  Leaves(c, d) /\ d.stream = c.stream
  BY DEF Shaped, Leaves

\* A check.
LEMMA AssertLeaves ==
    ASSUME NEW c, Shaped(c), NEW holds, NEW d, d = HardAssert(c, holds)
    PROVE  Leaves(c, d) /\ d.stream = c.stream
  BY OthersLeave DEF HardAssert

\* The start of a stream.
LEMMA StartLeaves ==
    ASSUME NEW c, Shaped(c), NEW d, d = StartStream(c) PROVE Leaves(c, d)
  <1>1. CASE c.stream.state = "Error"
    BY <1>1 DEF StartStream, Shaped, Leaves
  <1>2. CASE c.stream.state = "Initial"
    BY <1>2 DEF StartStream, Shaped, Leaves
  <1>3. CASE c.stream.state # "Error" /\ c.stream.state # "Initial"
    <2>1. d = HardAssert(c, FALSE)
      BY <1>3 DEF StartStream
    <2> QED BY <2>1, AssertLeaves
  <1> QED BY <1>1, <1>2, <1>3

\* A backoff that is inhibited.
LEMMA InhibitLeaves ==
    ASSUME NEW c, Shaped(c), NEW d, d = InhibitBackoff(c) PROVE Leaves(c, d)
  <1> DEFINE e == HardAssert(c, ~IsStarted(c.stream))
  <1>1. Leaves(c, e)
    BY AssertLeaves
  <1>2. d = [e EXCEPT !.stream.state = "Initial"]
    BY DEF InhibitBackoff
  <1> HIDE DEF e
  <1>3. Leaves(e, d)
    BY <1>1, <1>2 DEF Shaped, Leaves
  <1> QED BY <1>1, <1>3, BothLeave

\* The idle timer.
LEMMA MarkIdleLeaves ==
    ASSUME NEW c, Shaped(c), NEW d, d = MarkIdle(c) PROVE Leaves(c, d)
  BY DEF MarkIdle, Shaped, Leaves

\* Requests that are sent.
LEMMA SendLeaves ==
    ASSUME NEW c, Shaped(c), NEW requests, NEW d, d = Send(c, requests)
    PROVE  Leaves(c, d)
  <1> DEFINE e == HardAssert(c, IsOpen(c.stream))
             stream == [e.stream EXCEPT !.idle = FALSE, !.up = @ \o requests]
  <1>1. Leaves(c, e)
    BY AssertLeaves
  <1>2. d = [e EXCEPT !.stream.idle = FALSE, !.stream.up = @ \o requests]
    BY DEF Send
  <1> HIDE DEF e
  <1>3. d = [e EXCEPT !.stream = stream]
    BY <1>1, <1>2 DEF Leaves, Shaped
  <1>4. DOMAIN stream = DOMAIN e.stream /\ stream.down = e.stream.down
    BY <1>1 DEF Leaves, Shaped
  <1> HIDE DEF stream
  <1>5. Leaves(e, d)
    BY <1>1, <1>3, <1>4, StreamLeaves DEF Leaves
  <1> QED BY <1>1, <1>5, BothLeave

\* Writes that are sent.
LEMMA SentLeaves ==
    ASSUME NEW c, Shaped(c), NEW batches, NEW d, d = WriteMutations(c, batches)
    PROVE  Leaves(c, d)
  <1>1. CASE batches = <<>>
    BY <1>1, ItselfLeaves DEF WriteMutations
  <1>2. CASE batches # <<>>
    <2> DEFINE e == HardAssert(c, c.handshake)
               requests == [i \in 1..Len(batches) |-> batches[i].write]
    <2>1. d = Send(e, requests)
      BY <1>2 DEF WriteMutations
    <2>2. Leaves(c, e)
      BY AssertLeaves
    <2> HIDE DEF e, requests
    <2>3. Leaves(e, d)
      BY <2>1, <2>2, SendLeaves DEF Leaves
    <2> QED BY <2>2, <2>3, BothLeave
  <1> QED BY <1>1, <1>2

\* A stream that is closed.
LEMMA CloseStreamLeaves ==
    ASSUME NEW c, Shaped(c), NEW status, NEW d, d = CloseStream(c, status)
    PROVE  Leaves(c, d)
  <1> DEFINE e == HardAssert(c, IsStarted(c.stream))
             state == IF status = "ok" THEN "Initial" ELSE "Error"
             stream == [e.stream EXCEPT !.idle = FALSE, !.backoff = FALSE,
                            !.closes = @ + 1, !.token = NoUser,
                            !.up = <<>>, !.down = <<>>, !.state = state]
  <1>1. Leaves(c, e)
    BY AssertLeaves
  <1>2. d = [e EXCEPT !.stream.idle = FALSE, !.stream.backoff = FALSE,
                      !.stream.closes = @ + 1, !.stream.token = NoUser,
                      !.stream.up = <<>>, !.stream.down = <<>>,
                      !.stream.state = state]
    BY DEF CloseStream
  <1> HIDE DEF e, state
  <1>3. d = [e EXCEPT !.stream = stream]
    BY <1>1, <1>2 DEF Leaves, Shaped
  <1>4. DOMAIN stream = DOMAIN e.stream /\ stream.down = <<>>
    BY <1>1 DEF Leaves, Shaped
  <1> HIDE DEF stream
  <1>5. RowsOf(stream.down) = {}
    BY <1>4 DEF RowsOf
  <1>6. Leaves(e, d)
    BY <1>1, <1>3, <1>4, <1>5, StreamLeaves DEF Leaves
  <1> QED BY <1>1, <1>6, BothLeave

\* A stream that is started when it is needed.
LEMMA IfNeededLeaves ==
    ASSUME NEW c, Shaped(c), NEW d, d = StartIfNeeded(c) PROVE Leaves(c, d)
  BY StartLeaves, ItselfLeaves DEF StartIfNeeded

\* The pipeline is filled.
LEMMA FillLeaves ==
    ASSUME NEW c, Shaped(c), NEW d, d = FillWritePipeline(c) PROVE Leaves(c, d)
  <1> DEFINE left == Left(c)
             taken == Taken(c)
             full == [c EXCEPT !.pipeline = @ \o taken]
             sent == IF IsOpen(c.stream) /\ c.handshake
                     THEN WriteMutations(full, taken) ELSE full
             idle == IF Len(left) < Room(c) /\ sent.pipeline = <<>>
                     THEN MarkIdle(sent) ELSE sent
  <1>1. d = StartIfNeeded(idle)
    BY Zenon DEF FillWritePipeline, Left, Taken, LastId
  <1> HIDE DEF left, taken
  <1>2. Leaves(c, full)
    BY DEF Shaped, Leaves
  <1> HIDE DEF full
  <1>3. Leaves(full, WriteMutations(full, taken))
    BY <1>2, SentLeaves DEF Leaves
  <1>4. Leaves(c, sent)
    BY <1>2, <1>3, BothLeave
  <1> HIDE DEF sent
  <1>5. Leaves(sent, MarkIdle(sent))
    BY <1>4, MarkIdleLeaves DEF Leaves
  <1>6. Leaves(c, idle)
    BY <1>4, <1>5, BothLeave
  <1> HIDE DEF idle
  <1>7. Leaves(idle, d)
    BY <1>1, <1>6, IfNeededLeaves DEF Leaves
  <1> QED BY <1>6, <1>7, BothLeave

\* A stream that ends without settling a write.
LEMMA CloseLeaves ==
    ASSUME NEW c, Shaped(c), NEW status,
           status # "permanent" \/ c.pipeline = <<>> \/ ~c.handshake,
           NEW d, d = Close(c, status)
    PROVE  Leaves(c, d)
  <1>1. CASE StaysClosed(c, status)
    BY <1>1, ItselfLeaves DEF Close
  <1>2. CASE ~StaysClosed(c, status)
    <2> DEFINE closed == CloseStream(c, status)
               checked == HardAssert(closed, status = "ok" => ~ShouldStartWriteStream(closed))
               heard == OnWriteStreamClose(closed, status)
    <2>1. d = [heard EXCEPT !.handshake = FALSE]
      BY <1>2 DEF Close
    <2>2. Leaves(c, closed)
      BY CloseStreamLeaves
    <2>3. closed.pipeline = c.pipeline /\ closed.handshake = c.handshake
      BY DEF CloseStream, HardAssert, Shaped
    <2> HIDE DEF closed
    <2>4. Leaves(closed, checked)
      BY <2>2, AssertLeaves DEF Leaves
    <2>5. heard = StartIfNeeded(checked)
      BY <2>3 DEF OnWriteStreamClose
    <2> HIDE DEF checked, heard
    <2>6. Leaves(checked, heard)
      BY <2>4, <2>5, IfNeededLeaves DEF Leaves
    <2>7. Leaves(heard, d)
      BY <2>1, <2>6, OthersLeave DEF Leaves
    <2> QED BY <2>2, <2>4, <2>6, <2>7, BothLeave
  <1> QED BY <1>1, <1>2

\* The network is turned off, turned on and restarted.
LEMMA DisableLeaves ==
    ASSUME NEW c, Shaped(c), NEW d, d = DisableNetworkInternal(c) PROVE Leaves(c, d)
  <1> DEFINE off == [c EXCEPT !.network = FALSE]
             closed == Close(off, "ok")
  <1>1. d = [closed EXCEPT !.pipeline = <<>>]
    BY DEF DisableNetworkInternal
  <1>2. Leaves(c, off)
    BY OthersLeave
  <1> HIDE DEF off
  <1>3. Leaves(off, closed)
    BY <1>2, CloseLeaves DEF Leaves
  <1> HIDE DEF closed
  <1>4. Shaped(closed)
    BY <1>3 DEF Leaves
  <1>5. Leaves(closed, d)
    BY <1>1, <1>4, OthersLeave
  <1> QED BY <1>2, <1>3, <1>5, BothLeave

\* The network is turned on.
LEMMA EnableLeaves ==
    ASSUME NEW c, Shaped(c), NEW d, d = EnableNetworkInternal(c) PROVE Leaves(c, d)
  <1> DEFINE on == [c EXCEPT !.network = TRUE]
  <1>1. d = FillWritePipeline(on)
    BY DEF EnableNetworkInternal
  <1>2. Leaves(c, on)
    BY OthersLeave
  <1> HIDE DEF on
  <1>3. Leaves(on, d)
    BY <1>1, <1>2, FillLeaves DEF Leaves
  <1> QED BY <1>2, <1>3, BothLeave

\* The network is restarted.
LEMMA RestartLeaves ==
    ASSUME NEW c, Shaped(c), NEW d, d = RestartNetwork(c) PROVE Leaves(c, d)
  <1> DEFINE off == DisableNetworkInternal(c)
             free == InhibitBackoff(off)
  <1>1. d = EnableNetworkInternal(free)
    BY DEF RestartNetwork
  <1>2. Leaves(c, off)
    BY DisableLeaves
  <1> HIDE DEF off
  <1>3. Leaves(off, free)
    BY <1>2, InhibitLeaves DEF Leaves
  <1> HIDE DEF free
  <1>4. Leaves(free, d)
    BY <1>1, <1>3, EnableLeaves DEF Leaves
  <1> QED BY <1>2, <1>3, <1>4, BothLeave

\* The end of a backoff.
LEMMA EndBackoffLeaves ==
    ASSUME NEW c, Shaped(c), NEW d, d = EndBackoff(c) PROVE Leaves(c, d)
  <1> DEFINE e == HardAssert(c, c.stream.state = "Backoff")
             ready == [e EXCEPT !.stream.backoff = FALSE, !.stream.state = "Initial"]
  <1>1. d = StartStream(ready)
    BY DEF EndBackoff
  <1>2. Leaves(c, e)
    BY AssertLeaves
  <1> HIDE DEF e
  <1>3. Leaves(e, ready)
    BY <1>2 DEF Shaped, Leaves
  <1> HIDE DEF ready
  <1>4. Leaves(ready, d)
    BY <1>1, <1>3, StartLeaves DEF Leaves
  <1> QED BY <1>2, <1>3, <1>4, BothLeave

\* A stream that opens.
LEMMA OpenLeaves ==
    ASSUME NEW c, Shaped(c), NEW u, NEW d, d = WriteHandshake(Open(c, u))
    PROVE  Leaves(c, d)
  <1> DEFINE e == HardAssert(c, c.stream.state = "Starting")
             opened == Open(c, u)
             checked == HardAssert(opened, ~opened.handshake)
  <1>1. Leaves(c, e)
    BY AssertLeaves
  <1>2. opened = [e EXCEPT !.stream.state = "Open", !.stream.token = u]
    BY DEF Open
  <1> HIDE DEF e
  <1>3. Leaves(e, opened)
    <2> DEFINE stream == [e.stream EXCEPT !.state = "Open", !.token = u]
    <2>1. opened = [e EXCEPT !.stream = stream]
      BY <1>1, <1>2 DEF Leaves, Shaped
    <2>2. DOMAIN stream = DOMAIN e.stream /\ stream.down = e.stream.down
      BY <1>1 DEF Leaves, Shaped
    <2> HIDE DEF stream, opened
    <2> QED BY <1>1, <2>1, <2>2, StreamLeaves DEF Leaves
  <1>4. d = Send(checked, <<Handshake>>)
    BY DEF WriteHandshake
  <1> HIDE DEF opened
  <1>5. Leaves(opened, checked)
    BY <1>3, AssertLeaves DEF Leaves
  <1> HIDE DEF checked
  <1>6. Leaves(checked, d)
    BY <1>4, <1>5, SendLeaves DEF Leaves
  <1> QED BY <1>1, <1>3, <1>5, <1>6, BothLeave

-----------------------------------------------------------------------------
(* What an answer to a write does: the first row of the user's queue leaves *)
(* it together with its callback.                                           *)

\* The callbacks registered for the first of the user's rows.
DueFirst(c) == {k \in c.callbacks[c.user] : k.id = c.queue[c.user][1].id}

Settles(c, d, verdict) ==
    /\ Shaped(d) /\ c.queue[c.user] # <<>>
    /\ \E new : TailOf(new, c.queue[c.user]) /\ d.queue = [c.queue EXCEPT ![c.user] = new]
    /\ d.callbacks = [c.callbacks EXCEPT ![c.user] = @ \ DueFirst(c)]
    /\ d.told = [w \in Writes |->
                    IF \E k \in DueFirst(c) : k.write = w THEN verdict ELSE c.told[w]]
    /\ d.fresh = c.fresh
    /\ RowsOf(d.stream.down) \subseteq RowsOf(c.stream.down)

\* The first of the user's rows has this id.
FirstHas(c, id) ==
    /\ c.queue[c.user] # <<>> /\ id = c.queue[c.user][1].id
    /\ \E next \in Int : RowsSane(c.queue, next)

\* What comes before and after leaves the rest alone.
LEMMA SettlesLater ==
    ASSUME NEW c, NEW d, NEW e, NEW verdict, Leaves(c, d), Settles(d, e, verdict)
    PROVE  Settles(c, e, verdict)
  <1>1. DueFirst(d) = DueFirst(c)
    BY DEF Leaves, DueFirst
  <1> QED BY <1>1 DEF Leaves, Settles

\* What comes after leaves the rest alone.
LEMMA SettlesBefore ==
    ASSUME NEW c, NEW d, NEW e, NEW verdict, Settles(c, d, verdict), Leaves(d, e)
    PROVE  Settles(c, e, verdict)
  BY DEF Leaves, Settles

\* A sound client's pipeline begins with the first row.
LEMMA SoundFirst ==
    ASSUME NEW c, Sound(c), c.pipeline # <<>> PROVE FirstHas(c, Head(c.pipeline).id)
  <1>1. Sane(c) /\ Prefixed(c) /\ c.nextId \in Int /\ RowsSane(c.queue, c.nextId)
    BY DEF Sound, Sane, Client
  <1> DEFINE rows == c.queue[c.user]
             batch == Head(c.pipeline)
  <1>2. rows # <<>> /\ batch.id = rows[1].id
    BY <1>1, FirstRow
  <1> QED BY <1>1, <1>2 DEF FirstHas

\* Telling the callbacks, field by field.
LEMMA NotifyTells ==
    ASSUME NEW c, Shaped(c), NEW id, NEW verdict, NEW d, d = NotifyUser(c, id, verdict),
           NEW due, due = {k \in c.callbacks[c.user] : k.id = id}
    PROVE  /\ Shaped(d) /\ d.user = c.user /\ d.queue = c.queue /\ d.fresh = c.fresh
           /\ d.stream = c.stream
           /\ d.callbacks = [c.callbacks EXCEPT ![c.user] = @ \ due]
           /\ d.told = [w \in Writes |->
                           IF \E k \in due : k.write = w THEN verdict ELSE c.told[w]]
  <1> DEFINE callbacks == [c.callbacks EXCEPT ![c.user] = @ \ due]
             told == [w \in Writes |->
                         IF \E k \in due : k.write = w THEN verdict ELSE c.told[w]]
  <1>1. d = [c EXCEPT !.callbacks = callbacks, !.told = told]
    BY DEF NotifyUser
  <1> HIDE DEF callbacks, told
  <1>2. /\ Shaped(d) /\ d.user = c.user /\ d.queue = c.queue /\ d.fresh = c.fresh
        /\ d.stream = c.stream /\ d.callbacks = callbacks /\ d.told = told
    BY <1>1 DEF Shaped
  <1> QED BY <1>2 DEF callbacks, told

\* Removing the first row, field by field.
LEMMA RemoveFields ==
    ASSUME NEW c, Shaped(c), NEW id, FirstHas(c, id), NEW d, d = RemoveMutationBatch(c, id)
    PROVE  /\ Shaped(d) /\ d.user = c.user /\ d.callbacks = c.callbacks /\ d.told = c.told
           /\ d.fresh = c.fresh /\ d.stream = c.stream
           /\ \E new : /\ TailOf(new, c.queue[c.user])
                       /\ d.queue = [c.queue EXCEPT ![c.user] = new]
  <1> DEFINE rows == c.queue[c.user]
             new == Without(rows, id)
  <1>0. PICK next \in Int : RowsSane(c.queue, next)
    BY DEF FirstHas
  <1>1. rows \in Seq(Batch) /\ rows # <<>> /\ id = rows[1].id /\ Ordered(rows, next)
    BY <1>0 DEF Shaped, RowsSane, FirstHas
  <1>2. Places(rows, id) # {} /\ TailOf(new, rows)
    BY <1>1, WithoutFirst
  <1>3. d = [c EXCEPT !.queue[c.user] = new]
    BY <1>2 DEF RemoveMutationBatch, Places, Without
  <1> HIDE DEF new
  <1>4. /\ DOMAIN d = DOMAIN c /\ d.user = c.user /\ d.callbacks = c.callbacks
        /\ d.told = c.told /\ d.fresh = c.fresh /\ d.stream = c.stream
        /\ d.queue = [c.queue EXCEPT ![c.user] = new]
    BY <1>3 DEF Shaped
  <1>5. d.queue \in [Users -> Seq(Batch)]
    BY <1>2, <1>4 DEF Shaped, TailOf
  <1>6. Shaped(d)
    BY <1>4, <1>5 DEF Shaped
  <1> QED BY <1>2, <1>4, <1>6

\* The first row is removed after its callbacks were told.
LEMMA ToldThenRemoved ==
    ASSUME NEW c, Shaped(c), NEW id, FirstHas(c, id), NEW verdict,
           NEW d, d = RemoveMutationBatch(NotifyUser(c, id, verdict), id)
    PROVE  Settles(c, d, verdict)
  <1> DEFINE rows == c.queue[c.user]
             due == {k \in c.callbacks[c.user] : k.id = id}
             told == NotifyUser(c, id, verdict)
  <1>1. rows # <<>> /\ id = rows[1].id
    BY DEF FirstHas
  <1>3. due = DueFirst(c)
    BY <1>1 DEF DueFirst
  <1>4. /\ Shaped(told) /\ told.user = c.user /\ told.queue = c.queue /\ told.fresh = c.fresh
        /\ told.stream = c.stream
        /\ told.callbacks = [c.callbacks EXCEPT ![c.user] = @ \ due]
        /\ told.told = [w \in Writes |->
                           IF \E k \in due : k.write = w THEN verdict ELSE c.told[w]]
    <2> HIDE DEF due
    <2>1. due = {k \in c.callbacks[c.user] : k.id = id}
      BY DEF due
    <2> QED BY <2>1, NotifyTells
  <1>2. d = RemoveMutationBatch(told, id)
    OBVIOUS
  <1> HIDE DEF due, rows, told
  <1>5. FirstHas(told, id) /\ rows = told.queue[told.user]
    BY <1>4 DEF FirstHas, rows
  <1>6. /\ Shaped(d) /\ d.callbacks = told.callbacks /\ d.told = told.told
        /\ d.fresh = told.fresh /\ d.stream = told.stream
        /\ \E new : TailOf(new, rows) /\ d.queue = [told.queue EXCEPT ![told.user] = new]
    <2>1. Shaped(told)
      BY <1>4
    <2>2. /\ Shaped(d) /\ d.user = told.user /\ d.callbacks = told.callbacks
          /\ d.told = told.told /\ d.fresh = told.fresh /\ d.stream = told.stream
          /\ \E new : /\ TailOf(new, told.queue[told.user])
                      /\ d.queue = [told.queue EXCEPT ![told.user] = new]
      BY <1>2, <1>5, <2>1, RemoveFields
    <2> QED BY <1>5, <2>2
  <1>7. d.callbacks = [c.callbacks EXCEPT ![c.user] = @ \ DueFirst(c)]
    BY <1>3, <1>4, <1>6
  <1>8. d.told = [w \in Writes |->
                     IF \E k \in DueFirst(c) : k.write = w THEN verdict ELSE c.told[w]]
    BY <1>3, <1>4, <1>6
  <1>9. \E new : TailOf(new, rows) /\ d.queue = [c.queue EXCEPT ![c.user] = new]
    BY <1>4, <1>6
  <1>10. d.fresh = c.fresh /\ d.stream = c.stream
    BY <1>4, <1>6
  <1> QED BY <1>1, <1>6, <1>7, <1>8, <1>9, <1>10 DEF Settles, rows

\* The first row is removed before its callbacks are told.
LEMMA RemovedThenTold ==
    ASSUME NEW c, Shaped(c), NEW id, FirstHas(c, id), NEW verdict,
           NEW removed, removed = RemoveMutationBatch(c, id),
           NEW d, d = NotifyUser(removed, id, verdict)
    PROVE  Settles(c, d, verdict)
  <1> DEFINE rows == c.queue[c.user]
             due == {k \in removed.callbacks[removed.user] : k.id = id}
  <1>1. rows # <<>> /\ id = rows[1].id
    BY DEF FirstHas
  <1>3. /\ Shaped(removed) /\ removed.user = c.user /\ removed.callbacks = c.callbacks
        /\ removed.told = c.told /\ removed.fresh = c.fresh /\ removed.stream = c.stream
        /\ \E new : TailOf(new, rows) /\ removed.queue = [c.queue EXCEPT ![c.user] = new]
    BY RemoveFields
  <1>4. due = DueFirst(c)
    BY <1>1, <1>3 DEF DueFirst
  <1>5. /\ Shaped(d) /\ d.queue = removed.queue /\ d.fresh = removed.fresh
        /\ d.stream = removed.stream
        /\ d.callbacks = [removed.callbacks EXCEPT ![removed.user] = @ \ due]
        /\ d.told = [w \in Writes |->
                        IF \E k \in due : k.write = w THEN verdict ELSE removed.told[w]]
    <2> HIDE DEF due
    <2>1. due = {k \in removed.callbacks[removed.user] : k.id = id}
      BY DEF due
    <2> QED BY <1>3, <2>1, NotifyTells
  <1> HIDE DEF due
  <1>6. d.callbacks = [c.callbacks EXCEPT ![c.user] = @ \ DueFirst(c)]
    BY <1>3, <1>4, <1>5
  <1>7. d.told = [w \in Writes |->
                     IF \E k \in DueFirst(c) : k.write = w THEN verdict ELSE c.told[w]]
    BY <1>3, <1>4, <1>5
  <1>8. \E new : TailOf(new, rows) /\ d.queue = [c.queue EXCEPT ![c.user] = new]
    BY <1>3, <1>5
  <1>9. d.fresh = c.fresh /\ d.stream = c.stream
    BY <1>3, <1>5
  <1> HIDE DEF rows
  <1> QED BY <1>1, <1>5, <1>6, <1>7, <1>8, <1>9 DEF Settles, rows

\* The pipeline's head is taken off.
LEMMA PopLeaves ==
    ASSUME NEW c, Shaped(c), NEW id, FirstHas(c, id), NEW d, d = [c EXCEPT !.pipeline = Tail(@)]
    PROVE  Leaves(c, d) /\ FirstHas(d, id)
  <1>1. Leaves(c, d)
    BY DEF Shaped, Leaves
  <1> QED BY <1>1 DEF Leaves, FirstHas

\* A result settles the first row.
LEMMA ResultSettles ==
    ASSUME NEW c, Shaped(c), c.pipeline # <<>>, NEW id, id = Head(c.pipeline).id,
           FirstHas(c, id), NEW d, d = OnWriteStreamMutationResult(c)
    PROVE  Settles(c, d, "ok")
  <1> DEFINE popped == [c EXCEPT !.pipeline = Tail(@)]
             told == NotifyUser(popped, id, "ok")
             removed == RemoveMutationBatch(told, id)
  <1>1. d = FillWritePipeline(removed)
    BY DEF OnWriteStreamMutationResult
  <1>2. Leaves(c, popped) /\ FirstHas(popped, id)
    BY PopLeaves
  <1> HIDE DEF popped
  <1>3. Settles(popped, removed, "ok")
    BY <1>2, ToldThenRemoved DEF Leaves
  <1> HIDE DEF told, removed
  <1>4. Leaves(removed, d)
    BY <1>1, <1>3, FillLeaves DEF Settles
  <1> QED BY <1>2, <1>3, <1>4, SettlesLater, SettlesBefore

\* So does an error.
LEMMA ErrorSettles ==
    ASSUME NEW c, Shaped(c), NEW id, id = Head(c.pipeline).id,
           FirstHas(c, id), NEW d, d = HandleWriteError(c)
    PROVE  Settles(c, d, "refused")
  <1> DEFINE popped == [c EXCEPT !.pipeline = Tail(@)]
             ready == InhibitBackoff(popped)
             removed == RemoveMutationBatch(ready, id)
             told == NotifyUser(removed, id, "refused")
  <1>1. d = FillWritePipeline(told)
    BY DEF HandleWriteError
  <1>2. Leaves(c, popped) /\ FirstHas(popped, id)
    BY PopLeaves
  <1> HIDE DEF popped
  <1>3. Leaves(popped, ready)
    BY <1>2, InhibitLeaves DEF Leaves
  <1>4. Leaves(c, ready)
    BY <1>2, <1>3, BothLeave
  <1> HIDE DEF ready
  <1>5. FirstHas(ready, id)
    BY <1>4 DEF Leaves, FirstHas
  <1>6. Settles(ready, told, "refused")
    BY <1>4, <1>5, RemovedThenTold DEF Leaves
  <1> HIDE DEF told, removed
  <1>7. Leaves(told, d)
    BY <1>1, <1>6, FillLeaves DEF Settles
  <1> QED BY <1>4, <1>6, <1>7, SettlesLater, SettlesBefore

\* A stream that ends with a permanent error settles the first row.
LEMMA CloseSettles ==
    ASSUME NEW c, Shaped(c), c.pipeline # <<>>, c.handshake,
           FirstHas(c, Head(c.pipeline).id), NEW d, d = Close(c, "permanent")
    PROVE  Settles(c, d, "refused")
  <1> DEFINE closed == CloseStream(c, "permanent")
             checked == HardAssert(closed, TRUE)
             rejected == HandleWriteError(checked)
             heard == OnWriteStreamClose(closed, "permanent")
  <1>1. d = [heard EXCEPT !.handshake = FALSE]
    BY DEF Close, StaysClosed
  <1>2. Leaves(c, closed)
    BY CloseStreamLeaves
  <1>3. closed.pipeline = c.pipeline /\ closed.handshake = c.handshake
    BY DEF CloseStream, HardAssert, Shaped
  <1> HIDE DEF closed
  <1>4. Leaves(closed, checked) /\ checked.pipeline = closed.pipeline
    BY <1>2 DEF HardAssert, Shaped, Leaves
  <1>5. heard = StartIfNeeded(rejected)
    <2>1. ("permanent" = "ok" => ~ShouldStartWriteStream(closed)) = TRUE
      OBVIOUS
    <2> QED BY <1>3, <2>1 DEF OnWriteStreamClose
  <1> HIDE DEF checked
  <1>6. Leaves(c, checked)
    BY <1>2, <1>4, BothLeave
  <1>7. FirstHas(checked, Head(checked.pipeline).id)
    BY <1>3, <1>4, <1>6 DEF Leaves, FirstHas
  <1>8. Settles(checked, rejected, "refused")
    BY <1>6, <1>7, ErrorSettles DEF Leaves
  <1> HIDE DEF rejected, heard
  <1>9. Leaves(rejected, heard)
    BY <1>5, <1>8, IfNeededLeaves DEF Settles
  <1>10. Leaves(heard, d)
    <2>1. Shaped(heard)
      BY <1>9 DEF Leaves
    <2> QED BY <1>1, <2>1, OthersLeave
  <1> QED BY <1>6, <1>8, <1>9, <1>10, SettlesLater, SettlesBefore

\* The answers that are left when the first is read.
LEMMA ReadLeaves ==
    ASSUME NEW c, Sound(c), c.stream.down # <<>>, NEW d, d = [c EXCEPT !.stream.down = Tail(@)]
    PROVE  /\ Leaves(c, d) /\ d.pipeline = c.pipeline
           /\ c.stream.down \in Seq(Answer) /\ Head(c.stream.down) \in RowsOf(c.stream.down)
  <1> DEFINE down == c.stream.down
             read == Tail(down)
             stream == [c.stream EXCEPT !.down = read]
  <1>1. c \in Client /\ Shaped(c) /\ down \in Seq(Answer)
    BY ClientShaped DEF Sound, Sane, Client, StreamType
  <1>2. /\ Head(down) = down[1] /\ Len(down) \in Nat /\ Len(down) >= 1
        /\ Len(read) = Len(down) - 1 /\ \A i \in 1..Len(read) : read[i] = down[i + 1]
    BY <1>1, TailFacts
  <1>3. d = [c EXCEPT !.stream = stream] /\ d.pipeline = c.pipeline
    BY <1>1 DEF Shaped
  <1> HIDE DEF read
  <1>4. DOMAIN stream = DOMAIN c.stream /\ stream.down = read
    BY <1>1 DEF Shaped
  <1>5. RowsOf(read) \subseteq RowsOf(down)
    <2>1. \A i \in 1..Len(read) : i + 1 \in 1..Len(down)
      BY <1>2
    <2> QED BY <1>2, <2>1 DEF RowsOf
  <1>6. Head(down) \in RowsOf(down)
    <2>1. 1 \in 1..Len(down)
      BY <1>2
    <2> QED BY <1>2, <2>1 DEF RowsOf
  <1> HIDE DEF stream
  <1>7. Leaves(c, d)
    BY <1>1, <1>3, <1>4, <1>5, StreamLeaves
  <1> QED BY <1>1, <1>3, <1>6, <1>7

\* An answer to the handshake settles nothing.
LEMMA ShakeLeaves ==
    ASSUME NEW c, Sound(c), c.stream.down # <<>>, ~c.handshake,
           NEW d, d = NotifyStreamResponse(c)
    PROVE  Leaves(c, d)
  <1> DEFINE read == [c EXCEPT !.stream.down = Tail(@)]
             shaken == [read EXCEPT !.handshake = TRUE]
  <1>1. d = WriteMutations(shaken, c.pipeline)
    BY DEF NotifyStreamResponse
  <1>2. Leaves(c, read)
    BY ReadLeaves
  <1> HIDE DEF read
  <1>3. Leaves(read, shaken)
    BY <1>2, OthersLeave DEF Leaves
  <1> HIDE DEF shaken
  <1>4. Leaves(shaken, d)
    BY <1>1, <1>3, SentLeaves DEF Leaves
  <1> QED BY <1>2, <1>3, <1>4, BothLeave

\* An answer that is read after the handshake is about the pipeline's head,
\* which is the first row.
LEMMA AnswerIsHead ==
    ASSUME NEW c, Sound(c), c.stream.down # <<>>, c.handshake
    PROVE  /\ c.pipeline # <<>> /\ FirstHas(c, Head(c.pipeline).id)
           /\ Head(c.stream.down).write = c.queue[c.user][1].write
  <1> DEFINE down == c.stream.down
             up == c.stream.up
             pipeline == c.pipeline
             rows == c.queue[c.user]
  <1>1. /\ Sane(c) /\ Prefixed(c) /\ pipeline \in Seq(Batch) /\ rows \in Seq(Batch)
        /\ down \in Seq(Answer) /\ up \in Seq(Nat) /\ IsOpen(c.stream)
    BY DEF Sound, Sane, StreamSane, Client, StreamType
  <1>2. Matches(down, up, pipeline) /\ Heads(pipeline, rows)
    BY <1>1 DEF Sane, OnWire, Prefixed
  <1>3. down # <<>>
    OBVIOUS
  <1> HIDE DEF down, up, pipeline, rows
  <1>4. Head(down) = down[1] /\ Len(down) \in Nat /\ Len(down) >= 1 /\ Len(up) \in Nat
    BY <1>1, <1>3, TailFacts
  <1>5. Len(pipeline) >= 1 /\ pipeline # <<>>
    BY <1>1, <1>2, <1>4 DEF Matches
  <1>6. 1 \in 1..Len(down) /\ 1 \in 1..Len(pipeline)
    BY <1>1, <1>4, <1>5
  <1>7. Head(down).write = rows[1].write
    BY <1>2, <1>4, <1>6 DEF Matches, Heads
  <1> QED BY <1>5, <1>7, SoundFirst DEF down, pipeline, rows

\* An answer that a write was applied settles the first row.
LEMMA ResponseSettles ==
    ASSUME NEW c, Sound(c), c.stream.down # <<>>, c.handshake,
           NEW d, d = NotifyStreamResponse(c)
    PROVE  Settles(c, d, "ok")
  <1> DEFINE read == [c EXCEPT !.stream.down = Tail(@)]
             id == Head(c.pipeline).id
  <1>1. c.pipeline # <<>> /\ FirstHas(c, id)
    BY AnswerIsHead
  <1>2. Leaves(c, read) /\ read.pipeline = c.pipeline
    BY ReadLeaves
  <1>3. d = OnWriteStreamMutationResult(read)
    BY DEF NotifyStreamResponse
  <1> HIDE DEF read
  <1>4. FirstHas(read, id)
    BY <1>1, <1>2 DEF Leaves, FirstHas
  <1>5. Settles(read, d, "ok")
    BY <1>1, <1>2, <1>3, <1>4, ResultSettles DEF Leaves
  <1> QED BY <1>2, <1>5, SettlesLater

-----------------------------------------------------------------------------
(* The invariant of the callbacks and of the backend.                       *)

\* Every callback waits for a row of its user's queue, and the rows that this
\* run of the app has stored have theirs, which was told nothing yet.
CallbacksFit(c) ==
    \A u \in Users :
        /\ c.callbacks[u] \subseteq RowsOf(c.queue[u])
        /\ \A row \in RowsOf(c.queue[u]) :
               row.write \in c.fresh => row \in c.callbacks[u] /\ c.told[row.write] = "no"

\* A write whose callback was told nothing is in a queue.
WaitingAreQueued(c) ==
    \A w \in c.fresh : c.told[w] = "no" =>
        \E u \in Users : \E row \in RowsOf(c.queue[u]) : row.write = w

\* The writes of a queue are in the order the app made them.
Increasing(rows) ==
    \A i, j \in 1..Len(rows) : i < j => rows[i].write < rows[j].write

\* The app made write x before all those that wait on the worker queue.
Before(x) ==
    /\ x \in 0..Len(by)
    /\ \A i \in 1..Len(worker) : worker[i].kind = "write" => x < worker[i].write

\* Whatever is queued, answered or applied was made before what still waits.
Past ==
    /\ \A u \in Users : \A row \in RowsOf(client.queue[u]) : Before(row.write)
    /\ \A w \in client.fresh : w \in Writes /\ Before(w)
    /\ \A w \in Writes : client.told[w] # "no" => Before(w)
    /\ \A w \in backend.applied : Before(w)
    /\ \A u \in Users : Before(backend.latest[u])

\* What the callbacks were told is what the backend did.
ToldTrue ==
    \A w \in Writes : /\ client.told[w] = "ok" => w \in backend.applied
                      /\ client.told[w] = "refused" => w \in Refused

\* So is what the answers on their way say, and the backend has applied nothing
\* older of that user since.
AnswersTrue ==
    \A answer \in RowsOf(client.stream.down) :
        IF answer.ok
        THEN answer.write # Handshake =>
                 /\ answer.write \in backend.applied
                 /\ answer.write <= backend.latest[by[answer.write]]
        ELSE answer.write \in Refused

CInv ==
    /\ CallbacksFit(client) /\ WaitingAreQueued(client)
    /\ \A u \in Users : Increasing(client.queue[u])
    /\ Past /\ ToldTrue /\ AnswersTrue
    /\ backend.latest \in [Users -> Nat]

-----------------------------------------------------------------------------
(* Steps that leave all of this alone.                                      *)

\* What was made before what waits still was.
StillBefore == \A x : Before(x) => Before(x)'

Same(c, d) ==
    /\ d.queue = c.queue /\ d.callbacks = c.callbacks /\ d.told = c.told
    /\ d.fresh = c.fresh
    /\ RowsOf(d.stream.down) \subseteq RowsOf(c.stream.down)

Still == Same(client, client') /\ UNCHANGED <<by, backend>> /\ StillBefore

\* They keep it.
LEMMA StillTrue == ASSUME CInv, Still PROVE CInv'
  <1>1. Past'
    BY DEF CInv, Past, Still, Same, StillBefore
  <1>2. CallbacksFit(client)' /\ WaitingAreQueued(client)'
    BY DEF CInv, CallbacksFit, WaitingAreQueued, Still, Same
  <1>3. ToldTrue' /\ AnswersTrue'
    BY DEF CInv, ToldTrue, AnswersTrue, Still, Same
  <1> QED BY <1>1, <1>2, <1>3 DEF CInv, Still, Same

\* Nothing to write joins the worker queue.
LEMMA WorkerStillBefore ==
    ASSUME worker \in Seq(Task), by' = by,
           \/ worker' = worker \/ worker' = <<>>
           \/ worker # <<>> /\ worker' = Tail(worker)
           \/ \E task \in Task : task.kind # "write" /\ worker' = Append(worker, task)
    PROVE  StillBefore
  <1> SUFFICES ASSUME NEW x, Before(x) PROVE Before(x)'
    BY DEF StillBefore
  <1>1. CASE worker' = worker
    BY <1>1 DEF Before
  <1>2. CASE worker' = <<>>
    <2>1. Len(worker') = 0
      BY <1>2
    <2> QED BY <2>1 DEF Before
  <1>3. CASE worker # <<>> /\ worker' = Tail(worker)
    <2>1. Shorter(worker', worker)
      BY <1>3, TailShorter
    <2>2. \A i \in 1..Len(worker') : i + 1 \in 1..Len(worker) /\ worker'[i] = worker[i + 1]
      BY <2>1 DEF Shorter
    <2> QED BY <2>2 DEF Before
  <1>4. ASSUME NEW task \in Task, task.kind # "write", worker' = Append(worker, task)
        PROVE  Before(x)'
    <2>1. Longer(worker', worker, task)
      BY <1>4, AppendLonger
    <2>2. \A i \in 1..Len(worker') :
              \/ i \in 1..Len(worker) /\ worker'[i] = worker[i]
              \/ worker'[i] = task
      BY <2>1 DEF Longer
    <2> QED BY <1>4, <2>2 DEF Before
  <1> QED BY <1>1, <1>2, <1>3, <1>4

\* What leaves all alone and then calls GetToken or not.
LEMMA PerformSame ==
    ASSUME NEW d, Leaves(client, d), Perform(d) PROVE Same(client, client')
  <1>1. client' = [d EXCEPT !.stream.asked = FALSE]
    BY DEF Perform
  <1>2. /\ client'.queue = d.queue /\ client'.callbacks = d.callbacks
        /\ client'.told = d.told /\ client'.fresh = d.fresh
        /\ client'.stream.down = d.stream.down
    BY <1>1 DEF Leaves, Shaped
  <1> QED BY <1>2 DEF Same, Leaves

\* A step of the client alone.
LEMMA PerformStill ==
    ASSUME IInv, NEW d, Leaves(client, d), Perform(d), UNCHANGED <<by, backend>>,
           \/ worker' = worker
           \/ worker # <<>> /\ worker' = Tail(worker)
    PROVE  Still
  <1>1. StillBefore
    BY WorkerStillBefore DEF IInv, Typed
  <1> QED BY <1>1, PerformSame DEF Still

\* The client does nothing.
LEMMA ClientStill ==
    ASSUME IInv, UNCHANGED <<client, by, backend>>,
           \/ worker' = worker
           \/ worker # <<>> /\ worker' = Tail(worker)
           \/ \E task \in Task : task.kind # "write" /\ worker' = Append(worker, task)
    PROVE  Still
  <1>1. StillBefore
    BY WorkerStillBefore DEF IInv, Typed
  <1> QED BY <1>1 DEF Still, Same

\* FIRAuth.
LEMMA AuthStill ==
    ASSUME IInv, \/ \E ask \in asking : AuthTakesCall(ask)
                 \/ \E ask \in asking : AuthGivesToken(ask) \/ AuthFails(ask)
                 \/ \E u \in Users : AccountChanges(u)
    PROVE  Still
  BY ClientStill DEF AuthTakesCall, AuthGivesToken, AuthFails, AuthAnswers, AccountChanges

\* The blocks of the main queue hand tasks to the worker that are no writes.
LEMMA MainStill == ASSUME IInv, CredentialsNotified \/ TokenAnswered PROVE Still
  <1>1. ASSUME CredentialsNotified PROVE Still
    <2>1. main # <<>> /\ main \in Seq(Block) /\ Head(main).kind = "notify"
      BY <1>1 DEF CredentialsNotified, IInv, Typed
    <2>2. Head(main) \in Block
      BY <2>1, TailFacts
    <2> DEFINE task == [kind |-> "credential", user |-> Head(main).user]
    <2>3. task \in Task /\ task.kind # "write"
      BY <2>1, <2>2 DEF Block, Task
    <2>4. worker' = Append(worker, task) /\ UNCHANGED <<client, by, backend>>
      BY <1>1 DEF CredentialsNotified
    <2> QED BY <2>3, <2>4, ClientStill
  <1>2. ASSUME TokenAnswered PROVE Still
    <2>1. main # <<>> /\ main \in Seq(Block) /\ Head(main).kind = "token"
      BY <1>2 DEF TokenAnswered, IInv, Typed
    <2>2. Head(main) \in Block
      BY <2>1, TailFacts
    <2> DEFINE task == [kind |-> "token", closes |-> Head(main).closes, user |-> Head(main).user]
    <2>3. task \in Task /\ task.kind # "write"
      BY <2>1, <2>2 DEF Block, Task
    <2>4. /\ worker' = worker \/ worker' = Append(worker, task)
          /\ UNCHANGED <<client, by, backend>>
      BY <1>2 DEF TokenAnswered
    <2> QED BY <2>3, <2>4, ClientStill
  <1> QED BY <1>1, <1>2

\* The user changes: the stream is restarted.
LEMMA RunCredentialChangeStill == ASSUME IInv, RunCredentialChange PROVE Still
  <1> DEFINE u == Head(worker).user
             changed == ChangeUser(client, u)
             d == HandleCredentialChange(client, u)
  <1>1. /\ worker # <<>> /\ worker \in Seq(Task) /\ worker' = Tail(worker) /\ Perform(d)
        /\ Head(worker).kind = "credential" /\ UNCHANGED <<by, backend>>
    BY DEF RunCredentialChange, IInv, Typed
  <1>2. Head(worker) \in Task
    BY <1>1, TailFacts
  <1>3. u \in Users
    BY <1>1, <1>2 DEF Task
  <1>4. Shaped(client)
    BY ClientShaped DEF IInv, Sound, Sane
  <1> HIDE DEF u
  <1>5. Shaped(changed) /\ Same(client, changed)
    BY <1>3, <1>4 DEF ChangeUser, Shaped, Same
  <1>6. d = IF changed.network THEN RestartNetwork(changed) ELSE changed
    BY DEF HandleCredentialChange
  <1> HIDE DEF changed
  <1>7. Leaves(changed, d)
    BY <1>5, <1>6, RestartLeaves, ItselfLeaves
  <1> HIDE DEF d
  <1>8. Shaped(d) /\ Same(client, d)
    BY <1>5, <1>7 DEF Leaves, Same
  <1>9. client' = [d EXCEPT !.stream.asked = FALSE]
    BY <1>1 DEF Perform
  <1>10. /\ client'.queue = d.queue /\ client'.callbacks = d.callbacks
         /\ client'.told = d.told /\ client'.fresh = d.fresh
         /\ client'.stream.down = d.stream.down
    BY <1>8, <1>9 DEF Shaped
  <1>11. Same(client, client')
    BY <1>8, <1>10 DEF Same
  <1>12. StillBefore
    BY <1>1, WorkerStillBefore
  <1> QED BY <1>1, <1>11, <1>12 DEF Still

\* A token opens the stream, or its lack ends it.
LEMMA RunTokenStill == ASSUME IInv, RunToken PROVE Still
  <1> DEFINE task == Head(worker)
             d == ResumeStartWithCredentials(client, task)
  <1>1. /\ worker # <<>> /\ worker' = Tail(worker) /\ UNCHANGED <<by, backend>>
        /\ IF Stale(client, task.closes) THEN UNCHANGED <<client, asking>> ELSE Perform(d)
    BY DEF RunToken
  <1>2. Shaped(client)
    BY ClientShaped DEF IInv, Sound, Sane
  <1>3. CASE Stale(client, task.closes)
    BY <1>1, <1>3, ClientStill
  <1>4. CASE ~Stale(client, task.closes)
    <2>1. Leaves(client, d)
      <3>1. CASE task.user = NoUser
        <4> DEFINE e == HardAssert(client, client.stream.state = "Starting")
        <4>1. d = Close(e, "transient")
          BY <3>1 DEF ResumeStartWithCredentials
        <4>2. Leaves(client, e)
          BY <1>2, AssertLeaves
        <4> HIDE DEF e, d
        <4>3. Shaped(e)
          BY <4>2 DEF Leaves
        <4>4. Leaves(e, d)
          BY <4>1, <4>3, CloseLeaves
        <4> QED BY <4>2, <4>4, BothLeave
      <3>2. CASE task.user # NoUser
        <4>1. d = WriteHandshake(Open(client, task.user))
          BY <3>2 DEF ResumeStartWithCredentials
        <4> HIDE DEF d, task
        <4> QED BY <1>2, <4>1, OpenLeaves
      <3> QED BY <3>1, <3>2
    <2>2. Perform(d)
      BY <1>1, <1>4
    <2> HIDE DEF d
    <2> QED BY <1>1, <2>1, <2>2, PerformStill
  <1> QED BY <1>3, <1>4

\* Backoff, the idle timer and the network.
LEMMA LoneStill ==
    ASSUME IInv, \/ RunBackoff \/ RunIdle \/ StreamBreaks
                 \/ ConnectivityChanges \/ DisableNetwork \/ EnableNetwork
    PROVE  Still
  <1>1. Shaped(client)
    BY ClientShaped DEF IInv, Sound, Sane
  <1>2. /\ Leaves(client, EndBackoff(client)) /\ Leaves(client, Close(client, "ok"))
        /\ Leaves(client, Close(client, "transient"))
        /\ Leaves(client, RestartNetwork(client))
        /\ Leaves(client, DisableNetworkInternal(client))
        /\ Leaves(client, EnableNetworkInternal(client))
    BY <1>1, EndBackoffLeaves, CloseLeaves, RestartLeaves, DisableLeaves, EnableLeaves
  <1>3. PICK d : Leaves(client, d) /\ Perform(d) /\ UNCHANGED <<worker, by, backend>>
    BY <1>2 DEF RunBackoff, RunIdle, StreamBreaks, ConnectivityChanges, DisableNetwork,
                EnableNetwork
  <1> QED BY <1>3, PerformStill

-----------------------------------------------------------------------------
(* Steps that settle the first row.                                         *)

\* The rows that are left when the first is gone.
LEMMA TailRows ==
    ASSUME NEW rows \in Seq(Batch), rows # <<>>, NEW next \in Int, Ordered(rows, next),
           Increasing(rows), NEW new, TailOf(new, rows)
    PROVE  /\ rows[1] \in RowsOf(rows) /\ RowsOf(new) \subseteq RowsOf(rows)
           /\ \A row \in RowsOf(rows) : row = rows[1] \/ row \in RowsOf(new)
           /\ \A row \in RowsOf(new) :
                  row.id # rows[1].id /\ row.write # rows[1].write
           /\ Increasing(new)
  <1>1. /\ Len(rows) \in Nat /\ Len(rows) >= 1 /\ Len(new) = Len(rows) - 1
        /\ \A i \in 1..Len(new) : new[i] = rows[i + 1]
    BY DEF TailOf
  <1>2. \A i \in 1..Len(new) : i + 1 \in 1..Len(rows)
    BY <1>1
  <1>3. 1 \in 1..Len(rows)
    BY <1>1
  <1>4. \A i \in 1..Len(rows) : rows[i].id \in Int /\ rows[i].write \in Int
    <2>1. \A i \in 1..Len(rows) : rows[i] \in Batch
      BY <1>1
    <2> QED BY <2>1 DEF Batch
  <1>5. ASSUME NEW i \in 1..Len(rows) PROVE rows[i] = rows[1] \/ rows[i] \in RowsOf(new)
    <2>1. CASE i = 1
      BY <2>1
    <2>2. CASE i # 1
      <3>1. i - 1 \in 1..Len(new) /\ (i - 1) + 1 = i
        BY <1>1, <2>2
      <3> QED BY <1>1, <3>1 DEF RowsOf
    <2> QED BY <2>1, <2>2
  <1>6. ASSUME NEW i \in 1..Len(new)
        PROVE  new[i].id # rows[1].id /\ new[i].write # rows[1].write
    <2>1. 1 < i + 1 /\ new[i] = rows[i + 1] /\ i + 1 \in 1..Len(rows)
      BY <1>1, <1>2
    <2>2. rows[1].id < rows[i + 1].id /\ rows[1].write < rows[i + 1].write
      BY <1>3, <2>1 DEF Ordered, Increasing
    <2> QED BY <1>3, <1>4, <2>1, <2>2
  <1>7. Increasing(new)
    <2> SUFFICES ASSUME NEW i \in 1..Len(new), NEW j \in 1..Len(new), i < j
                 PROVE  new[i].write < new[j].write
      BY DEF Increasing
    <2>1. i + 1 < j + 1
      BY <1>1
    <2> QED BY <1>1, <1>2, <2>1 DEF Increasing
  <1> QED BY <1>1, <1>2, <1>3, <1>5, <1>6, <1>7 DEF RowsOf

\* The user's first row is settled with what the backend did.
Settled(verdict) ==
    /\ Settles(client, client', verdict) /\ UNCHANGED <<by, backend>> /\ StillBefore
    /\ LET w == client.queue[client.user][1].write
       IN  IF verdict = "ok"
           THEN w \in backend.applied /\ w <= backend.latest[client.user]
           ELSE w \in Refused

\* The first row leaves, and its callback is told the truth.
LEMMA SettleTrue ==
    ASSUME IInv, OInv, CInv, NEW verdict \in {"ok", "refused"}, Settled(verdict)
    PROVE  CInv'
  <1> DEFINE u == client.user
             rows == client.queue[u]
             first == rows[1]
             due == DueFirst(client)
  <1>0. /\ Settles(client, client', verdict) /\ UNCHANGED <<by, backend>> /\ StillBefore
        /\ IF verdict = "ok" THEN first.write \in backend.applied ELSE first.write \in Refused
    BY DEF Settled
  <1>1. /\ client \in Client /\ u \in Users /\ rows \in Seq(Batch) /\ rows # <<>>
        /\ client.nextId \in Int /\ RowsSane(client.queue, client.nextId)
        /\ client.queue \in [Users -> Seq(Batch)]
        /\ client.callbacks \in [Users -> SUBSET Batch]
        /\ Len(by) \in Nat /\ Len(by) <= MaxWrites
    BY <1>0 DEF IInv, Sound, Sane, Client, Typed, Settles
  <1>2. PICK new : TailOf(new, rows) /\ client'.queue = [client.queue EXCEPT ![u] = new]
    BY <1>0 DEF Settles
  <1>3. /\ client'.callbacks = [client.callbacks EXCEPT ![u] = @ \ due]
        /\ client'.told = [w \in Writes |->
               IF \E k \in due : k.write = w THEN verdict ELSE client.told[w]]
        /\ client'.fresh = client.fresh
        /\ RowsOf(client'.stream.down) \subseteq RowsOf(client.stream.down)
    BY <1>0 DEF Settles
  <1>4. Ordered(rows, client.nextId) /\ Increasing(rows)
    BY <1>1 DEF RowsSane, CInv
  <1>5. due = {k \in client.callbacks[u] : k.id = first.id}
    BY DEF DueFirst
  <1>6. IF verdict = "ok" THEN first.write \in backend.applied ELSE first.write \in Refused
    BY <1>0
  <1> HIDE DEF due, first
  <1>7. /\ first \in RowsOf(rows) /\ RowsOf(new) \subseteq RowsOf(rows)
        /\ \A row \in RowsOf(rows) : row = first \/ row \in RowsOf(new)
        /\ \A row \in RowsOf(new) : row.id # first.id /\ row.write # first.write
        /\ Increasing(new)
    <2> HIDE DEF rows
    <2> QED BY <1>1, <1>2, <1>4, TailRows DEF first
  <1>8. /\ client'.queue[u] = new
        /\ \A v \in Users : v # u => client'.queue[v] = client.queue[v]
        /\ \A v \in Users : RowsOf(client'.queue[v]) \subseteq RowsOf(client.queue[v])
    BY <1>1, <1>2, <1>7
  <1>9. \A v \in Users : \A row \in RowsOf(client.queue[v]) :
            row.write \in 1..Len(by) /\ by[row.write] = v /\ row.write \in Writes
    BY <1>1, ParametersAssumption DEF OInv, RowsOwned, Writes
  <1>10. \A v \in Users : \A row \in RowsOf(client'.queue[v]) : row.write # first.write
    <2>1. by[first.write] = u
      BY <1>1, <1>7, <1>9
    <2> QED BY <1>7, <1>8, <1>9, <2>1
  <1>11. CallbacksFit(client)
    BY DEF CInv
  <1> HIDE DEF rows
  <1>12. \A k \in due : k = first
    BY <1>1, <1>5, <1>7, <1>11 DEF CallbacksFit, rows
  <1>13. /\ client'.callbacks[u] = client.callbacks[u] \ due
         /\ \A v \in Users : v # u => client'.callbacks[v] = client.callbacks[v]
    BY <1>1, <1>3
  <1>14. \A w \in Writes : w # first.write => client'.told[w] = client.told[w]
    BY <1>3, <1>12
  <1>15. \A w \in Writes :
             client'.told[w] = client.told[w] \/ (w = first.write /\ client'.told[w] = verdict)
    BY <1>3, <1>12
  <1>16. CallbacksFit(client)'
    <2> SUFFICES ASSUME NEW v \in Users
                 PROVE  /\ client'.callbacks[v] \subseteq RowsOf(client'.queue[v])
                        /\ \A row \in RowsOf(client'.queue[v]) : row.write \in client'.fresh =>
                               row \in client'.callbacks[v] /\ client'.told[row.write] = "no"
      BY DEF CallbacksFit
    <2>1. client'.callbacks[v] \subseteq RowsOf(client'.queue[v])
      <3>1. CASE v = u
        <4>1. \A k \in client'.callbacks[u] : k \in RowsOf(rows) /\ k # first
          BY <1>1, <1>5, <1>11, <1>13 DEF CallbacksFit, rows
        <4> QED BY <1>7, <1>8, <3>1, <4>1
      <3>2. CASE v # u
        BY <1>8, <1>11, <1>13, <3>2 DEF CallbacksFit
      <3> QED BY <3>1, <3>2
    <2>2. ASSUME NEW row \in RowsOf(client'.queue[v]), row.write \in client'.fresh
          PROVE  row \in client'.callbacks[v] /\ client'.told[row.write] = "no"
      <3>1. row \in RowsOf(client.queue[v]) /\ row.write # first.write /\ row.write \in Writes
        BY <1>8, <1>9, <1>10
      <3>2. row \in client.callbacks[v] /\ client.told[row.write] = "no"
        BY <1>3, <1>11, <2>2, <3>1 DEF CallbacksFit
      <3>3. row \notin due
        BY <1>12, <3>1
      <3> QED BY <1>13, <1>14, <3>1, <3>2, <3>3
    <2> QED BY <2>1, <2>2
  <1>17. WaitingAreQueued(client)'
    <2> SUFFICES ASSUME NEW w \in client'.fresh, client'.told[w] = "no"
                 PROVE  \E v \in Users : \E row \in RowsOf(client'.queue[v]) : row.write = w
      BY DEF WaitingAreQueued
    <2>1. w \in client.fresh /\ w \in Writes
      BY <1>3 DEF CInv, Past
    <2>2. w # first.write
      <3> SUFFICES ASSUME w = first.write PROVE FALSE
        OBVIOUS
      <3>1. first \in client.callbacks[u]
        BY <1>1, <1>7, <1>11, <2>1 DEF CallbacksFit, rows
      <3>2. first \in due
        BY <1>5, <3>1
      <3>3. client'.told[w] = verdict
        BY <1>3, <2>1, <3>2
      <3> QED BY <3>3
    <2>3. client.told[w] = "no"
      BY <1>14, <2>1, <2>2
    <2>4. PICK v \in Users : \E row \in RowsOf(client.queue[v]) : row.write = w
      BY <2>1, <2>3 DEF CInv, WaitingAreQueued
    <2>5. PICK row \in RowsOf(client.queue[v]) : row.write = w
      BY <2>4
    <2>6. row \in RowsOf(client'.queue[v])
      BY <1>7, <1>8, <2>2, <2>5 DEF rows
    <2> QED BY <2>5, <2>6
  <1>18. \A v \in Users : Increasing(client'.queue[v])
    BY <1>7, <1>8 DEF CInv
  <1>19. Past'
    <2>1. \A w \in Writes : client'.told[w] # "no" => Before(w)
      <3>1. Before(first.write)
        BY <1>1, <1>7 DEF CInv, Past, rows
      <3> QED BY <1>15, <3>1 DEF CInv, Past
    <2>2. \A v \in Users : \A row \in RowsOf(client'.queue[v]) : Before(row.write)
      BY <1>8 DEF CInv, Past
    <2> QED BY <1>0, <1>3, <2>1, <2>2 DEF CInv, Past, StillBefore
  <1>20. ToldTrue'
    BY <1>0, <1>6, <1>15 DEF CInv, ToldTrue
  <1>21. AnswersTrue'
    BY <1>0, <1>3 DEF CInv, AnswersTrue
  <1> QED BY <1>16, <1>17, <1>18, <1>19, <1>20, <1>21, <1>0 DEF CInv

\* After the handshake an answer says what the backend did with the first row.
LEMMA FirstAnswered ==
    ASSUME IInv, OInv, CInv, client.stream.down # <<>>, client.handshake
    PROVE  LET w == client.queue[client.user][1].write
           IN  IF Head(client.stream.down).ok
               THEN w \in backend.applied /\ w <= backend.latest[client.user]
               ELSE w \in Refused
  <1> DEFINE answer == Head(client.stream.down)
             rows == client.queue[client.user]
  <1>1. Sound(client) /\ client.user \in Users /\ rows \in Seq(Batch)
    BY DEF IInv, Sound, Sane, Client
  <1>2. answer.write = rows[1].write /\ rows # <<>>
    BY <1>1, AnswerIsHead DEF FirstHas
  <1>3. answer \in RowsOf(client.stream.down)
    BY <1>1, ReadLeaves
  <1> HIDE DEF rows, answer
  <1>4. rows[1] \in RowsOf(rows)
    <2>1. 1 \in 1..Len(rows)
      BY <1>1, <1>2
    <2> QED BY <2>1 DEF RowsOf
  <1>5. rows[1].write >= 1 /\ by[rows[1].write] = client.user
    BY <1>1, <1>4 DEF OInv, RowsOwned, rows
  <1>6. answer.write # Handshake
    BY <1>2, <1>5 DEF Handshake
  <1>7. IF answer.ok
        THEN answer.write \in backend.applied /\ answer.write <= backend.latest[by[answer.write]]
        ELSE answer.write \in Refused
    BY <1>3, <1>6 DEF CInv, AnswersTrue
  <1> QED BY <1>2, <1>5, <1>7 DEF rows, answer

\* An answer settles the first row, or it completes the handshake or ends the
\* stream, and no row is settled.
LEMMA RunAnswerSettles ==
    ASSUME IInv, OInv, CInv, RunAnswer
    PROVE  Still \/ \E verdict \in {"ok", "refused"} : Settled(verdict)
  <1> DEFINE ok == Head(client.stream.down).ok
             verdict == IF ok THEN "ok" ELSE "refused"
             d == IF ok THEN NotifyStreamResponse(client) ELSE Close(client, "permanent")
  <1>1. /\ client.stream.down # <<>> /\ Perform(d)
        /\ UNCHANGED <<worker, by, backend>>
    BY DEF RunAnswer
  <1>2. Sound(client) /\ Shaped(client)
    BY ClientShaped DEF IInv, Sound, Sane
  <1>3. StillBefore
    BY <1>1, WorkerStillBefore DEF IInv, Typed
  <1>4. CASE client.handshake
    <2>1. Settles(client, d, verdict)
      <3>1. CASE ok
        BY <1>1, <1>2, <1>4, <3>1, ResponseSettles
      <3>2. CASE ~ok
        BY <1>1, <1>2, <1>4, <3>2, AnswerIsHead, CloseSettles
      <3> QED BY <3>1, <3>2
    <2>2. LET w == client.queue[client.user][1].write
          IN  IF verdict = "ok"
              THEN w \in backend.applied /\ w <= backend.latest[client.user]
              ELSE w \in Refused
      BY <1>1, <1>4, FirstAnswered
    <2>3. verdict \in {"ok", "refused"}
      OBVIOUS
    <2> HIDE DEF d, verdict
    <2>4. client' = [d EXCEPT !.stream.asked = FALSE]
      BY <1>1 DEF Perform
    <2>5. Leaves(d, client')
      BY <2>1, <2>4 DEF Settles, Shaped, Leaves
    <2>6. Settles(client, client', verdict)
      BY <2>1, <2>5, SettlesBefore
    <2> QED BY <1>1, <1>3, <2>2, <2>3, <2>6 DEF Settled
  <1>5. CASE ~client.handshake
    <2>1. Leaves(client, d)
      BY <1>1, <1>2, <1>5, ShakeLeaves, CloseLeaves
    <2> HIDE DEF d
    <2> QED BY <1>1, <2>1, PerformStill
  <1> QED BY <1>4, <1>5

\* An answer.
LEMMA RunAnswerTrue == ASSUME IInv, OInv, CInv, RunAnswer PROVE CInv'
  BY RunAnswerSettles, SettleTrue, StillTrue

-----------------------------------------------------------------------------
(* A write is stored.                                                       *)

\* The row of write w joins its user's queue with its callback.
Stored(c, d, w) ==
    LET u == c.user
        batch == [id |-> c.nextId, write |-> w]
    IN  /\ \E new \in Seq(Batch) : /\ new = Append(c.queue[u], batch)
                                  /\ Longer(new, c.queue[u], batch)
                                  /\ d.queue = [c.queue EXCEPT ![u] = new]
        /\ d.callbacks = [c.callbacks EXCEPT ![u] = @ \cup {batch}]
        /\ d.fresh = c.fresh \cup {w} /\ d.told = c.told
        /\ RowsOf(d.stream.down) \subseteq RowsOf(c.stream.down)

\* The user's write w is stored, behind all that were made before.
Stores(w) ==
    /\ w \in 1..Len(by) /\ by[w] = client.user /\ Stored(client, client', w)
    /\ \A x : Before(x) => Before(x)' /\ x < w
    /\ Before(w)' /\ UNCHANGED <<by, backend>>

\* The first task is the oldest write that waits.
LEMMA FirstWaits ==
    ASSUME NEW q, q # <<>>, q \in Seq(Task), NEW rest, rest = Tail(q), Head(q).kind = "write",
           NEW next \in Nat, NEW last \in Nat, DueInOrder(q, next, last)
    PROVE  /\ q[1] = Head(q) /\ 1 \in 1..Len(q) /\ Head(q).write \in next..last
           /\ \A i \in 1..Len(rest) : i + 1 \in 1..Len(q) /\ rest[i] = q[i + 1]
           /\ \A i \in 1..Len(rest) : rest[i].kind = "write" => Head(q).write < rest[i].write
  <1>1. Shorter(rest, q) /\ Head(q) = q[1]
    BY TailShorter
  <1>2. /\ Len(q) \in Nat /\ Len(q) >= 1 /\ Len(rest) = Len(q) - 1
        /\ \A i \in 1..Len(rest) : rest[i] = q[i + 1]
    BY <1>1 DEF Shorter
  <1>3. 1 \in 1..Len(q) /\ \A i \in 1..Len(rest) : i + 1 \in 1..Len(q) /\ 1 < i + 1
    BY <1>2
  <1>4. q[1].write \in next..last
    BY <1>1, <1>3 DEF DueInOrder
  <1>5. \A i \in 1..Len(rest) : rest[i].kind = "write" => q[1].write < rest[i].write
    BY <1>1, <1>2, <1>3 DEF DueInOrder
  <1> QED BY <1>1, <1>2, <1>3, <1>4, <1>5

\* The operation that stores a write.
LEMMA LocalFields ==
    ASSUME NEW c \in Client, NEW w \in Nat, \A k \in c.callbacks[c.user] : k.id # c.nextId,
           NEW d, d = FillWritePipeline(WriteLocally(c, w))
    PROVE  Shaped(d) /\ Stored(c, d, w)
  <1> DEFINE u == c.user
             batch == [id |-> c.nextId, write |-> w]
             rows == c.queue[u]
             new == Append(rows, batch)
             known == {k.id : k \in c.callbacks[u]}
             e == WriteLocally(c, w)
  <1>1. Shaped(c) /\ rows \in Seq(Batch) /\ batch \in Batch /\ u \in Users
    BY ClientShaped DEF Client, Batch
  <1>2. batch.id \notin known
    OBVIOUS
  <1>3. /\ DOMAIN e = DOMAIN c /\ e.user = c.user /\ e.stream = c.stream /\ e.told = c.told
        /\ e.queue = [c.queue EXCEPT ![u] = new] /\ e.fresh = c.fresh \cup {w}
        /\ e.callbacks = [c.callbacks EXCEPT ![u] =
                              IF batch.id \in known THEN @ ELSE @ \cup {batch}]
    BY <1>1 DEF WriteLocally, Shaped
  <1>4. e.callbacks = [c.callbacks EXCEPT ![u] = @ \cup {batch}]
    BY <1>2, <1>3
  <1>5. d = FillWritePipeline(e)
    OBVIOUS
  <1> HIDE DEF e, rows, known, batch, u
  <1>6. Longer(new, rows, batch) /\ new \in Seq(Batch)
    BY <1>1, AppendLonger
  <1> HIDE DEF new
  <1>7. Shaped(e)
    BY <1>1, <1>3, <1>6 DEF Shaped
  <1>8. Leaves(e, d)
    BY <1>5, <1>7, FillLeaves
  <1>9. /\ Shaped(d) /\ d.queue = e.queue /\ d.callbacks = e.callbacks
        /\ d.fresh = e.fresh /\ d.told = e.told
        /\ RowsOf(d.stream.down) \subseteq RowsOf(e.stream.down)
    BY <1>8 DEF Leaves
  <1>10. new = Append(c.queue[u], batch) /\ rows = c.queue[u]
    BY DEF new, rows
  <1> QED BY <1>1, <1>3, <1>4, <1>6, <1>9, <1>10 DEF Stored, u, batch

\* The first write that waits is stored.
LEMMA RunWriteStores == ASSUME IInv, OInv, CInv, RunWrite PROVE \E w \in Nat : Stores(w)
  <1> DEFINE task == Head(worker)
             u == client.user
  <1>1. /\ worker # <<>> /\ task.kind = "write" /\ worker' = Tail(worker)
        /\ Perform(FillWritePipeline(WriteLocally(client, task.write)))
        /\ UNCHANGED <<by, backend, credentials>>
    BY DEF RunWrite
  <1>2. /\ client \in Client /\ u \in Users /\ worker \in Seq(Task) /\ Len(by) \in Nat
        /\ client.nextId \in Nat /\ RowsSane(client.queue, client.nextId)
        /\ client.queue \in [Users -> Seq(Batch)]
        /\ DueInOrder(worker, client.nextId, Len(by))
        /\ WorkerOwned(worker, u, by, credentials.user)
    BY DEF IInv, OInv, Sound, Sane, Client, Typed, WritesFit
  <1>3. TaskFor(task, by, u)
    BY <1>1, <1>2, TakeOwned
  <1>4. PICK w \in Nat : w = task.write /\ w \in 1..Len(by) /\ by[w] = u
    BY <1>1, <1>2, <1>3 DEF TaskFor
  <1> DEFINE d == FillWritePipeline(WriteLocally(client, w))
  <1> HIDE DEF task
  <1>5. /\ worker[1] = task /\ 1 \in 1..Len(worker)
        /\ \A i \in 1..Len(worker') : i + 1 \in 1..Len(worker) /\ worker'[i] = worker[i + 1]
        /\ \A i \in 1..Len(worker') : worker'[i].kind = "write" => w < worker'[i].write
    BY <1>1, <1>2, <1>4, FirstWaits DEF task
  <1>6. ASSUME NEW x, Before(x) PROVE Before(x)' /\ x < w
    BY <1>1, <1>4, <1>5, <1>6 DEF Before
  <1>7. Before(w)'
    BY <1>1, <1>2, <1>4, <1>5 DEF Before
  <1>8. \A k \in client.callbacks[u] : k.id # client.nextId
    <2> TAKE k \in client.callbacks[u]
    <2>1. k \in RowsOf(client.queue[u])
      BY <1>2 DEF CInv, CallbacksFit
    <2>2. PICK i \in 1..Len(client.queue[u]) : k = client.queue[u][i]
      BY <2>1 DEF RowsOf
    <2>3. k.id \in 1..(client.nextId - 1)
      BY <1>2, <2>2 DEF RowsSane, Ordered
    <2> QED BY <1>2, <2>3
  <1>9. Shaped(d) /\ Stored(client, d, w)
    BY <1>2, <1>8, LocalFields
  <1> HIDE DEF d, u
  <1>10. client' = [d EXCEPT !.stream.asked = FALSE]
    BY <1>1, <1>4 DEF Perform, d
  <1>11. /\ client'.queue = d.queue /\ client'.callbacks = d.callbacks
         /\ client'.told = d.told /\ client'.fresh = d.fresh
         /\ client'.stream.down = d.stream.down
    BY <1>9, <1>10 DEF Shaped
  <1>12. UNCHANGED <<by, backend>>
    BY <1>1
  <1>13. Stores(w)
    BY <1>4, <1>6, <1>7, <1>9, <1>11, <1>12 DEF Stores, Stored, u
  <1> QED BY <1>4, <1>13

\* The new row's callback was told nothing, and it is the last of its queue.
LEMMA StoreTrue == ASSUME IInv, OInv, CInv, NEW w \in Nat, Stores(w) PROVE CInv'
  <1> DEFINE u == client.user
             rows == client.queue[u]
             batch == [id |-> client.nextId, write |-> w]
  <1>1. /\ u \in Users /\ client.queue \in [Users -> Seq(Batch)]
        /\ client.callbacks \in [Users -> SUBSET Batch] /\ client.nextId \in Nat
        /\ Len(by) \in Nat /\ Len(by) <= MaxWrites
    BY DEF IInv, Sound, Sane, Client, Typed
  <1>2. /\ w \in 1..Len(by) /\ Before(w)' /\ UNCHANGED <<by, backend>>
        /\ \A x : Before(x) => Before(x)' /\ x < w
    BY DEF Stores
  <1>3. /\ client'.callbacks = [client.callbacks EXCEPT ![u] = @ \cup {batch}]
        /\ client'.fresh = client.fresh \cup {w} /\ client'.told = client.told
        /\ RowsOf(client'.stream.down) \subseteq RowsOf(client.stream.down)
    BY DEF Stores, Stored
  <1>4. PICK new \in Seq(Batch) : /\ Longer(new, rows, batch)
                                  /\ client'.queue = [client.queue EXCEPT ![u] = new]
    BY DEF Stores, Stored
  <1>5. batch.write = w
    OBVIOUS
  <1> HIDE DEF batch, rows, u
  <1>6. /\ Len(rows) \in Nat /\ Len(new) = Len(rows) + 1 /\ new[Len(rows) + 1] = batch
        /\ \A i \in 1..Len(rows) : new[i] = rows[i]
        /\ \A i \in 1..Len(new) : i \in 1..Len(rows) \/ i = Len(rows) + 1
        /\ \A i \in 1..Len(rows) : i \in 1..Len(new)
        /\ Len(rows) + 1 \in 1..Len(new)
    BY <1>4 DEF Longer
  <1>7. RowsOf(new) = RowsOf(rows) \cup {batch}
    BY <1>6 DEF RowsOf
  <1>8. /\ client'.queue[u] = new /\ client.queue[u] = rows
        /\ \A v \in Users : v # u => client'.queue[v] = client.queue[v]
    BY <1>1, <1>4 DEF rows
  <1>9. \A v \in Users : \A row \in RowsOf(client.queue[v]) :
            Before(row.write) /\ Before(row.write)' /\ row.write # w
    BY <1>2 DEF CInv, Past
  <1>10. w \in Writes /\ client.told[w] = "no"
    <2>1. w \in Writes
      BY <1>1, <1>2, ParametersAssumption DEF Writes
    <2> QED BY <1>2, <2>1 DEF CInv, Past
  <1>11. CallbacksFit(client) /\ WaitingAreQueued(client)
    BY DEF CInv
  <1>12. /\ client'.callbacks[u] = client.callbacks[u] \cup {batch}
         /\ \A v \in Users : v # u => client'.callbacks[v] = client.callbacks[v]
    BY <1>1, <1>3
  <1>13. CallbacksFit(client)'
    <2> SUFFICES ASSUME NEW v \in Users
                 PROVE  /\ client'.callbacks[v] \subseteq RowsOf(client'.queue[v])
                        /\ \A row \in RowsOf(client'.queue[v]) : row.write \in client'.fresh =>
                               row \in client'.callbacks[v] /\ client'.told[row.write] = "no"
      BY DEF CallbacksFit
    <2>1. /\ client.callbacks[v] \subseteq RowsOf(client.queue[v])
          /\ \A row \in RowsOf(client.queue[v]) : row.write \in client.fresh =>
                 row \in client.callbacks[v] /\ client.told[row.write] = "no"
      BY <1>11 DEF CallbacksFit
    <2>2. \A row \in RowsOf(client.queue[v]) : row.write \in client'.fresh =>
              row \in client.callbacks[v] /\ client'.told[row.write] = "no"
      BY <1>3, <1>9, <2>1
    <2>3. CASE v = u
      BY <1>3, <1>5, <1>7, <1>8, <1>10, <1>12, <2>1, <2>2, <2>3
    <2>4. CASE v # u
      BY <1>8, <1>12, <2>1, <2>2, <2>4
    <2> QED BY <2>3, <2>4
  <1>14. WaitingAreQueued(client)'
    <2> SUFFICES ASSUME NEW x \in client'.fresh, client'.told[x] = "no"
                 PROVE  \E v \in Users : \E row \in RowsOf(client'.queue[v]) : row.write = x
      BY DEF WaitingAreQueued
    <2>1. CASE x = w
      BY <1>1, <1>5, <1>7, <1>8, <2>1
    <2>2. CASE x # w
      <3>1. x \in client.fresh /\ client.told[x] = "no"
        BY <1>3, <2>2
      <3>2. PICK v \in Users : \E row \in RowsOf(client.queue[v]) : row.write = x
        BY <1>11, <3>1 DEF WaitingAreQueued
      <3>3. RowsOf(client.queue[v]) \subseteq RowsOf(client'.queue[v])
        BY <1>7, <1>8
      <3> QED BY <3>2, <3>3
    <2> QED BY <2>1, <2>2
  <1>15. \A v \in Users : Increasing(client'.queue[v])
    <2>1. Increasing(new)
      <3> SUFFICES ASSUME NEW i \in 1..Len(new), NEW j \in 1..Len(new), i < j
                   PROVE  new[i].write < new[j].write
        BY DEF Increasing
      <3>1. i \in 1..Len(rows)
        BY <1>6
      <3>2. new[i] = rows[i]
        BY <1>6, <3>1
      <3>3. CASE j \in 1..Len(rows)
        <4>1. Increasing(rows)
          BY <1>1, <1>8 DEF CInv
        <4> QED BY <1>6, <3>1, <3>2, <3>3, <4>1 DEF Increasing
      <3>4. CASE j = Len(rows) + 1
        <4>1. rows[i] \in RowsOf(client.queue[u])
          BY <1>8, <3>1 DEF RowsOf
        <4>2. rows[i].write < w
          BY <1>1, <1>2, <1>9, <4>1
        <4> QED BY <1>5, <1>6, <3>2, <3>4, <4>2
      <3> QED BY <1>6, <3>3, <3>4
    <2> QED BY <1>8, <2>1 DEF CInv
  <1>16. Past'
    <2>1. \A v \in Users : \A row \in RowsOf(client'.queue[v]) : Before(row.write)'
      BY <1>2, <1>5, <1>7, <1>8, <1>9
    <2>2. \A x \in client'.fresh : x \in Writes /\ Before(x)'
      BY <1>2, <1>3, <1>10 DEF CInv, Past
    <2>3. \A x \in Writes : client'.told[x] # "no" => Before(x)'
      BY <1>2, <1>3 DEF CInv, Past
    <2>4. /\ \A x \in backend'.applied : Before(x)'
          /\ \A v \in Users : Before(backend.latest[v])'
      <3>1. /\ \A x \in backend.applied : Before(x)
            /\ \A v \in Users : Before(backend.latest[v])
        BY DEF CInv, Past
      <3> QED BY <1>2, <3>1
    <2> QED BY <2>1, <2>2, <2>3, <2>4 DEF Past
  <1>17. ToldTrue' /\ AnswersTrue'
    BY <1>2, <1>3 DEF CInv, ToldTrue, AnswersTrue
  <1> QED BY <1>2, <1>13, <1>14, <1>15, <1>16, <1>17 DEF CInv

\* A write is stored.
LEMMA RunWriteTrue == ASSUME IInv, OInv, CInv, RunWrite PROVE CInv'
  BY RunWriteStores, StoreTrue

-----------------------------------------------------------------------------
(* The backend handles a request.                                           *)

\* Write w is in place k of the user's rows, the backend has applied those
\* before it, and every answer on its way is about one of them.
NextRow(w, k) ==
    LET rows == client.queue[client.user]
    IN  /\ k \in 1..Len(rows) /\ rows[k].write = w
        /\ \A j \in 1..(k - 1) : rows[j].write \in backend.applied
        /\ \A answer \in RowsOf(client.stream.down) :
               \E j \in 1..(k - 1) : answer.write = rows[j].write

\* Request w is the handshake or the next of the user's rows.
Handles(w) ==
    /\ client'.queue = client.queue /\ client'.callbacks = client.callbacks
    /\ client'.told = client.told /\ client'.fresh = client.fresh
    /\ RowsOf(client'.stream.down) =
           RowsOf(client.stream.down) \cup {[write |-> w, ok |-> w \notin Refused]}
    /\ UNCHANGED <<by, worker>>
    /\ IF w = Handshake \/ w \in Refused THEN backend' = backend
       ELSE /\ backend'.applied = backend.applied \cup {w}
            /\ backend'.latest = [backend.latest EXCEPT ![by[w]] = w]
    /\ w # Handshake => \E k \in Nat : NextRow(w, k)

\* The first request of the stream is the handshake or the next row.
LEMMA RequestIsNext ==
    ASSUME IInv, OInv, CInv, client.stream.up # <<>>,
           \A i \in DOMAIN client.stream.down : client.stream.down[i].ok,
           NEW w, w = Head(client.stream.up), w # Handshake
    PROVE  \E k \in Nat : NextRow(w, k)
  <1> DEFINE s == client.stream
             up == s.up
             down == s.down
             rows == client.queue[client.user]
             pipeline == client.pipeline
             k == Len(down) + 1
  <1>1. /\ client \in Client /\ up \in Seq(Nat) /\ down \in Seq(Answer)
        /\ rows \in Seq(Batch) /\ pipeline \in Seq(Batch) /\ client.user \in Users
    BY DEF IInv, Sound, Sane, Client, StreamType
  <1>2. IsOpen(s) /\ StreamOwned(client)
    BY DEF IInv, OInv, Sound, Sane, StreamSane
  <1>3. Len(down) \in Nat /\ Len(up) \in Nat /\ Len(up) >= 1 /\ w = up[1]
    BY <1>1, TailFacts
  <1>4. 1 \in 1..Len(up) /\ k \in Nat
    BY <1>3
  <1>5. client.handshake
    BY <1>2, <1>3, <1>4 DEF StreamOwned
  <1>6. Matches(down, up, pipeline) /\ Heads(pipeline, rows)
    BY <1>2, <1>5 DEF IInv, Sound, Sane, OnWire, Prefixed
  <1>7. \A answer \in RowsOf(down) :
            answer.ok /\ (answer.write # Handshake => answer.write \in backend.applied)
    <2> TAKE answer \in RowsOf(down)
    <2>1. PICK i \in 1..Len(down) : answer = down[i]
      BY DEF RowsOf
    <2>2. i \in DOMAIN down
      BY <1>1, <2>1
    <2>3. answer.ok
      BY <2>1, <2>2
    <2> QED BY <2>3 DEF CInv, AnswersTrue
  <1>8. RowsOwned(client.queue, by)
    BY DEF OInv
  <1> HIDE DEF s, up, down, pipeline
  <1>9. ASSUME NEW j \in 1..Len(down)
        PROVE  j \in 1..(k - 1) /\ j \in 1..Len(pipeline) /\ down[j].write = rows[j].write
    <2>1. j \in 1..Len(pipeline) /\ j \in 1..(k - 1)
      BY <1>3, <1>6 DEF Matches
    <2> QED BY <1>6, <2>1 DEF Matches, Heads
  <1>10. k \in 1..Len(pipeline) /\ w = pipeline[k].write
    <2>1. k \in 1..Len(pipeline)
      BY <1>3, <1>6 DEF Matches
    <2> QED BY <1>3, <1>4, <1>6, <2>1 DEF Matches
  <1>11. k \in 1..Len(rows) /\ rows[k].write = w
    BY <1>1, <1>6, <1>10 DEF Heads
  <1>12. \A j \in 1..(k - 1) : j \in 1..Len(down) /\ j \in 1..Len(rows)
    BY <1>1, <1>3, <1>11
  <1> HIDE DEF k, rows
  <1>13. \A j \in 1..(k - 1) : rows[j].write \in backend.applied
    <2> TAKE j \in 1..(k - 1)
    <2>1. down[j] \in RowsOf(down) /\ rows[j] \in RowsOf(rows)
      BY <1>12 DEF RowsOf
    <2>2. rows[j].write \in 1..Len(by)
      BY <1>1, <1>8, <2>1 DEF RowsOwned, rows
    <2>3. rows[j].write # Handshake
      BY <2>2 DEF Handshake
    <2> QED BY <1>7, <1>9, <1>12, <2>1, <2>3
  <1>14. \A answer \in RowsOf(down) : \E j \in 1..(k - 1) : answer.write = rows[j].write
    BY <1>9 DEF RowsOf
  <1>15. NextRow(w, k)
    BY <1>11, <1>13, <1>14 DEF NextRow, rows, down, s
  <1> QED BY <1>4, <1>15 DEF k

\* What the backend does with it.
LEMMA BackendHandlesFirst ==
    ASSUME IInv, OInv, CInv, BackendHandles PROVE \E w \in Nat : Handles(w)
  <1> DEFINE s == client.stream
  <1>1. client \in Client /\ Shaped(client) /\ s.up \in Seq(Nat) /\ s.down \in Seq(Answer)
    BY ClientShaped DEF IInv, Sound, Sane, Client, StreamType
  <1>2. s.up # <<>> /\ (\A i \in DOMAIN s.down : s.down[i].ok) /\ UNCHANGED <<by, worker>>
    BY DEF BackendHandles
  <1>3. PICK w \in Nat : w = Head(s.up)
    BY <1>1, <1>2, TailFacts
  <1> DEFINE answer == [write |-> w, ok |-> w \notin Refused]
             up == Tail(s.up)
             down == Append(s.down, answer)
  <1>4. client' = [client EXCEPT !.stream.up = up, !.stream.down = down]
    BY <1>3 DEF BackendHandles
  <1>5. IF w = Handshake \/ w \in Refused THEN backend' = backend
        ELSE /\ backend'.applied = backend.applied \cup {w}
             /\ backend'.latest = [backend.latest EXCEPT ![by[w]] = w]
    BY <1>3 DEF BackendHandles
  <1>6. answer \in Answer
    BY DEF Answer
  <1> HIDE DEF answer, up
  <1>7. /\ Len(down) = Len(s.down) + 1 /\ Len(s.down) \in Nat
        /\ \A i \in 1..Len(s.down) : down[i] = s.down[i]
        /\ down[Len(s.down) + 1] = answer
    BY <1>1, <1>6, AppendFacts
  <1> HIDE DEF down
  <1>8. RowsOf(down) = RowsOf(s.down) \cup {answer}
    <2>1. /\ \A i \in 1..Len(down) : i \in 1..Len(s.down) \/ i = Len(s.down) + 1
          /\ \A i \in 1..Len(s.down) : i \in 1..Len(down)
          /\ Len(s.down) + 1 \in 1..Len(down)
      BY <1>7
    <2> QED BY <1>7, <2>1 DEF RowsOf
  <1>9. /\ client'.queue = client.queue /\ client'.callbacks = client.callbacks
        /\ client'.told = client.told /\ client'.fresh = client.fresh
        /\ client'.stream.down = down
    BY <1>1, <1>4 DEF Shaped
  <1>10. w # Handshake => \E k \in Nat : NextRow(w, k)
    BY <1>2, <1>3, RequestIsNext
  <1>11. Handles(w)
    BY <1>2, <1>5, <1>8, <1>9, <1>10 DEF Handles, answer
  <1> QED BY <1>3, <1>11

\* The new answer is true, and those before it stay so.
LEMMA HandleTrue == ASSUME IInv, OInv, CInv, NEW w \in Nat, Handles(w) PROVE CInv'
  <1> DEFINE u == client.user
             rows == client.queue[u]
             new == [write |-> w, ok |-> w \notin Refused]
  <1>1. /\ u \in Users /\ rows \in Seq(Batch) /\ Len(rows) \in Nat
        /\ backend.latest \in [Users -> Nat] /\ Increasing(rows)
        /\ RowsOwned(client.queue, by)
    BY DEF IInv, OInv, CInv, Sound, Sane, Client
  <1>2. /\ client'.queue = client.queue /\ client'.callbacks = client.callbacks
        /\ client'.told = client.told /\ client'.fresh = client.fresh
        /\ RowsOf(client'.stream.down) = RowsOf(client.stream.down) \cup {new}
        /\ UNCHANGED <<by, worker>>
        /\ IF w = Handshake \/ w \in Refused THEN backend' = backend
           ELSE /\ backend'.applied = backend.applied \cup {w}
                /\ backend'.latest = [backend.latest EXCEPT ![by[w]] = w]
        /\ w # Handshake => \E k \in Nat : NextRow(w, k)
    BY DEF Handles
  <1>3. new.write = w /\ new.ok = (w \notin Refused)
    OBVIOUS
  <1>4. \A x : Before(x) => Before(x)'
    BY <1>2 DEF Before
  <1> HIDE DEF new, u, rows
  <1>5. CallbacksFit(client)' /\ WaitingAreQueued(client)'
    BY <1>2 DEF CInv, CallbacksFit, WaitingAreQueued
  <1>6. \A v \in Users : Increasing(client'.queue[v])
    BY <1>2 DEF CInv
  <1>7. Past' /\ AnswersTrue' /\ ToldTrue' /\ backend'.latest \in [Users -> Nat]
    <2>1. CASE w = Handshake \/ w \in Refused
      <3>1. backend' = backend
        BY <1>2, <2>1
      <3>2. Past'
        BY <1>2, <1>4, <3>1 DEF CInv, Past
      <3>3. w \in Refused \/ (w = Handshake /\ new.ok)
        BY <1>3, <2>1
      <3>4. AnswersTrue'
        BY <1>2, <1>3, <3>1, <3>3 DEF CInv, AnswersTrue
      <3>5. ToldTrue'
        BY <1>2, <3>1 DEF CInv, ToldTrue
      <3> QED BY <1>1, <3>1, <3>2, <3>4, <3>5
    <2>2. CASE ~(w = Handshake \/ w \in Refused)
      <3>1. PICK k \in Nat : NextRow(w, k)
        BY <1>2, <2>2
      <3>2. /\ k \in 1..Len(rows) /\ rows[k].write = w
            /\ \A answer \in RowsOf(client.stream.down) :
                   \E j \in 1..(k - 1) : answer.write = rows[j].write
        BY <3>1 DEF NextRow, rows, u
      <3>3. by[w] = u /\ Before(w)
        <4>1. rows[k] \in RowsOf(client.queue[u])
          BY <3>2 DEF RowsOf, rows
        <4> QED BY <1>1, <3>2, <4>1 DEF RowsOwned, CInv, Past
      <3>4. /\ backend'.applied = backend.applied \cup {w}
            /\ backend'.latest = [backend.latest EXCEPT ![u] = w]
        BY <1>2, <2>2, <3>3
      <3>5. /\ backend'.latest \in [Users -> Nat] /\ backend'.latest[u] = w
            /\ \A v \in Users : v # u => backend'.latest[v] = backend.latest[v]
        BY <1>1, <3>4
      <3>6. \A answer \in RowsOf(client.stream.down) :
                answer.write <= w /\ by[answer.write] = u
        <4> TAKE answer \in RowsOf(client.stream.down)
        <4>1. PICK j \in 1..(k - 1) : answer.write = rows[j].write
          BY <3>2
        <4>2. j \in 1..Len(rows) /\ j < k
          BY <1>1, <3>2, <4>1
        <4>3. rows[j].write < rows[k].write
          BY <1>1, <3>2, <4>2 DEF Increasing
        <4>4. rows[j] \in Batch /\ rows[j] \in RowsOf(client.queue[u])
          BY <1>1, <4>2 DEF RowsOf, rows
        <4>5. rows[j].write \in Nat /\ by[rows[j].write] = u
          BY <1>1, <4>4 DEF Batch, RowsOwned
        <4> QED BY <3>2, <4>1, <4>3, <4>5
      <3>7. Past'
        <4>1. /\ \A v \in Users : \A row \in RowsOf(client'.queue[v]) : Before(row.write)'
              /\ \A x \in client'.fresh : x \in Writes /\ Before(x)'
              /\ \A x \in Writes : client'.told[x] # "no" => Before(x)'
          BY <1>2, <1>4 DEF CInv, Past
        <4>2. \A x \in backend'.applied : Before(x)'
          BY <1>4, <3>3, <3>4 DEF CInv, Past
        <4>3. \A v \in Users : Before(backend.latest[v])'
          <5> TAKE v \in Users
          <5>1. PICK x : x = backend'.latest[v]
            OBVIOUS
          <5>2. Before(x)
            BY <3>3, <3>5, <5>1 DEF CInv, Past
          <5>3. Before(x)'
            BY <1>4, <5>2
          <5> QED BY <5>1, <5>3 DEF Before
        <4> QED BY <4>1, <4>2, <4>3 DEF Past
      <3>8. AnswersTrue'
        <4> SUFFICES ASSUME NEW answer \in RowsOf(client'.stream.down)
                     PROVE  IF answer.ok
                            THEN answer.write # Handshake =>
                                     /\ answer.write \in backend'.applied
                                     /\ answer.write <= backend'.latest[by'[answer.write]]
                            ELSE answer.write \in Refused
          BY DEF AnswersTrue
        <4>1. CASE answer = new
          <5>1. answer.write = w /\ answer.ok
            BY <1>3, <2>2, <4>1
          <5>2. w \in backend'.applied /\ by'[w] = u /\ backend'.latest[u] = w
            BY <1>2, <3>3, <3>4, <3>5
          <5> QED BY <5>1, <5>2
        <4>2. CASE answer # new
          <5>1. answer \in RowsOf(client.stream.down)
            BY <1>2, <4>2
          <5>2. /\ answer.ok => (answer.write # Handshake => answer.write \in backend.applied)
                /\ ~answer.ok => answer.write \in Refused
            BY <5>1 DEF CInv, AnswersTrue
          <5>3. answer.write <= w /\ by[answer.write] = u
            BY <3>6, <5>1
          <5> QED BY <1>2, <3>4, <3>5, <5>2, <5>3
        <4> QED BY <4>1, <4>2
      <3>9. ToldTrue'
        BY <1>2, <3>4 DEF CInv, ToldTrue
      <3> QED BY <3>5, <3>7, <3>8, <3>9
    <2> QED BY <2>1, <2>2
  <1> QED BY <1>5, <1>6, <1>7 DEF CInv

\* The backend handles a request.
LEMMA BackendHandlesTrue == ASSUME IInv, OInv, CInv, BackendHandles PROVE CInv'
  BY BackendHandlesFirst, HandleTrue

-----------------------------------------------------------------------------
(* The app makes a write, and the app starts.                               *)

\* What is queued, told or applied was made before the new write.
LEMMA AppWritesTrue == ASSUME IInv, OInv, CInv, AppWrites PROVE CInv'
  <1> DEFINE task == [kind |-> "write", write |-> Len(by) + 1]
  <1>1. /\ by' = Append(by, credentials.user) /\ worker' = Append(worker, task)
        /\ UNCHANGED <<client, backend>>
    BY DEF AppWrites
  <1>2. /\ worker \in Seq(Task) /\ by \in Seq(Users) /\ credentials.user \in Users
        /\ Len(by) \in Nat
    BY DEF IInv, Typed
  <1>3. task \in Task /\ task.write = Len(by) + 1
    BY <1>2 DEF Task
  <1> HIDE DEF task
  <1>4. Len(by') = Len(by) + 1 /\ \A i \in 1..Len(by) : by'[i] = by[i]
    BY <1>1, <1>2, AppendFacts
  <1>5. Longer(worker', worker, task)
    BY <1>1, <1>2, <1>3, AppendLonger
  <1>6. \A i \in 1..Len(worker') : \/ i \in 1..Len(worker) /\ worker'[i] = worker[i]
                                   \/ worker'[i] = task
    BY <1>5 DEF Longer
  <1>7. ASSUME NEW x, Before(x) PROVE Before(x)'
    <2>1. x \in 0..Len(by) /\ x \in 0..Len(by') /\ x < task.write
      BY <1>2, <1>3, <1>4, <1>7 DEF Before
    <2> QED BY <1>6, <1>7, <2>1 DEF Before
  <1>8. Past'
    BY <1>1, <1>7 DEF CInv, Past
  <1>9. AnswersTrue'
    <2> SUFFICES ASSUME NEW answer \in RowsOf(client.stream.down)
                 PROVE  IF answer.ok
                        THEN answer.write # Handshake =>
                                 /\ answer.write \in backend.applied
                                 /\ answer.write <= backend.latest[by'[answer.write]]
                        ELSE answer.write \in Refused
      BY <1>1 DEF AnswersTrue
    <2>1. IF answer.ok
          THEN answer.write # Handshake =>
                   /\ answer.write \in backend.applied
                   /\ answer.write <= backend.latest[by[answer.write]]
          ELSE answer.write \in Refused
      BY DEF CInv, AnswersTrue
    <2>2. ASSUME answer.write \in backend.applied, answer.write # Handshake
          PROVE  by'[answer.write] = by[answer.write]
      <3>1. answer.write \in 1..Len(by)
        BY <1>2, <2>2 DEF CInv, Past, Before, Handshake
      <3> QED BY <1>4, <3>1
    <2> QED BY <2>1, <2>2
  <1>10. CallbacksFit(client)' /\ WaitingAreQueued(client)' /\ ToldTrue'
    BY <1>1 DEF CInv, CallbacksFit, WaitingAreQueued, ToldTrue
  <1> QED BY <1>1, <1>8, <1>9, <1>10 DEF CInv

Booted(d, queue, told) ==
    /\ Shaped(d) /\ d.queue = queue /\ d.told = told /\ d.fresh = {}
    /\ d.callbacks = [v \in Users |-> {}] /\ RowsOf(d.stream.down) = {}

\* After a start there are the queues on disk and no callbacks.
LEMMA BootLeaves ==
    ASSUME NEW queue \in [Users -> Seq(Batch)], NEW u \in Users, NEW told,
           NEW d, d = Boot(queue, u, told)
    PROVE  Booted(d, queue, told)
  <1> DEFINE c == [user |-> u, network |-> FALSE, queue |-> queue,
                   nextId |-> NextBatchId(queue), pipeline |-> <<>>, stream |-> NewStream,
                   handshake |-> FALSE,
                   callbacks |-> [v \in Users |-> {}], told |-> told, fresh |-> {},
                   failed |-> FALSE]
  <1>1. d = EnableNetworkInternal(c)
    BY DEF Boot
  <1>2. /\ Shaped(c) /\ c.queue = queue /\ c.told = told /\ c.fresh = {}
        /\ c.callbacks = [v \in Users |-> {}] /\ c.stream.down = <<>>
    BY DEF Shaped, NewStream
  <1> HIDE DEF c
  <1>3. Leaves(c, d)
    BY <1>1, <1>2, EnableLeaves
  <1>4. RowsOf(c.stream.down) = {}
    BY <1>2 DEF RowsOf
  <1> QED BY <1>2, <1>3, <1>4 DEF Leaves, Booted

\* What a crash leaves.
LEMMA CrashLeaves ==
    ASSUME IInv, Crash
    PROVE  /\ client'.queue = client.queue /\ client'.told = client.told
           /\ client'.callbacks = [v \in Users |-> {}] /\ client'.fresh = {}
           /\ RowsOf(client'.stream.down) = {}
           /\ UNCHANGED <<by, backend>> /\ StillBefore
  <1>1. /\ client' = [Boot(client.queue, account, client.told) EXCEPT !.stream.asked = FALSE]
        /\ worker' = <<>> /\ UNCHANGED <<by, backend>>
    BY DEF Crash
  <1>2. client.queue \in [Users -> Seq(Batch)] /\ account \in Users /\ worker \in Seq(Task)
    BY DEF IInv, Sound, Sane, Client, Typed
  <1>3. PICK queue, told : queue = client.queue /\ told = client.told
    OBVIOUS
  <1> DEFINE d == Boot(queue, account, told)
  <1>5. client' = [d EXCEPT !.stream.asked = FALSE]
    BY <1>1, <1>3
  <1>0. d = Boot(queue, account, told) /\ queue \in [Users -> Seq(Batch)]
    BY <1>2, <1>3
  <1> HIDE DEF d
  <1>4. Booted(d, queue, told)
    BY <1>0, <1>2, BootLeaves
  <1>6. /\ client'.queue = d.queue /\ client'.told = d.told /\ client'.fresh = d.fresh
        /\ client'.callbacks = d.callbacks /\ client'.stream.down = d.stream.down
    BY <1>4, <1>5 DEF Shaped, Booted
  <1>7. StillBefore
    BY <1>1, <1>2, WorkerStillBefore
  <1> QED BY <1>1, <1>3, <1>4, <1>6, <1>7 DEF Booted

\* A crash forgets the callbacks and the answers.
LEMMA CrashTrue == ASSUME IInv, CInv, Crash PROVE CInv'
  <1>1. /\ client'.queue = client.queue /\ client'.told = client.told
        /\ client'.callbacks = [v \in Users |-> {}] /\ client'.fresh = {}
        /\ RowsOf(client'.stream.down) = {}
        /\ UNCHANGED <<by, backend>> /\ StillBefore
    BY CrashLeaves
  <1>2. CallbacksFit(client)' /\ WaitingAreQueued(client)'
    BY <1>1 DEF CallbacksFit, WaitingAreQueued
  <1>3. Past'
    BY <1>1 DEF CInv, Past, StillBefore
  <1>4. ToldTrue' /\ AnswersTrue'
    BY <1>1 DEF CInv, ToldTrue, AnswersTrue
  <1> QED BY <1>1, <1>2, <1>3, <1>4 DEF CInv

\* What the first start finds.
LEMMA InitLeaves ==
    ASSUME Init
    PROVE  /\ client.queue = [u \in Users |-> <<>>] /\ client.told = [w \in Writes |-> "no"]
           /\ client.callbacks = [v \in Users |-> {}] /\ client.fresh = {}
           /\ RowsOf(client.stream.down) = {}
  <1>1. PICK queue, told : /\ queue = [u \in Users |-> <<>>]
                           /\ told = [w \in Writes |-> "no"]
    OBVIOUS
  <1>2. client = Boot(queue, account, told) /\ account \in Users
    BY <1>1 DEF Init
  <1>3. queue \in [Users -> Seq(Batch)]
    BY <1>1
  <1>4. Booted(client, queue, told)
    BY <1>2, <1>3, BootLeaves
  <1> QED BY <1>1, <1>4 DEF Booted

\* Nothing is queued at first.
LEMMA InitTrue == ASSUME Init PROVE CInv
  <1>1. /\ client.queue = [u \in Users |-> <<>>] /\ client.told = [w \in Writes |-> "no"]
        /\ client.callbacks = [v \in Users |-> {}] /\ client.fresh = {}
        /\ RowsOf(client.stream.down) = {}
    BY InitLeaves
  <1>2. /\ by = <<>> /\ worker = <<>> /\ backend.applied = {}
        /\ backend.latest = [u \in Users |-> 0]
    BY DEF Init
  <1>3. \A u \in Users : client.queue[u] = <<>> /\ RowsOf(client.queue[u]) = {}
    BY <1>1 DEF RowsOf
  <1>4. Before(0)
    BY <1>2 DEF Before
  <1>5. CallbacksFit(client) /\ WaitingAreQueued(client)
    BY <1>1, <1>3 DEF CallbacksFit, WaitingAreQueued
  <1>6. Past
    BY <1>1, <1>2, <1>3, <1>4 DEF Past
  <1>7. ToldTrue /\ AnswersTrue
    BY <1>1 DEF ToldTrue, AnswersTrue
  <1>8. \A u \in Users : Increasing(client.queue[u])
    BY <1>3 DEF Increasing
  <1>9. backend.latest \in [Users -> Nat]
    BY <1>2
  <1> QED BY <1>5, <1>6, <1>7, <1>8, <1>9 DEF CInv

\* A step settles a row, stores one, has a request handled or leaves the queues
\* and the backend alone.
LEMMA StepKinds ==
    ASSUME IInv, OInv, CInv, [Next]_vars
    PROVE  \/ Still \/ AppWrites \/ Crash
           \/ \E verdict \in {"ok", "refused"} : Settled(verdict)
           \/ \E w \in Nat : Stores(w) \/ Handles(w)
  <1>1. CASE \/ \E ask \in asking : AuthTakesCall(ask) \/ AuthGivesToken(ask) \/ AuthFails(ask)
             \/ \E u \in Users : AccountChanges(u)
    BY <1>1, AuthStill
  <1>2. CASE CredentialsNotified \/ TokenAnswered
    BY <1>2, MainStill
  <1>3. CASE RunCredentialChange \/ RunToken
    BY <1>3, RunCredentialChangeStill, RunTokenStill
  <1>4. CASE \/ RunBackoff \/ RunIdle \/ StreamBreaks
             \/ ConnectivityChanges \/ DisableNetwork \/ EnableNetwork
    BY <1>4, LoneStill
  <1>5. CASE RunAnswer
    BY <1>5, RunAnswerSettles
  <1>6. CASE RunWrite
    BY <1>6, RunWriteStores
  <1>7. CASE BackendHandles
    BY <1>7, BackendHandlesFirst
  <1>8. CASE UNCHANGED vars
    BY <1>8, ClientStill DEF vars
  <1> QED BY <1>1, <1>2, <1>3, <1>4, <1>5, <1>6, <1>7, <1>8 DEF Next, Works

\* Every step keeps the invariant.
LEMMA StepTrue == ASSUME IInv, OInv, CInv, [Next]_vars PROVE CInv'
  BY StepKinds, StillTrue, AppWritesTrue, CrashTrue, SettleTrue, StoreTrue, HandleTrue

\* A completion handler runs when its write leaves the queue and not before, and
\* is told what the backend did, for any accounts and over every change of
\* user, failure and restart.
THEOREM HandlersAreTrue == Spec => []CallbacksAreTrue
  <1>1. ASSUME IInv, CInv PROVE CallbacksAreTrue
    <2>1. client.queue \in [Users -> Seq(Batch)]
      BY <1>1 DEF IInv, Sound, Sane, Client
    <2>2. \A w : Queued(w) <=> \E u \in Users : \E row \in RowsOf(client.queue[u]) : row.write = w
      BY DEF Queued, RowsOf
    <2>3. ASSUME NEW w \in client.fresh PROVE client.told[w] = "no" <=> Queued(w)
      BY <1>1, <2>2, <2>3 DEF CInv, WaitingAreQueued, CallbacksFit
    <2> QED BY <1>1, <2>3 DEF CallbacksAreTrue, CInv, ToldTrue
  <1>2. Init => CInv
    BY InitTrue
  <1>3. Init => OInv
    BY InitOwned
  <1>4. IInv /\ IInv' /\ OInv /\ [Next]_vars => OInv'
    BY StepOwned
  <1>5. IInv /\ OInv /\ CInv /\ [Next]_vars => CInv'
    BY StepTrue
  <1> QED BY <1>1, <1>2, <1>3, <1>4, <1>5, Invariant, PTL DEF Spec

-----------------------------------------------------------------------------
(* The newest write stays.                                                  *)

\* An applied write of user u is still in u's queue, or it is older than
\* whatever is and the backend has applied nothing older of that user since.
Stays(w, u) ==
    \/ \E row \in RowsOf(client.queue[u]) : row.write = w
    \/ /\ w <= backend.latest[u]
       /\ \A row \in RowsOf(client.queue[u]) : w < row.write

NInv ==
    /\ \A w \in backend.applied : w # Handshake /\ w \notin Refused
    /\ \A u \in Users : \A w \in backend.applied : by[w] = u => Stays(w, u)

\* Steps that leave the queues and the backend alone keep it.
LEMMA AloneStays ==
    ASSUME NInv, client'.queue = client.queue, UNCHANGED <<by, backend>> PROVE NInv'
  BY DEF NInv, Stays

\* The row that leaves is the oldest, and was applied last unless it was refused.
LEMMA SettleStays ==
    ASSUME IInv, OInv, CInv, NInv, NEW verdict \in {"ok", "refused"}, Settled(verdict)
    PROVE  NInv'
  <1> DEFINE u == client.user
             rows == client.queue[u]
             first == rows[1].write
  <1>1. /\ client \in Client /\ u \in Users /\ rows \in Seq(Batch) /\ rows # <<>>
        /\ client.nextId \in Int /\ RowsSane(client.queue, client.nextId)
        /\ client.queue \in [Users -> Seq(Batch)] /\ Increasing(rows)
    BY DEF IInv, CInv, Sound, Sane, Client, Settled, Settles
  <1>2. PICK new : TailOf(new, rows) /\ client'.queue = [client.queue EXCEPT ![u] = new]
    BY DEF Settled, Settles
  <1>3. /\ UNCHANGED <<by, backend>>
        /\ \/ first \in backend.applied /\ first <= backend.latest[u]
           \/ first \in Refused
    BY DEF Settled
  <1>4. Ordered(rows, client.nextId)
    BY <1>1 DEF RowsSane
  <1>5. /\ rows[1] \in RowsOf(rows) /\ RowsOf(new) \subseteq RowsOf(rows)
        /\ \A row \in RowsOf(rows) : row = rows[1] \/ row \in RowsOf(new)
    BY <1>1, <1>2, <1>4, TailRows
  <1>6. \A row \in RowsOf(new) : first < row.write
    <2> SUFFICES ASSUME NEW i \in 1..Len(new) PROVE first < new[i].write
      BY DEF RowsOf
    <2>1. /\ Len(rows) \in Nat /\ Len(new) = Len(rows) - 1 /\ new[i] = rows[i + 1]
      BY <1>1, <1>2 DEF TailOf
    <2>2. 1 \in 1..Len(rows) /\ i + 1 \in 1..Len(rows) /\ 1 < i + 1
      BY <2>1
    <2> QED BY <1>1, <2>1, <2>2 DEF Increasing
  <1>7. /\ client'.queue[u] = new /\ client.queue[u] = rows
        /\ \A v \in Users : v # u => client'.queue[v] = client.queue[v]
    BY <1>1, <1>2
  <1> HIDE DEF rows, u
  <1>8. ASSUME NEW v \in Users, NEW w \in backend.applied, by[w] = v PROVE Stays(w, v)'
    <2>1. Stays(w, v) /\ w \notin Refused
      BY <1>8 DEF NInv
    <2>2. CASE v # u
      BY <1>3, <1>7, <2>1, <2>2 DEF Stays
    <2>3. CASE v = u /\ w = first
      BY <1>3, <1>6, <1>7, <2>1, <2>3 DEF Stays
    <2>4. CASE v = u /\ w # first
      BY <1>3, <1>5, <1>7, <2>1, <2>4 DEF Stays
    <2> QED BY <2>2, <2>3, <2>4
  <1> QED BY <1>3, <1>8 DEF NInv

\* A row that is stored is newer than all that was applied.
LEMMA StoreStays ==
    ASSUME IInv, CInv, NInv, NEW w \in Nat, Stores(w) PROVE NInv'
  <1> DEFINE u == client.user
             rows == client.queue[u]
             batch == [id |-> client.nextId, write |-> w]
  <1>1. u \in Users /\ client.queue \in [Users -> Seq(Batch)]
    BY DEF IInv, Sound, Sane, Client
  <1>2. UNCHANGED <<by, backend>> /\ \A x \in backend.applied : x < w
    BY DEF Stores, CInv, Past
  <1>3. PICK new \in Seq(Batch) : /\ Longer(new, rows, batch)
                                  /\ client'.queue = [client.queue EXCEPT ![u] = new]
    BY DEF Stores, Stored
  <1>4. batch.write = w
    OBVIOUS
  <1> HIDE DEF batch, rows, u
  <1>5. /\ \A i \in 1..Len(rows) : new[i] = rows[i]
        /\ new[Len(rows) + 1] = batch
        /\ \A i \in 1..Len(new) : i \in 1..Len(rows) \/ i = Len(rows) + 1
        /\ \A i \in 1..Len(rows) : i \in 1..Len(new)
        /\ Len(rows) + 1 \in 1..Len(new)
    BY <1>3 DEF Longer
  <1>6. RowsOf(new) = RowsOf(rows) \cup {batch}
    BY <1>5 DEF RowsOf
  <1>7. /\ client'.queue[u] = new /\ client.queue[u] = rows
        /\ \A v \in Users : v # u => client'.queue[v] = client.queue[v]
    BY <1>1, <1>3 DEF rows
  <1>8. ASSUME NEW v \in Users, NEW x \in backend.applied, by[x] = v PROVE Stays(x, v)'
    <2>1. Stays(x, v) /\ x < w
      BY <1>2, <1>8 DEF NInv
    <2>2. CASE v # u
      BY <1>2, <1>7, <2>1, <2>2 DEF Stays
    <2>3. CASE v = u
      BY <1>2, <1>4, <1>6, <1>7, <2>1, <2>3 DEF Stays
    <2> QED BY <2>2, <2>3
  <1> QED BY <1>2, <1>8 DEF NInv

\* A write that is handled is queued, and newer than those that have left.
LEMMA HandleStays ==
    ASSUME IInv, OInv, CInv, NInv, NEW w \in Nat, Handles(w) PROVE NInv'
  <1> DEFINE u == client.user
             rows == client.queue[u]
  <1>1. /\ u \in Users /\ RowsOwned(client.queue, by) /\ backend.latest \in [Users -> Nat]
    BY DEF IInv, OInv, CInv, Sound, Sane, Client
  <1>2. /\ client'.queue = client.queue /\ by' = by
        /\ IF w = Handshake \/ w \in Refused THEN backend' = backend
           ELSE /\ backend'.applied = backend.applied \cup {w}
                /\ backend'.latest = [backend.latest EXCEPT ![by[w]] = w]
        /\ w # Handshake => \E k \in Nat : NextRow(w, k)
    BY DEF Handles
  <1>3. CASE w = Handshake \/ w \in Refused
    BY <1>2, <1>3, AloneStays
  <1>4. CASE ~(w = Handshake \/ w \in Refused)
    <2>1. PICK row \in RowsOf(client.queue[u]) : row.write = w
      BY <1>2, <1>4 DEF NextRow, RowsOf
    <2>2. by[w] = u
      BY <1>1, <2>1 DEF RowsOwned
    <2>3. /\ backend'.applied = backend.applied \cup {w}
          /\ backend'.latest[u] = w
          /\ \A v \in Users : v # u => backend'.latest[v] = backend.latest[v]
      BY <1>1, <1>2, <1>4, <2>2
    <2> HIDE DEF u
    <2>4. ASSUME NEW v \in Users, NEW x \in backend'.applied, by[x] = v PROVE Stays(x, v)'
      <3>1. CASE x = w
        BY <1>2, <2>1, <2>2, <2>4, <3>1 DEF Stays
      <3>2. CASE x # w
        <4>1. x \in backend.applied /\ Stays(x, v)
          BY <2>3, <2>4, <3>2 DEF NInv
        <4>2. CASE v # u
          BY <1>2, <2>3, <4>1, <4>2 DEF Stays
        <4>3. CASE v = u
          <5>1. CASE \E old \in RowsOf(client.queue[v]) : old.write = x
            BY <1>2, <5>1 DEF Stays
          <5>2. CASE \A old \in RowsOf(client.queue[v]) : x < old.write
            <6>1. x < w /\ x \in Int
              BY <2>1, <4>1, <4>3, <5>2 DEF CInv, Past, Before
            <6>2. x <= backend'.latest[v]
              BY <2>3, <4>3, <6>1
            <6> QED BY <1>2, <5>2, <6>2 DEF Stays
          <5> QED BY <4>1, <5>1, <5>2 DEF Stays
        <4> QED BY <4>2, <4>3
      <3> QED BY <3>1, <3>2
    <2>5. \A x \in backend'.applied : x # Handshake /\ x \notin Refused
      BY <1>4, <2>3 DEF NInv
    <2> QED BY <1>2, <2>4, <2>5 DEF NInv
  <1> QED BY <1>3, <1>4

\* The write the app makes is not applied yet.
LEMMA AppWritesStays == ASSUME IInv, CInv, NInv, AppWrites PROVE NInv'
  <1>1. by' = Append(by, credentials.user) /\ UNCHANGED <<client, backend>>
    BY DEF AppWrites
  <1>2. by \in Seq(Users) /\ credentials.user \in Users /\ Len(by) \in Nat
    BY DEF IInv, Typed
  <1>3. \A i \in 1..Len(by) : by'[i] = by[i]
    BY <1>1, <1>2, AppendFacts
  <1>4. ASSUME NEW w \in backend.applied PROVE by'[w] = by[w]
    <2>1. w \in 0..Len(by) /\ w # 0
      BY DEF CInv, Past, Before, NInv, Handshake
    <2> QED BY <1>2, <1>3, <2>1
  <1>5. \A u \in Users : \A w \in backend.applied : by'[w] = u => Stays(w, u)
    BY <1>4 DEF NInv
  <1> QED BY <1>1, <1>5 DEF NInv, Stays

\* Every step keeps the invariant.
LEMMA StepStays == ASSUME IInv, OInv, CInv, NInv, [Next]_vars PROVE NInv'
  <1>1. CASE Still
    BY <1>1, AloneStays DEF Still, Same
  <1>2. CASE Crash
    BY <1>2, CrashLeaves, AloneStays
  <1> QED BY <1>1, <1>2, StepKinds, AppWritesStays, SettleStays, StoreStays, HandleStays

\* Once a user's writes have left the queue, the newest of those the backend
\* applied is the one it applied last: no write that was sent again after an
\* unread answer, a restart or a change of user has undone a newer one.
THEOREM NewestWriteIsLast == Spec => []LastWriteStays
  <1>1. NInv => LastWriteStays
    <2>1. \A u \in Users : client.queue[u] = <<>> => RowsOf(client.queue[u]) = {}
      BY DEF RowsOf
    <2> QED BY <2>1 DEF NInv, Stays, LastWriteStays
  <1>2. Init => NInv
    BY DEF Init, NInv
  <1>3. Init => CInv
    BY InitTrue
  <1>4. Init => OInv
    BY InitOwned
  <1>5. IInv /\ IInv' /\ OInv /\ [Next]_vars => OInv'
    BY StepOwned
  <1>6. IInv /\ OInv /\ CInv /\ [Next]_vars => CInv'
    BY StepTrue
  <1>7. IInv /\ OInv /\ CInv /\ NInv /\ [Next]_vars => NInv'
    BY StepStays
  <1> QED BY <1>1, <1>2, <1>3, <1>4, <1>5, <1>6, <1>7, Invariant, PTL DEF Spec

-----------------------------------------------------------------------------
(* The refinement of the contract.                                          *)

\* What the contract sees of the queues.
Owed == [u \in Users |-> WritesOf(client.queue[u])]

\* The writes of rows without their first.
LEMMA TailWrites ==
    ASSUME NEW rows \in Seq(Batch), rows # <<>>, NEW new, TailOf(new, rows)
    PROVE  /\ WritesOf(rows) # <<>> /\ Head(WritesOf(rows)) = rows[1].write
           /\ WritesOf(new) = Tail(WritesOf(rows))
  <1> DEFINE all == WritesOf(rows)
             rest == WritesOf(new)
  <1>1. /\ new \in Seq(Batch) /\ Len(new) = Len(rows) - 1 /\ Len(rows) \in Nat
        /\ Len(rows) >= 1 /\ \A i \in 1..Len(new) : new[i] = rows[i + 1]
    BY DEF TailOf
  <1>2. /\ all \in Seq(Nat) /\ Len(all) = Len(rows)
        /\ \A i \in 1..Len(rows) : all[i] = rows[i].write
    BY WritesOfFacts
  <1>3. /\ rest \in Seq(Nat) /\ Len(rest) = Len(new)
        /\ \A i \in 1..Len(new) : rest[i] = new[i].write
    BY <1>1, WritesOfFacts
  <1> HIDE DEF all, rest
  <1>4. all # <<>>
    BY <1>1, <1>2
  <1>5. /\ Head(all) = all[1] /\ Tail(all) \in Seq(Nat) /\ Len(Tail(all)) = Len(all) - 1
        /\ \A i \in 1..Len(Tail(all)) : Tail(all)[i] = all[i + 1]
    BY <1>2, <1>4, TailFacts
  <1>6. \A i \in 1..Len(new) : 1 \in 1..Len(rows) /\ i + 1 \in 1..Len(rows)
    BY <1>1
  <1>7. Len(rest) = Len(Tail(all)) /\ \A i \in 1..Len(rest) : rest[i] = Tail(all)[i]
    BY <1>1, <1>2, <1>3, <1>5, <1>6
  <1>8. rest = Tail(all)
    BY <1>3, <1>5, <1>7, SeqEqual
  <1>9. Head(all) = rows[1].write
    BY <1>1, <1>2, <1>5
  <1> QED BY <1>4, <1>8, <1>9 DEF all, rest

\* The writes of rows with one more.
LEMMA AppendWrites ==
    ASSUME NEW rows \in Seq(Batch), NEW batch \in Batch, NEW new \in Seq(Batch),
           Longer(new, rows, batch)
    PROVE  WritesOf(new) = Append(WritesOf(rows), batch.write)
  <1> DEFINE all == WritesOf(rows)
             more == WritesOf(new)
             w == batch.write
  <1>1. /\ Len(rows) \in Nat /\ Len(new) = Len(rows) + 1 /\ new[Len(rows) + 1] = batch
        /\ \A i \in 1..Len(rows) : new[i] = rows[i]
        /\ w \in Nat
    BY DEF Longer, Batch
  <1>2. /\ all \in Seq(Nat) /\ Len(all) = Len(rows)
        /\ \A i \in 1..Len(rows) : all[i] = rows[i].write
    BY WritesOfFacts
  <1>3. /\ more \in Seq(Nat) /\ Len(more) = Len(new)
        /\ \A i \in 1..Len(new) : more[i] = new[i].write
    BY WritesOfFacts
  <1> HIDE DEF all, more
  <1>4. /\ Append(all, w) \in Seq(Nat) /\ Len(Append(all, w)) = Len(all) + 1
        /\ \A i \in 1..Len(all) : Append(all, w)[i] = all[i]
        /\ Append(all, w)[Len(all) + 1] = w
    BY <1>1, <1>2, AppendFacts
  <1>5. \A i \in 1..Len(new) : i \in 1..Len(rows) \/ i = Len(rows) + 1
    BY <1>1
  <1>6. Len(more) = Len(Append(all, w)) /\ \A i \in 1..Len(more) : more[i] = Append(all, w)[i]
    BY <1>1, <1>2, <1>3, <1>4, <1>5
  <1>7. more = Append(all, w)
    BY <1>3, <1>4, <1>6, SeqEqual
  <1> QED BY <1>7 DEF all, more

\* A row that is settled is a write that the contract settles.
LEMMA SettleKeepsContract ==
    ASSUME IInv, NEW verdict \in {"ok", "refused"}, Settled(verdict)
    PROVE  Contract!Settle(client.user)
  <1> DEFINE u == client.user
             rows == client.queue[u]
             first == rows[1].write
  <1>1. /\ u \in Users /\ rows \in Seq(Batch) /\ rows # <<>>
        /\ client.queue \in [Users -> Seq(Batch)]
    BY DEF IInv, Sound, Sane, Client, Settled, Settles
  <1>2. PICK new : TailOf(new, rows) /\ client'.queue = [client.queue EXCEPT ![u] = new]
    BY DEF Settled, Settles
  <1>3. UNCHANGED backend
    BY DEF Settled
  <1>4. \/ first \in backend.applied /\ first <= backend.latest[u]
        \/ first \in Refused
    BY DEF Settled
  <1>5. /\ WritesOf(rows) # <<>> /\ Head(WritesOf(rows)) = first
        /\ WritesOf(new) = Tail(WritesOf(rows))
    BY <1>1, <1>2, TailWrites
  <1> HIDE DEF first
  <1>6. Owed[u] = WritesOf(rows)
    BY <1>1 DEF Owed
  <1>7. Owed' = [Owed EXCEPT ![u] = Tail(@)]
    BY <1>1, <1>2, <1>5 DEF Owed
  <1>8. /\ Owed[u] # <<>>
        /\ \/ Head(Owed[u]) \in backend.applied /\ Head(Owed[u]) <= backend.latest[u]
           \/ Head(Owed[u]) \in Refused
    BY <1>4, <1>5, <1>6
  <1> QED BY <1>3, <1>7, <1>8 DEF Contract!Settle, Owed

\* A write that is stored is new to the contract.
LEMMA StoreKeepsContract ==
    ASSUME IInv, CInv, NEW w \in Nat, Stores(w)
    PROVE  w \in Writes /\ Contract!Store(client.user, w)
  <1> DEFINE u == client.user
             rows == client.queue[u]
             batch == [id |-> client.nextId, write |-> w]
  <1>1. /\ u \in Users /\ rows \in Seq(Batch) /\ client.queue \in [Users -> Seq(Batch)]
        /\ client.nextId \in Nat /\ Len(by) \in Nat /\ Len(by) <= MaxWrites
    BY DEF IInv, Sound, Sane, Client, Typed
  <1>2. w \in 1..Len(by) /\ UNCHANGED backend /\ \A x : Before(x) => x < w
    BY DEF Stores
  <1>3. w \in Writes
    BY <1>1, <1>2, ParametersAssumption DEF Writes
  <1>4. PICK new \in Seq(Batch) : /\ Longer(new, rows, batch)
                                  /\ client'.queue = [client.queue EXCEPT ![u] = new]
    BY DEF Stores, Stored
  <1>5. batch \in Batch /\ batch.write = w
    BY <1>1 DEF Batch
  <1>6. WritesOf(new) = Append(WritesOf(rows), w)
    BY <1>1, <1>4, <1>5, AppendWrites
  <1>7. Owed' = [Owed EXCEPT ![u] = Append(@, w)]
    BY <1>1, <1>4, <1>6 DEF Owed
  <1>8. \A v \in Users : \A i \in DOMAIN Owed[v] : Owed[v][i] < w
    <2> TAKE v \in Users
    <2>1. client.queue[v] \in Seq(Batch) /\ Owed[v] = WritesOf(client.queue[v])
      BY <1>1 DEF Owed
    <2>2. /\ DOMAIN Owed[v] = 1..Len(client.queue[v])
          /\ \A i \in 1..Len(client.queue[v]) : Owed[v][i] = client.queue[v][i].write
      BY <2>1, WritesOfFacts DEF WritesOf
    <2>3. \A i \in 1..Len(client.queue[v]) : client.queue[v][i].write < w
      BY <1>2 DEF CInv, Past, RowsOf
    <2> QED BY <2>2, <2>3
  <1>9. w \notin backend.applied /\ w > backend.latest[u]
    <2>1. w \notin backend.applied
      BY <1>2 DEF CInv, Past
    <2>2. backend.latest[u] < w /\ backend.latest[u] \in Nat
      BY <1>1, <1>2 DEF CInv, Past
    <2> QED BY <2>1, <2>2
  <1> QED BY <1>2, <1>3, <1>7, <1>8, <1>9 DEF Contract!Store, Owed

\* A request that is handled is an owed write whose elders were applied, or
\* nothing to the contract.
LEMMA HandleKeepsContract ==
    ASSUME IInv, OInv, NEW w \in Nat, Handles(w)
    PROVE  \/ UNCHANGED Contract!vars
           \/ \E i \in 1..Len(Owed[client.user]) : Contract!Apply(client.user, i)
  <1> DEFINE u == client.user
             rows == client.queue[u]
  <1>1. u \in Users /\ rows \in Seq(Batch) /\ Len(rows) \in Nat /\ RowsOwned(client.queue, by)
    BY DEF IInv, OInv, Sound, Sane, Client
  <1>2. /\ client'.queue = client.queue
        /\ IF w = Handshake \/ w \in Refused THEN backend' = backend
           ELSE /\ backend'.applied = backend.applied \cup {w}
                /\ backend'.latest = [backend.latest EXCEPT ![by[w]] = w]
        /\ w # Handshake => \E k \in Nat : NextRow(w, k)
    BY DEF Handles
  <1>3. Owed' = Owed
    BY <1>2 DEF Owed
  <1>4. CASE w = Handshake \/ w \in Refused
    BY <1>2, <1>3, <1>4 DEF Contract!vars, Owed
  <1>5. CASE ~(w = Handshake \/ w \in Refused)
    <2>1. PICK k \in Nat : NextRow(w, k)
      BY <1>2, <1>5
    <2>2. /\ k \in 1..Len(rows) /\ rows[k].write = w
          /\ \A j \in 1..(k - 1) : rows[j].write \in backend.applied
      BY <2>1 DEF NextRow
    <2>3. by[w] = u
      BY <1>1, <2>2 DEF RowsOwned, RowsOf
    <2>4. /\ Len(Owed[u]) = Len(rows) /\ DOMAIN Owed[u] = 1..Len(rows)
          /\ \A i \in 1..Len(rows) : Owed[u][i] = rows[i].write
      <3>1. Owed[u] = WritesOf(rows)
        BY <1>1 DEF Owed
      <3> QED BY <1>1, <3>1, WritesOfFacts DEF WritesOf
    <2>5. \A j \in 1..(k - 1) : j \in 1..Len(rows)
      BY <1>1, <2>2
    <2>6. /\ k \in DOMAIN Owed[u] /\ Owed[u][k] = w /\ w \notin Refused
          /\ \A j \in 1..(k - 1) : Owed[u][j] \in backend.applied
      BY <1>5, <2>2, <2>4, <2>5
    <2>7. /\ backend'.applied = backend.applied \cup {w}
          /\ backend'.latest = [backend.latest EXCEPT ![u] = w]
      BY <1>2, <1>5, <2>3
    <2>8. Contract!Apply(u, k)
      BY <1>3, <2>6, <2>7 DEF Contract!Apply, Owed
    <2> QED BY <2>2, <2>4, <2>8
  <1> QED BY <1>4, <1>5

\* What leaves the queues and the backend alone is nothing to the contract.
LEMMA QueuesKeepContract ==
    ASSUME client'.queue = client.queue, UNCHANGED backend PROVE UNCHANGED Contract!vars
  BY DEF Contract!vars

\* Every step is one of the contract, or nothing to it.
LEMMA StepKeepsContract ==
    ASSUME IInv, OInv, CInv, [Next]_vars PROVE [Contract!Next]_Contract!vars
  <1>1. CASE Still
    BY <1>1, QueuesKeepContract DEF Still, Same
  <1>2. CASE AppWrites
    BY <1>2, QueuesKeepContract DEF AppWrites
  <1>3. CASE Crash
    BY <1>3, CrashLeaves, QueuesKeepContract
  <1>4. client.user \in Users
    BY DEF IInv, Sound, Sane, Client
  <1>5. CASE \E verdict \in {"ok", "refused"} : Settled(verdict)
    BY <1>4, <1>5, SettleKeepsContract DEF Contract!Next
  <1>6. CASE \E w \in Nat : Stores(w)
    BY <1>4, <1>6, StoreKeepsContract DEF Contract!Next
  <1>7. CASE \E w \in Nat : Handles(w)
    <2>1. CASE UNCHANGED Contract!vars
      BY <2>1
    <2>2. CASE \E i \in 1..Len(Owed[client.user]) : Contract!Apply(client.user, i)
      BY <1>4, <2>2 DEF Contract!Next, Owed
    <2> QED BY <1>7, <2>1, <2>2, HandleKeepsContract
  <1> QED BY <1>1, <1>2, <1>3, <1>5, <1>6, <1>7, StepKinds

\* Each user's writes reach the backend in their order, at least once, and none
\* is applied after a newer one was acknowledged: the client implements the
\* contract, for any accounts and whatever fails in between.
THEOREM ClientKeepsContract == Spec => ImplementsContract
  <1>1. Init => Contract!Init
    <2> SUFFICES ASSUME Init PROVE Contract!Init
      OBVIOUS
    <2>1. /\ client.queue = [u \in Users |-> <<>>] /\ backend.applied = {}
          /\ backend.latest = [u \in Users |-> 0]
      BY InitLeaves DEF Init
    <2>2. \A u \in Users : WritesOf(client.queue[u]) = <<>>
      BY <2>1 DEF WritesOf
    <2>3. [u \in Users |-> WritesOf(client.queue[u])] = [u \in Users |-> <<>>]
      BY <2>2
    <2> QED BY <2>1, <2>3 DEF Contract!Init
  <1>2. IInv /\ OInv /\ CInv /\ [Next]_vars => [Contract!Next]_Contract!vars
    BY StepKeepsContract
  <1>3. Init => CInv
    BY InitTrue
  <1>4. Init => OInv
    BY InitOwned
  <1>5. IInv /\ IInv' /\ OInv /\ [Next]_vars => OInv'
    BY StepOwned
  <1>6. IInv /\ OInv /\ CInv /\ [Next]_vars => CInv'
    BY StepTrue
  <1> QED BY <1>1, <1>2, <1>3, <1>4, <1>5, <1>6, Invariant, PTL
          DEF Spec, ImplementsContract, Contract!Spec
=============================================================================
