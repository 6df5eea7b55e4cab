--------------------------- MODULE FirestoreStream ---------------------------
(***************************************************************************)
(* What the write and the watch stream of the Firestore client share: the  *)
(* states of a stream, its close count, credentials, backoff and idle      *)
(* timer.  The operators take the state c of a client, a record with the   *)
(* fields stream and failed, and return its next state.                    *)
(***************************************************************************)
EXTENDS Integers, Sequences

CONSTANT NoUser   \* no token, or no stream that has one

IsOpen(s) == s.state = "Open"
IsStarted(s) == s.state \in {"Starting", "Backoff", "Open"}

\* asked: GetToken was called in this step.  up and down are the requests and
\* the answers on their way on the gRPC stream.
NewStream == [state |-> "Initial", closes |-> 0, asked |-> FALSE,
              token |-> NoUser, idle |-> FALSE, backoff |-> FALSE,
              up |-> <<>>, down |-> <<>>]

\* A failed HARD_ASSERT aborts the app; failed remembers it.
HardAssert(c, holds) == [c EXCEPT !.failed = @ \/ ~holds]

StartStream(c) ==
    CASE c.stream.state = "Error" ->
             [c EXCEPT !.stream.state = "Backoff", !.stream.backoff = TRUE]
      [] c.stream.state = "Initial" ->
             [c EXCEPT !.stream.state = "Starting", !.stream.asked = TRUE]
      [] OTHER -> HardAssert(c, FALSE)

\* Backoff has elapsed: the stream goes back to Initial and starts.
EndBackoff(c) ==
    StartStream([HardAssert(c, c.stream.state = "Backoff") EXCEPT
                    !.stream.backoff = FALSE, !.stream.state = "Initial"])

InhibitBackoff(c) ==
    [HardAssert(c, ~IsStarted(c.stream)) EXCEPT !.stream.state = "Initial"]

MarkIdle(c) == [c EXCEPT !.stream.idle = @ \/ IsOpen(c.stream)]

\* Mutant: sending leaves the idle timer running.
SendKeepsTimer(c, requests) ==
    [HardAssert(c, IsOpen(c.stream)) EXCEPT !.stream.up = @ \o requests]

Send(c, requests) ==
    [HardAssert(c, IsOpen(c.stream)) EXCEPT
        !.stream.idle = FALSE, !.stream.up = @ \o requests]

\* A token arrives for a stream that waits for it, and opens it.
Open(c, user) ==
    [HardAssert(c, c.stream.state = "Starting") EXCEPT
        !.stream.state = "Open", !.stream.token = user]

\* Mutant: the close count is not compared.
NeverStale(c, closes) == FALSE

\* A stream may have been closed while it waited for a token.
Stale(c, closes) == closes # c.stream.closes

\* Closing an unstarted stream gracefully does nothing.
StaysClosed(c, status) == status = "ok" /\ ~IsStarted(c.stream)

\* Mutant: answers of the closed stream are still read.
AnswersSurvive(c, status) ==
    [HardAssert(c, IsStarted(c.stream)) EXCEPT
        !.stream.idle = FALSE, !.stream.backoff = FALSE,
        !.stream.closes = @ + 1, !.stream.token = NoUser, !.stream.up = <<>>,
        !.stream.state = IF status = "ok" THEN "Initial" ELSE "Error"]

\* The part of Close before the listener is told.
CloseStream(c, status) ==
    [HardAssert(c, IsStarted(c.stream)) EXCEPT
        !.stream.idle = FALSE, !.stream.backoff = FALSE,
        !.stream.closes = @ + 1, !.stream.token = NoUser,
        !.stream.up = <<>>, !.stream.down = <<>>,
        !.stream.state = IF status = "ok" THEN "Initial" ELSE "Error"]
=============================================================================
