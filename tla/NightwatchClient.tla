--------------------------- MODULE NightwatchClient ---------------------------
(***************************************************************************)
(* One request of the Nightwatch client (backend/app/nightwatch): attempts *)
(* until an answer that is not worth a retry, one usage event for all of   *)
(* them, then a result or an error.  Callers make one request at a time    *)
(* and the semaphore is wider than the number of callers of a process, so  *)
(* it never blocks and is not modelled.                                    *)
(*                                                                         *)
(* wire is history: what really left the client.                           *)
(***************************************************************************)
EXTENDS Naturals

CONSTANTS
  Callers,      \* who makes requests
  MaxRetries    \* the client's max_retries

VARIABLES
  call,     \* the request each caller has in progress or has just finished
  wire      \* history: the attempts that left the client, over all its requests

\* Classes of HTTP status.  OK is 200, the only one that consumes quota; PENDING is
\* 202; RETRYABLE is one of RETRYABLE_STATUS_CODES; REFUSED every other error.
Statuses == {"OK", "PENDING", "RETRYABLE", "REFUSED"}
Successes == {"OK", "PENDING"}
NoAnswer == "NONE"

CallPhases == {"idle", "sending", "closing", "result", "error", "broken"}

\* answer is a success status; an error status is no answer, as a lost attempt is.
NoCall == [phase |-> "idle", attempts |-> 0, answer |-> NoAnswer]

\* The usage event: what the audit learns about the request.
Event(c) == [attempts |-> call[c].attempts, consumed |-> call[c].answer = "OK"]

CallTypeOK ==
  /\ call \in [Callers -> [phase : CallPhases, attempts : 0..MaxRetries + 1,
                           answer : Successes \union {NoAnswer}]]
  /\ wire \in [Callers -> Nat]

CallInit ==
  /\ call = [c \in Callers |-> NoCall]
  /\ wire = [c \in Callers |-> 0]

-----------------------------------------------------------------------------

\* request(): nothing is sent yet.
StartCall(c) ==
  /\ call' = [call EXCEPT ![c] = [NoCall EXCEPT !.phase = "sending"]]
  /\ UNCHANGED wire

LastAttempt(c) == call[c].attempts = MaxRetries

\* An attempt is answered: a retryable status is tried again while attempts remain.
AttemptAnswered(c, status) ==
  /\ call[c].phase = "sending"
  /\ wire' = [wire EXCEPT ![c] = @ + 1]
  /\ call' = [call EXCEPT ![c] =
                [phase |-> IF status = "RETRYABLE" /\ ~LastAttempt(c)
                             THEN "sending" ELSE "closing",
                 attempts |-> @.attempts + 1,
                 answer |-> IF status \in Successes THEN status ELSE NoAnswer]]

\* A timeout or network error: a GET is tried again while attempts remain.
AttemptLost(c) ==
  /\ call[c].phase = "sending"
  /\ wire' = [wire EXCEPT ![c] = @ + 1]
  /\ call' = [call EXCEPT ![c].phase = IF LastAttempt(c) THEN "closing" ELSE "sending",
                          ![c].attempts = @ + 1]

\* An httpx error that is neither a timeout nor a network error (a protocol error) is
\* not caught: it leaves the request without a usage event.
AttemptBreaks(c) ==
  /\ call[c].phase = "sending"
  /\ wire' = [wire EXCEPT ![c] = @ + 1]
  /\ call' = [call EXCEPT ![c].phase = "broken"]

\* The observer has taken the usage event: a success is returned, an error status or
\* no answer at all raises NightwatchError.
Observe(c) ==
  /\ call[c].phase = "closing"
  /\ call' = [call EXCEPT ![c].phase =
                IF call[c].answer \in Successes THEN "result" ELSE "error"]
  /\ UNCHANGED wire

\* The caller is gone, and its history with it.
DropCall(c) == call' = [call EXCEPT ![c] = NoCall] /\ wire' = [wire EXCEPT ![c] = 0]

\* The request is over.
ForgetCall(c) == call' = [call EXCEPT ![c] = NoCall] /\ UNCHANGED wire

Attempt(c) ==
  \/ \E status \in Statuses : AttemptAnswered(c, status)
  \/ AttemptLost(c)
  \/ AttemptBreaks(c)
===============================================================================
