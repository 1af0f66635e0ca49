--------------------------- MODULE DealerGexArchive ---------------------------
(***************************************************************************)
(* The Dealer/GEX time-series archive (backend/app/dealer_archive): one    *)
(* surface per ticker and market day, captured at a target time.  The      *)
(* canonical scheduler and the CLI invoke it from different processes.     *)
(*                                                                         *)
(* An invocation is a session and a client: an earlier COMPLETE run of its *)
(* day is returned, before or after the advisory lock is taken; otherwise  *)
(* it opens a run and captures ticker after ticker within the budget.      *)
(*                                                                         *)
(* Time is counted in halves of market days: the first half of a day is    *)
(* before the target, the second half is at or after it.                   *)
(***************************************************************************)
EXTENDS Naturals, FiniteSets

CONSTANTS
  Invocations,   \* executions of the archiver
  Scheduled,     \* those of the canonical scheduler: the target time is enforced
  LongLived,     \* those of a process that survives a failed invocation
  Conns, PoolOf, NoConn,
  Tickers,
  NoTrading,     \* days without a session, or that close before the target
  MaxRetries,
  MaxAttempts,   \* max_network_attempts of the configuration
  MaxUnits,      \* max_consumed_units of the configuration
  MaxTime        \* bound: the last half day

ASSUME DealerAssumption ==
  /\ MaxRetries \in Nat /\ MaxAttempts \in Nat /\ MaxUnits \in Nat /\ MaxTime \in Nat
  /\ NoConn \notin Conns
  /\ PoolOf \in [Invocations -> (SUBSET Conns) \ {{}}]
  /\ \A i, j \in Invocations : PoolOf[i] = PoolOf[j] \/ PoolOf[i] \intersect PoolOf[j] = {}

VARIABLES
  now,           \* the time
  call, wire,
  lock, at,
  pc,            \* where each invocation is
  begun,         \* its capture_time
  ticker,        \* the ticker it is capturing
  asked,         \* captured_at of that ticker
  spent,         \* its in-memory usage events: attempts and units
  run,           \* dealer_gex_archive_runs, one per invocation: status
  reported,      \* network_attempts of a run, until its memory goes
  result,        \* the ticker results of the run
  surfaces,      \* dealer_gex_snapshots that are analytical observations
  returned,      \* the run whose summary an invocation returned
  severed        \* history: the captures whose lock went with an idle connection

INSTANCE NightwatchClient WITH Callers <- Invocations
INSTANCE AdvisoryLock WITH Sessions <- Invocations

vars == <<now, call, wire, lock, at, pc, begun, ticker, asked, spent,
          run, reported, result, surfaces, returned, severed>>

Times == 0..MaxTime
Day(time) == time \div 2
IntendedAt(time) == 2 * Day(time) + 1
NoTicker == "NONE"
NoRunId == "NONE"

\* CAPTURED is PERSISTED or REUSED; FAILED an unusable surface or none.
TickerResults == {"NONE", "CAPTURED", "FAILED", "BUDGET_NOT_ATTEMPTED"}

NothingSpent == [attempts |-> 0, units |-> 0]
NoResults == [t \in Tickers |-> "NONE"]
RunStatuses == {"NONE", "RUNNING", "COMPLETE", "PARTIAL", "SKIPPED", "FAILED"}

Phases == {"idle", "checked", "locked", "open", "asking", "unlocking",
           "done", "refused", "failed"}
Ended == {"done", "refused", "failed"}

\* The overshoot: the budget is asked before a request, which may take several attempts.
AttemptsBound == MaxAttempts + MaxRetries

TypeOK ==
  /\ now \in Times
  /\ CallTypeOK /\ LockTypeOK
  /\ pc \in [Invocations -> Phases]
  /\ begun \in [Invocations -> Times] /\ asked \in [Invocations -> Times]
  /\ ticker \in [Invocations -> Tickers \union {NoTicker}]
  /\ spent \in [Invocations -> [attempts : 0..AttemptsBound, units : 0..MaxUnits]]
  /\ run \in [Invocations -> RunStatuses]
  /\ reported \in [Invocations -> 0..AttemptsBound]
  /\ result \in [Invocations -> [Tickers -> TickerResults]]
  /\ surfaces \subseteq [ticker : Tickers, observed : Times, captured : Times]
  /\ returned \in [Invocations -> Invocations \union {NoRunId}]
  /\ severed \subseteq Invocations

Init ==
  /\ now = 0
  /\ CallInit /\ LockInit
  /\ pc = [i \in Invocations |-> "idle"]
  /\ begun = [i \in Invocations |-> 0] /\ asked = begun
  /\ ticker = [i \in Invocations |-> NoTicker]
  /\ spent = [i \in Invocations |-> NothingSpent]
  /\ run = [i \in Invocations |-> "NONE"] /\ reported = begun
  /\ result = [i \in Invocations |-> NoResults]
  /\ surfaces = {}
  /\ returned = [i \in Invocations |-> NoRunId]
  /\ severed = {}

Goto(i, phase) == pc' = [pc EXCEPT ![i] = phase]

SameProcess(i) == {j \in Invocations : PoolOf[j] = PoolOf[i]}

-----------------------------------------------------------------------------
(* The session plan (calendar.py) and the reuse of a run (repository.py) *)

\* dealer_capture_session_plan: a session that does not close before the target; the
\* scheduler may not come before the target either.  The market date a canonical slot
\* intends is the day of its invocation: a slot executed on a later day is left out.
ShouldCapture(i, time) ==
  /\ Day(time) \notin NoTrading
  /\ i \in Scheduled => time >= IntendedAt(time)

\* Variant: a COMPLETE run of the day suppresses whenever it started.
SuppressesAnytime(j, time) == run[j] = "COMPLETE" /\ Day(begun[j]) = Day(time)

\* archive_run_suppresses_capture: a COMPLETE run of the day that started at or
\* after the target.  (Universe and configuration are the same in every invocation.)
Suppresses(j, time) ==
  /\ run[j] = "COMPLETE"
  /\ Day(begun[j]) = Day(time)
  /\ begun[j] >= IntendedAt(time)

\* reusable_completed_archive_run, asked only when a capture is due.
Reusable(i, time) ==
  IF ShouldCapture(i, time) THEN {j \in Invocations : Suppresses(j, time)} ELSE {}

-----------------------------------------------------------------------------
(* DealerGexArchiver.execute: from the first check to the open run *)

callVars == <<call, wire>>
lockVars == <<lock, at>>
captureVars == <<ticker, asked, spent, reported, result, surfaces>>

\* An invocation reads its capture_time and makes the first check, which opens a
\* transaction; a run found ends the invocation at once.  The scheduler's instances
\* serve one request at a time (infra/gcp/main.tf), and a CLI process is one invocation:
\* two in one process would share its pool, and re-enter the lock.
Begin(i, c) ==
  /\ pc[i] = "idle"
  /\ \A j \in SameProcess(i) : pc[j] \in Ended \union {"idle"}
  /\ begun' = [begun EXCEPT ![i] = now]
  /\ IF Reusable(i, now) # {}
       THEN /\ \E j \in Reusable(i, now) : returned' = [returned EXCEPT ![i] = j]
            /\ Goto(i, "done")
            /\ UNCHANGED at
       ELSE CheckOut(i, c) /\ Goto(i, "checked") /\ UNCHANGED returned
  /\ UNCHANGED <<severed, now, callVars, lock, captureVars, run>>

\* pg_try_advisory_lock, or DealerGexArchiveConcurrentError before anything is done.
TryLock(i) ==
  /\ pc[i] = "checked"
  /\ IF MayLock(at[i])
       THEN Lock(at[i]) /\ Goto(i, "locked") /\ UNCHANGED at
       ELSE GiveBack(i) /\ Goto(i, "refused") /\ UNCHANGED lock
  /\ UNCHANGED <<severed, now, callVars, captureVars, begun, run, returned>>

\* Variant: the check is not repeated under the lock.
OpenRunUnchecked(i) ==
  /\ pc[i] = "locked"
  /\ run' = [run EXCEPT ![i] = "RUNNING"]
  /\ GiveBack(i) /\ Goto(i, "open")
  /\ UNCHANGED <<severed, now, callVars, lock, captureVars, begun, returned>>

\* Variant: the lock is one of the transaction, released by its commit.
OpenRunUnlocking(i) ==
  /\ pc[i] = "locked"
  /\ run' = [run EXCEPT ![i] = "RUNNING"]
  /\ Unlock(at[i]) /\ GiveBack(i) /\ Goto(i, "open")
  /\ UNCHANGED <<severed, now, callVars, captureVars, begun, returned>>

\* The check again, under the lock: a run found is returned through the unlock, in the
\* same transaction.  Otherwise the RUNNING row is committed.
OpenRun(i) ==
  /\ pc[i] = "locked"
  /\ IF Reusable(i, begun[i]) # {}
       THEN /\ \E j \in Reusable(i, begun[i]) : returned' = [returned EXCEPT ![i] = j]
            /\ Goto(i, "unlocking")
            /\ UNCHANGED <<at, run>>
       ELSE /\ run' = [run EXCEPT ![i] = "RUNNING"]
            /\ GiveBack(i) /\ Goto(i, "open")
            /\ UNCHANGED returned
  /\ UNCHANGED <<severed, now, callVars, lock, captureVars, begun>>

-----------------------------------------------------------------------------
(* The capture: one ticker after the other, in any order *)

\* Variant: the last attempt of the budget leaves room for one more request.
SpentBeyond(i) == spent[i].attempts > MaxAttempts \/ spent[i].units > MaxUnits

Spent(i) == spent[i].attempts >= MaxAttempts \/ spent[i].units >= MaxUnits

Record(i, t, what) == result' = [result EXCEPT ![i][t] = what]

\* The budget is asked before each ticker.
SkipTicker(i, t) ==
  /\ pc[i] = "open" /\ ShouldCapture(i, begun[i]) /\ result[i][t] = "NONE"
  /\ Spent(i)
  /\ Record(i, t, "BUDGET_NOT_ATTEMPTED")
  /\ UNCHANGED <<severed, now, callVars, lockVars, pc, ticker, asked, spent, reported, surfaces,
                 begun, run, returned>>

\* captured_at is read before the request is made.
AskTicker(i, t) ==
  /\ pc[i] = "open" /\ ShouldCapture(i, begun[i]) /\ result[i][t] = "NONE"
  /\ ~Spent(i)
  /\ ticker' = [ticker EXCEPT ![i] = t]
  /\ asked' = [asked EXCEPT ![i] = now]
  /\ StartCall(i)
  /\ Goto(i, "asking")
  /\ UNCHANGED <<severed, now, lockVars, spent, reported, result, surfaces, begun, run,
                 returned>>

RequestAttempt(i) ==
  /\ pc[i] = "asking"
  /\ Attempt(i)
  /\ UNCHANGED <<severed, now, lockVars, captureVars, pc, begun, run, returned>>

\* Variant: a request counts as one attempt, however many it took.
ObserveUsageAsOne(i) ==
  /\ pc[i] = "asking"
  /\ Observe(i)
  /\ spent' = [spent EXCEPT ![i] =
                 [attempts |-> @.attempts + 1,
                  units |-> IF Event(i).consumed THEN @.units + 1 ELSE @.units]]
  /\ UNCHANGED <<severed, now, lockVars, pc, ticker, asked, reported, result, surfaces, begun,
                 run, returned>>

\* _observe_usage: the event is kept in memory and committed to the audit.
ObserveUsage(i) ==
  /\ pc[i] = "asking"
  /\ Observe(i)
  /\ spent' = [spent EXCEPT ![i] =
                 [attempts |-> @.attempts + Event(i).attempts,
                  units |-> IF Event(i).consumed THEN @.units + 1 ELSE @.units]]
  /\ UNCHANGED <<severed, now, lockVars, pc, ticker, asked, reported, result, surfaces, begun,
                 run, returned>>

\* normalize_dealer_gex_surface: a 202 carries no cells, and the cells of a 200 may be
\* unusable.  Only a usable surface has an observation identity: ticker and vendor time.
MayBeUsable(i) == IF call[i].answer = "OK" THEN BOOLEAN ELSE {FALSE}

Archived(t, observed) == \E s \in surfaces : s.ticker = t /\ s.observed = observed

\* persist_surface: an observation that is archived is reused, a new usable one archived
\* with its cells, any other kept as evidence that is no observation.
PersistSurface(i, usable, observed) ==
  /\ surfaces' = IF usable /\ ~Archived(ticker[i], observed)
                   THEN surfaces \union {[ticker |-> ticker[i], observed |-> observed,
                                          captured |-> asked[i]]}
                   ELSE surfaces
  /\ Record(i, ticker[i], IF usable THEN "CAPTURED" ELSE "FAILED")

\* _capture_ticker after the request: an answer, of any vendor time up to now, is
\* normalised and persisted, a NightwatchError persisted as UNAVAILABLE; one commit.
StoreAnswer(i) ==
  /\ pc[i] = "asking"
  /\ \/ call[i].phase = "result" /\ \E usable \in MayBeUsable(i), observed \in 0..now :
                                       PersistSurface(i, usable, observed)
     \/ call[i].phase = "error" /\ Record(i, ticker[i], "FAILED") /\ UNCHANGED surfaces
  /\ ticker' = [ticker EXCEPT ![i] = NoTicker]
  /\ asked' = [asked EXCEPT ![i] = 0]
  /\ ForgetCall(i)
  /\ Goto(i, "open")
  /\ UNCHANGED <<severed, now, lockVars, spent, reported, begun, run, returned>>

-----------------------------------------------------------------------------
(* The end of a run *)

RunStatus(i) ==
  IF \A t \in Tickers : result[i][t] = "CAPTURED" THEN "COMPLETE" ELSE "PARTIAL"

\* _finish: status and totals in one commit.
Finish(i, status) ==
  /\ run' = [run EXCEPT ![i] = status]
  /\ reported' = [reported EXCEPT ![i] = spent[i].attempts]
  /\ returned' = [returned EXCEPT ![i] = i]
  /\ Goto(i, "unlocking")
  /\ UNCHANGED <<severed, now, callVars, lockVars, ticker, asked, spent, result, surfaces, begun>>

FinishSkipped(i) == pc[i] = "open" /\ ~ShouldCapture(i, begun[i]) /\ Finish(i, "SKIPPED")

FinishCapture(i) ==
  /\ pc[i] = "open" /\ ShouldCapture(i, begun[i])
  /\ \A t \in Tickers : result[i][t] # "NONE"
  /\ Finish(i, RunStatus(i))

\* An exception that left the session usable (an answer that was not caught by the
\* client, or a failure of the code): FAILED with the totals so far.
CaptureRaises(i) ==
  /\ \/ pc[i] = "open" /\ ShouldCapture(i, begun[i])
     \/ pc[i] = "asking" /\ call[i].phase \in {"broken", "result"}
  /\ run' = [run EXCEPT ![i] = "FAILED"]
  /\ reported' = [reported EXCEPT ![i] = spent[i].attempts]
  /\ Goto(i, "unlocking")
  /\ UNCHANGED <<severed, now, callVars, lockVars, ticker, asked, spent, result, surfaces, begun,
                 returned>>

\* What an invocation holds in memory is gone with it.
Discard(i) ==
  /\ ticker' = [ticker EXCEPT ![i] = NoTicker]
  /\ asked' = [asked EXCEPT ![i] = 0]
  /\ spent' = [spent EXCEPT ![i] = NothingSpent]
  /\ reported' = [reported EXCEPT ![i] = 0]
  /\ result' = [result EXCEPT ![i] = NoResults]
  /\ DropCall(i)
  /\ UNCHANGED surfaces

\* The finally block: unlock on the connection of the transaction, or an idle one.
ReleaseLock(i, c) ==
  /\ pc[i] = "unlocking"
  /\ IF at[i] = NoConn THEN c \in IdleConns(i) ELSE c = at[i]
  /\ Unlock(c) /\ GiveBack(i)
  /\ Goto(i, IF returned[i] = NoRunId THEN "failed" ELSE "done")
  /\ Discard(i)
  /\ UNCHANGED <<severed, now, begun, run, returned>>

\* A statement fails and leaves the session unusable: there is no rollback, so neither
\* FAILED nor the unlock can be written.  The connection goes back to the pool with the
\* lock; a process that ends with the invocation closes it.
DatabaseFails(i) ==
  /\ pc[i] \in {"locked", "open", "asking", "unlocking"}
  /\ GiveBack(i)
  /\ IF i \in LongLived THEN UNCHANGED lock ELSE CloseConns(PoolOf[i])
  /\ Discard(i)
  /\ returned' = [returned EXCEPT ![i] = NoRunId]
  /\ Goto(i, "failed")
  /\ UNCHANGED <<severed, now, begun, run>>

\* The process dies, with all that is in it.
Crash(i) ==
  /\ pc[i] \notin Ended \union {"idle"}
  /\ GiveBack(i) /\ CloseConns(PoolOf[i]) /\ Discard(i)
  /\ returned' = [returned EXCEPT ![i] = NoRunId]
  /\ Goto(i, "failed")
  /\ UNCHANGED <<severed, now, begun, run>>

\* An instance that has ended its invocations is shut down.
Shutdown(i) ==
  /\ lock.conn \in PoolOf[i]
  /\ \A j \in SameProcess(i) : pc[j] \in Ended
  /\ CloseConns(PoolOf[i])
  /\ UNCHANGED <<severed, now, callVars, at, captureVars, pc, begun, run, returned>>

\* The locked connection, which the commit of the RUNNING row gave back, is dropped while
\* it lies idle: an invocation that captures goes on without the lock.
LoseIdleConn(c) ==
  /\ DropIdle(c)
  /\ severed' = severed \union
                  {i \in Invocations : c \in PoolOf[i] /\ pc[i] \in {"open", "asking"}}
  /\ UNCHANGED <<now, callVars, at, captureVars, pc, begun, run, returned>>

-----------------------------------------------------------------------------

Tick ==
  /\ now < MaxTime
  /\ now' = now + 1
  /\ UNCHANGED <<severed, callVars, lockVars, captureVars, pc, begun, run, returned>>

Step(i) ==
  \/ TryLock(i)
  \/ OpenRun(i)
  \/ \E t \in Tickers : SkipTicker(i, t) \/ AskTicker(i, t)
  \/ RequestAttempt(i)
  \/ ObserveUsage(i)
  \/ StoreAnswer(i)
  \/ FinishSkipped(i)
  \/ FinishCapture(i)
  \/ CaptureRaises(i)
  \/ \E c \in PoolOf[i] : ReleaseLock(i, c)

Terminating ==
  /\ now = MaxTime /\ \A i \in Invocations : pc[i] \in Ended
  /\ UNCHANGED vars

Next ==
  \/ \E i \in Invocations :
       \/ \E c \in IdleConns(i) : Begin(i, c)
       \/ Step(i) \/ DatabaseFails(i) \/ Crash(i) \/ Shutdown(i)
  \/ \E c \in Conns : LoseIdleConn(c)
  \/ Tick
  \/ Terminating

Spec == Init /\ [][Next]_vars

-----------------------------------------------------------------------------
(* What the archive guarantees *)

\* Of the invocations that capture at once, whatever dies or fails, all but one have lost
\* their lock with an idle connection: neither the commit that gives it to the pool, nor
\* a failure that leaves it behind, nor a death lets two in.
OneCaptureAtATime ==
  \A i, j \in Invocations \ severed :
    pc[i] \in {"locked", "open", "asking"} /\ pc[j] \in {"locked", "open", "asking"} => i = j

\* Once a COMPLETE run has consumed a day's slot, no invocation of that day asks the
\* vendor again, however its checks and the run interleave: unless one of the two has
\* lost its lock while it captured.
ConsumedSlotIsFree ==
  [][\A i \in Invocations : wire'[i] > wire[i] =>
       \A j \in Reusable(i, begun[i]) : i \in severed \/ j \in severed]_vars

\* What a finished run reports is what really left the client, retries included.  Only a
\* FAILED run may report less: a request broken by an error that the client does not
\* catch leaves no usage event.
ReportedAttemptsAreReal ==
  [][\A i \in Invocations : run[i] = "RUNNING" /\ run'[i] # "RUNNING" =>
       IF run'[i] = "FAILED"
         THEN wire[i] \in reported'[i] .. reported'[i] + MaxRetries + 1
         ELSE wire[i] = reported'[i]]_vars

\* The run that consumes a slot deserves it: a COMPLETE run has an archived observation
\* of each of its tickers, whatever the budget and the vendor refused it, and a summary
\* returned as another run's is that of a COMPLETE run of the same day that began at or
\* after the target.
ReusedRunIsBacked ==
  /\ \A i \in Invocations : run[i] = "COMPLETE" =>
       \A t \in Tickers : \E s \in surfaces : s.ticker = t
  /\ \A i \in Invocations : returned[i] \notin {NoRunId, i} =>
       /\ run[returned[i]] = "COMPLETE"
       /\ Day(begun[returned[i]]) = Day(begun[i])
       /\ begun[returned[i]] >= IntendedAt(begun[i])

\* Variant: evidence that was observed by the cutoff, whenever it was captured.
AsOfObserved(t, cutoff) ==
  LET known == {s \in surfaces : s.ticker = t /\ s.observed <= cutoff}
  IN {s \in known : \A u \in known : u.observed <= s.observed}

\* best_archived_surface_at_or_before: the newest observation of a ticker that was both
\* observed and captured by the cutoff.
AsOf(t, cutoff) ==
  LET known == {s \in surfaces : s.ticker = t /\ s.observed <= cutoff /\ s.captured <= cutoff}
  IN {s \in known : \A u \in known : u.observed <= s.observed}

\* The evidence of a past cutoff does not change afterwards, except by a capture that
\* had already begun to ask for it by then.
PastEvidenceIsSettled ==
  [][\A t \in Tickers, cutoff \in 0..now - 1 :
       AsOf(t, cutoff)' # AsOf(t, cutoff) =>
         \E i \in Invocations : pc[i] = "asking" /\ ticker[i] = t /\ asked[i] <= cutoff]_vars
===============================================================================
