---------------------------- MODULE DailyOiArchive ----------------------------
(***************************************************************************)
(* The Daily OI archive (backend/app/scanner/archive.py) for one vendor OI *)
(* date: a run walks the tickers; for each it reads the expiry surface,    *)
(* commits one PENDING snapshot per expiry in scope, requests the chain of *)
(* each, and then gives the deferred expiries (429 and INVALID_RESPONSE)   *)
(* one bounded recovery request.                                           *)
(*                                                                         *)
(* run, row, chain, owner and content are committed rows; job is what the  *)
(* process that holds the advisory lock keeps in memory, lost in a crash.  *)
(* A crash between a request and the commit of its outcome is a crash      *)
(* before the request: only api usage rows, not modelled, are between.     *)
(***************************************************************************)
EXTENDS Integers, FiniteSets

CONSTANTS
  TickerCount,    \* the length of UNIVERSE
  SurfaceSize,    \* bound: SurfaceSize[t] expirations at most in the surface of t
  MaxRuns,        \* bound: archive runs
  MaxAttempts,    \* max_network_attempts (and, merged with it, max_consumed_units)
  MaxRetries,     \* transport retries of the client: 0 under the scheduler
  MaxPolls,       \* materialization_max_attempts
  RecoveryCap     \* recovery_max_attempts_per_run

ASSUME ArchiveAssumption ==
  /\ TickerCount \in Nat \ {0} /\ SurfaceSize \in [1..TickerCount -> Nat]
  /\ MaxRuns \in Nat /\ MaxAttempts \in Nat /\ MaxRetries \in Nat
  /\ MaxPolls \in Nat \ {0} /\ RecoveryCap \in Nat

VARIABLES
  run,       \* run[r]: DailyOiArchiveRun.status
  row,       \* row[r][t]: DailyOiArchiveTicker.status and its chain counters
  chain,     \* chain[t][x]: ExpiryOiDailySnapshot.chain_status, NONE without a row
  owner,     \* owner[t]: the run that wrote the snapshots of t, 0 for none
  content,   \* content[t][x]: how often the contract rows of the chain were written
  job        \* the archiver in memory

vars == <<run, row, chain, owner, content, job>>

Runs == 1..MaxRuns

\* Tickers are walked in the order of UNIVERSE, expiries in the order of the surface.
Tickers == 1..TickerCount
Expiries == UNION {1..SurfaceSize[t] : t \in Tickers}
First(x, queue) == x \in queue /\ \A y \in queue : x <= y

\* Reasons by what the archiver does with them.  DEFERRED: TRANSIENT_RATE_LIMIT and
\* INVALID_RESPONSE, queued for recovery.  REFUSED: MATERIALIZATION_TIMEOUT, TRUNCATED,
\* and what a recovery that did not succeed leaves.
Unavailable == {"EXPIRED_CHAIN_UNAVAILABLE", "ACTIVE_CHAIN_UNAVAILABLE"}
\* A chain whose outcome is counted as incomplete.
IncompleteChain == Unavailable \union {"DEFERRED", "REFUSED"}
ChainStatuses == IncompleteChain \union {"NONE", "PENDING", "BUDGET_NOT_ATTEMPTED", "COMPLETE"}

\* VENDOR_ERROR stands for INVALID_OI_SURFACE too: nothing tells them apart later.
RowStatuses == {"NONE", "RUNNING", "COMPLETE", "PARTIAL_INCOMPLETE_CHAIN",
                "PARTIAL_ARCHIVE_BUDGET_LIMIT", "VENDOR_ERROR",
                "NO_NEW_VENDOR_OI_SNAPSHOT", "BUDGET_NOT_ATTEMPTED"}
FinishedStatuses == {"COMPLETE", "PARTIAL", "PARTIAL_ARCHIVE_BUDGET_LIMIT",
                     "NO_NEW_VENDOR_OI_SNAPSHOT"}
RunStatuses == FinishedStatuses \union {"NONE", "RUNNING", "FAILED"}

\* in phase: idle (no lock held), surface, chains, recovery, stopping, finishing
Idle == [phase |-> "idle", run |-> 0, ticker |-> 1, todo |-> {}, polls |-> 0, deferred |-> {}, incomplete |-> {},
         activeGone |-> FALSE, attempts |-> 0, recoveries |-> 0, limited |-> FALSE]

EmptyRow == [status |-> "NONE", complete |-> 0, incomplete |-> 0]

TypeOK ==
  /\ run \in [Runs -> RunStatuses]
  /\ row \in [Runs -> [Tickers -> [status : RowStatuses,
                                   complete : 0..Cardinality(Expiries),
                                   incomplete : 0..Cardinality(Expiries)]]]
  /\ chain \in [Tickers -> [Expiries -> ChainStatuses]]
  /\ owner \in [Tickers -> 0..MaxRuns]
  /\ content \in [Tickers -> [Expiries -> Nat]]
  /\ job \in [phase : {"idle", "surface", "chains", "recovery", "stopping", "finishing"},
              run : 0..MaxRuns, ticker : Tickers, todo : SUBSET Expiries,
              polls : 0..MaxPolls, deferred : SUBSET Expiries,
              incomplete : SUBSET Expiries, activeGone : BOOLEAN,
              attempts : Nat, recoveries : Nat, limited : BOOLEAN]

Init ==
  /\ run = [r \in Runs |-> "NONE"]
  /\ row = [r \in Runs |-> [t \in Tickers |-> EmptyRow]]
  /\ chain = [t \in Tickers |-> [x \in Expiries |-> "NONE"]]
  /\ owner = [t \in Tickers |-> 0]
  /\ content = [t \in Tickers |-> [x \in Expiries |-> 0]]
  /\ job = Idle

-----------------------------------------------------------------------------
(* The run and its budget *)

\* Variant: the comparison is off by one.
HasRoomInclusive == job.attempts <= MaxAttempts

\* ArchiveBudget.ensure_room, asked before each request and never during one.
HasRoom == job.attempts < MaxAttempts

\* The network attempts that one request may cost.
Costs == 1..(1 + MaxRetries)

\* The lock is held by one archiver at a time; a run interrupted before stays RUNNING.
StartRun(r) ==
  /\ job.phase = "idle"
  /\ run[r] = "NONE"
  /\ \A q \in Runs : q < r => run[q] # "NONE"
  /\ run' = [run EXCEPT ![r] = "RUNNING"]
  /\ job' = [Idle EXCEPT !.phase = "surface", !.run = r]
  /\ UNCHANGED <<row, chain, owner, content>>

SetRow(t, status) == row' = [row EXCEPT ![job.run][t].status = status]

\* Variant: the queue of the ticker before is kept.
NextTickerKeepsQueue(t, cost) ==
  job' = [job EXCEPT !.phase = IF t = TickerCount THEN "finishing" ELSE "surface",
                     !.ticker = IF t = TickerCount THEN t ELSE t + 1,
                     !.todo = {}, !.polls = 0,
                     !.attempts = @ + cost]

\* After ticker t: the next one, or the end of the run.
NextTicker(t, cost) ==
  job' = [job EXCEPT !.phase = IF t = TickerCount THEN "finishing" ELSE "surface",
                     !.ticker = IF t = TickerCount THEN t ELSE t + 1,
                     !.todo = {}, !.polls = 0,
                     !.deferred = {}, !.incomplete = {}, !.activeGone = FALSE,
                     !.attempts = @ + cost]

-----------------------------------------------------------------------------
(* The expiry surface of a ticker *)

\* Budget reached before the surface request: no row of this ticker exists yet.
SurfaceBudgetStop ==
  /\ job.phase = "surface"
  /\ ~HasRoom
  /\ job' = [job EXCEPT !.phase = "stopping", !.limited = TRUE]
  /\ UNCHANGED <<run, row, chain, owner, content>>

\* The vendor fails, or the payload does not carry exactly one vendor date.
SurfaceFails(t, cost) ==
  /\ job.phase = "surface" /\ HasRoom
  /\ t = job.ticker
  /\ SetRow(t, "VENDOR_ERROR")
  /\ NextTicker(t, cost)
  /\ UNCHANGED <<run, chain, owner, content>>

\* Any snapshot row of this ticker and date, whatever its chain status, is reused.
NoNewSurface(t, cost) ==
  /\ job.phase = "surface" /\ HasRoom
  /\ t = job.ticker
  /\ owner[t] # 0
  /\ SetRow(t, "NO_NEW_VENDOR_OI_SNAPSHOT")
  /\ NextTicker(t, cost)
  /\ UNCHANGED <<run, chain, owner, content>>

\* Variant: a replay takes up a date whose chains are not all complete.
OpenTickerToCompleteIt(t, cost, scope) ==
  /\ job.phase = "surface" /\ HasRoom
  /\ t = job.ticker
  /\ \E x \in Expiries : chain[t][x] # "COMPLETE"
  /\ SetRow(t, "RUNNING")
  /\ chain' = [chain EXCEPT ![t] =
                 [x \in Expiries |-> IF x \in scope THEN "PENDING" ELSE "NONE"]]
  /\ owner' = [owner EXCEPT ![t] = IF scope = {} THEN 0 ELSE job.run]
  /\ job' = [job EXCEPT !.phase = "chains", !.todo = scope,
                        !.attempts = @ + cost]
  /\ UNCHANGED <<run, content>>

\* The ticker row and one PENDING snapshot per expiry in scope, in one commit.  A
\* scope without expiries leaves no snapshot for a replay to find.
OpenTicker(t, cost, scope) ==
  /\ job.phase = "surface" /\ HasRoom
  /\ t = job.ticker
  /\ owner[t] = 0
  /\ SetRow(t, "RUNNING")
  /\ chain' = [chain EXCEPT ![t] =
                 [x \in Expiries |-> IF x \in scope THEN "PENDING" ELSE "NONE"]]
  /\ owner' = [owner EXCEPT ![t] = IF scope = {} THEN 0 ELSE job.run]
  /\ job' = [job EXCEPT !.phase = "chains", !.todo = scope,
                        !.attempts = @ + cost]
  /\ UNCHANGED <<run, content>>

-----------------------------------------------------------------------------
(* The normal pass over the expiries *)

\* The next expiry to request, or the one being polled.
Requesting(x) ==
  /\ job.phase = "chains" /\ HasRoom
  /\ First(x, job.todo)

\* HTTP 202 with polls left: the same chain is requested again.
ChainMaterializing(x, cost) ==
  /\ Requesting(x)
  /\ job.polls + 1 < MaxPolls
  /\ job' = [job EXCEPT !.polls = @ + 1, !.attempts = @ + cost]
  /\ UNCHANGED <<run, row, chain, owner, content>>

\* _persist_complete_chain: the contract rows and the accepted status together.
PersistChain(x) ==
  /\ content' = [content EXCEPT ![job.ticker][x] = @ + 1]
  /\ chain' = [chain EXCEPT ![job.ticker][x] = "COMPLETE"]

\* A complete (or bounded) chain; its contracts' OI date is not compared here.
ChainComplete(x, cost) ==
  /\ Requesting(x)
  /\ PersistChain(x)
  /\ row' = [row EXCEPT ![job.run][job.ticker].complete = @ + 1]
  /\ job' = [job EXCEPT !.todo = @ \ {x}, !.polls = 0, !.attempts = @ + cost]
  /\ UNCHANGED <<run, owner>>

\* Variant: the reason is written, and not kept among the incomplete details.
ChainIncompleteUnlisted(x, cost, reason) ==
  /\ Requesting(x)
  /\ chain' = [chain EXCEPT ![job.ticker][x] = reason]
  /\ row' = [row EXCEPT ![job.run][job.ticker].incomplete = @ + 1]
  /\ job' = [job EXCEPT !.todo = @ \ {x}, !.polls = 0,
                        !.attempts = @ + cost,
                        !.deferred = IF reason = "DEFERRED" THEN @ \union {x} ELSE @]
  /\ UNCHANGED <<run, owner, content>>

\* 429, polls exhausted or too slow, or a payload the parser refuses.
ChainIncomplete(x, cost, reason) ==
  /\ Requesting(x)
  /\ chain' = [chain EXCEPT ![job.ticker][x] = reason]
  /\ row' = [row EXCEPT ![job.run][job.ticker].incomplete = @ + 1]
  /\ job' = [job EXCEPT !.todo = @ \ {x}, !.polls = 0,
                        !.attempts = @ + cost, !.incomplete = @ \union {x},
                        !.deferred = IF reason = "DEFERRED" THEN @ \union {x} ELSE @]
  /\ UNCHANGED <<run, owner, content>>

\* HTTP 404: only an expiry that has not expired blocks the ticker.
ChainUnavailable(x, cost, reason) ==
  /\ Requesting(x)
  /\ chain' = [chain EXCEPT ![job.ticker][x] = reason]
  /\ row' = [row EXCEPT ![job.run][job.ticker].incomplete = @ + 1]
  /\ job' = [job EXCEPT !.todo = @ \ {x}, !.polls = 0,
                        !.attempts = @ + cost,
                        !.activeGone = @ \/ reason = "ACTIVE_CHAIN_UNAVAILABLE"]
  /\ UNCHANGED <<run, owner, content>>

\* Any other vendor error aborts the ticker: its later expiries stay PENDING and its
\* deferred ones are not recovered.
ChainVendorError(x, cost) ==
  /\ Requesting(x)
  /\ SetRow(job.ticker, "VENDOR_ERROR")
  /\ NextTicker(job.ticker, cost)
  /\ UNCHANGED <<run, chain, owner, content>>

\* Budget reached before a chain request: the expiries not requested say so.
ChainBudgetStop ==
  /\ job.phase = "chains" /\ job.todo # {}
  /\ ~HasRoom
  /\ chain' = [chain EXCEPT ![job.ticker] =
                 [x \in Expiries |->
                    IF x \in job.todo /\ @[x] = "PENDING" THEN "BUDGET_NOT_ATTEMPTED"
                                                         ELSE @[x]]]
  /\ SetRow(job.ticker, "PARTIAL_ARCHIVE_BUDGET_LIMIT")
  /\ job' = [job EXCEPT !.phase = "stopping", !.limited = TRUE]
  /\ UNCHANGED <<run, owner, content>>

NormalPassEnds ==
  /\ job.phase = "chains" /\ job.todo = {}
  /\ job' = [job EXCEPT !.phase = "recovery"]
  /\ UNCHANGED <<run, row, chain, owner, content>>

-----------------------------------------------------------------------------
(* Bounded deferred recovery *)

\* Variant: the loop over the queue does not move on.
RecoveryCapStuck(x) ==
  /\ job.phase = "recovery" /\ First(x, job.deferred)
  /\ job.recoveries >= RecoveryCap
  /\ UNCHANGED vars

\* The run-level cap: the queued expiry keeps its reason.
RecoveryCapReached(x) ==
  /\ job.phase = "recovery" /\ First(x, job.deferred)
  /\ job.recoveries >= RecoveryCap
  /\ job' = [job EXCEPT !.deferred = @ \ {x}]
  /\ UNCHANGED <<run, row, chain, owner, content>>

\* One direct request for x, taken out of the queue whatever it answers; only a
\* recovered expiry leaves the incomplete details.
Recovering(x, cost, recovered) ==
  /\ job.phase = "recovery" /\ First(x, job.deferred)
  /\ job.recoveries < RecoveryCap /\ HasRoom
  /\ job' = [job EXCEPT !.deferred = @ \ {x}, !.recoveries = @ + 1, !.attempts = @ + cost,
                        !.incomplete = IF recovered THEN @ \ {x} ELSE @]

\* The vendor fails again: audited, the chain status kept.
RecoveryVendorError(x, cost) ==
  /\ Recovering(x, cost, FALSE)
  /\ UNCHANGED <<run, row, chain, owner, content>>

\* Not complete, or complete for another date: no contracts are written.
RecoveryRefused(x, cost) ==
  /\ Recovering(x, cost, FALSE)
  /\ chain' = [chain EXCEPT ![job.ticker][x] = "REFUSED"]
  /\ UNCHANGED <<run, row, owner, content>>

\* Variant: the recovered expiry becomes complete and stays incomplete.
RecoverySucceedsCountedTwice(x, cost) ==
  /\ Recovering(x, cost, TRUE)
  /\ PersistChain(x)
  /\ row' = [row EXCEPT ![job.run][job.ticker].complete = @ + 1]
  /\ UNCHANGED <<run, owner>>

\* Complete, and every date present is the collection's vendor date.
RecoverySucceeds(x, cost) ==
  /\ Recovering(x, cost, TRUE)
  /\ PersistChain(x)
  /\ row' = [row EXCEPT ![job.run][job.ticker] =
               [status |-> @.status, complete |-> @.complete + 1,
                incomplete |-> @.incomplete - 1]]
  /\ UNCHANGED <<run, owner>>

\* Budget reached before a recovery request: only NightwatchError is caught, so the
\* ticker's row is left as it is.
RecoveryBudgetStop ==
  /\ job.phase = "recovery" /\ job.deferred # {}
  /\ job.recoveries < RecoveryCap /\ ~HasRoom
  /\ job' = [job EXCEPT !.phase = "stopping", !.limited = TRUE]
  /\ UNCHANGED <<run, row, chain, owner, content>>

\* The status of the ticker once every expiry had its chances.
FinishTicker ==
  /\ job.phase = "recovery" /\ job.deferred = {}
  /\ SetRow(job.ticker, IF job.incomplete # {} \/ job.activeGone
                          THEN "PARTIAL_INCOMPLETE_CHAIN" ELSE "COMPLETE")
  /\ NextTicker(job.ticker, 0)
  /\ UNCHANGED <<run, chain, owner, content>>

-----------------------------------------------------------------------------
(* The end of the run *)

\* Variant: the tickers not reached are left out.
MarkUnattemptedNone ==
  /\ job.phase = "stopping"
  /\ job' = [job EXCEPT !.phase = "finishing"]
  /\ UNCHANGED <<run, row, chain, owner, content>>

\* _mark_unattempted_tickers: the rest of the universe that has no row.
MarkUnattempted ==
  /\ job.phase = "stopping"
  /\ row' = [row EXCEPT ![job.run] =
               [t \in Tickers |-> IF t >= job.ticker /\ @[t].status = "NONE"
                                    THEN [@[t] EXCEPT !.status = "BUDGET_NOT_ATTEMPTED"]
                                    ELSE @[t]]]
  /\ job' = [job EXCEPT !.phase = "finishing"]
  /\ UNCHANGED <<run, chain, owner, content>>

\* _finish: the first reason that applies.
FinishedStatus(r) ==
  LET statuses == {row[r][t].status : t \in {u \in Tickers : row[r][u].status # "NONE"}} IN
  IF job.limited THEN "PARTIAL_ARCHIVE_BUDGET_LIMIT"
  ELSE IF statuses \intersect
            {"VENDOR_ERROR", "PARTIAL_INCOMPLETE_CHAIN"} # {}
    THEN "PARTIAL"
  ELSE IF statuses = {"NO_NEW_VENDOR_OI_SNAPSHOT"} THEN "NO_NEW_VENDOR_OI_SNAPSHOT"
  ELSE "COMPLETE"

EndRun(status) ==
  /\ run' = [run EXCEPT ![job.run] = status]
  /\ job' = Idle
  /\ UNCHANGED <<row, chain, owner, content>>

FinishRun ==
  /\ job.phase = "finishing"
  /\ EndRun(FinishedStatus(job.run))

\* An error that is not the vendor's: rollback, the run FAILED, through a fresh
\* session if the first one is poisoned.
RunFails ==
  /\ job.phase # "idle"
  /\ EndRun("FAILED")

\* The process dies, or neither session can record the failure: the connection's
\* lock is released and the run stays RUNNING.
RunLost ==
  /\ job.phase # "idle"
  /\ job' = Idle
  /\ UNCHANGED <<run, row, chain, owner, content>>

-----------------------------------------------------------------------------

\* What the archiver does when nothing but the vendor goes wrong.
Step ==
  \/ SurfaceBudgetStop
  \/ \E t \in Tickers, cost \in Costs :
       \/ SurfaceFails(t, cost)
       \/ NoNewSurface(t, cost)
       \/ \E n \in 0..SurfaceSize[t] : OpenTicker(t, cost, 1..n)
  \/ \E x \in Expiries, cost \in Costs :
       \/ ChainMaterializing(x, cost)
       \/ ChainComplete(x, cost)
       \/ \E reason \in {"DEFERRED", "REFUSED"} : ChainIncomplete(x, cost, reason)
       \/ \E reason \in Unavailable : ChainUnavailable(x, cost, reason)
       \/ ChainVendorError(x, cost)
       \/ RecoveryVendorError(x, cost)
       \/ RecoveryRefused(x, cost)
       \/ RecoverySucceeds(x, cost)
  \/ ChainBudgetStop
  \/ NormalPassEnds
  \/ \E x \in Expiries : RecoveryCapReached(x)
  \/ RecoveryBudgetStop
  \/ FinishTicker
  \/ MarkUnattempted
  \/ FinishRun

\* Every run has been started and the lock is free (not a deadlock).
AllRunsUsed ==
  /\ job.phase = "idle"
  /\ \A r \in Runs : run[r] # "NONE"
  /\ UNCHANGED vars

Next ==
  \/ \E r \in Runs : StartRun(r)
  \/ Step
  \/ RunFails
  \/ RunLost
  \/ AllRunsUsed

Spec == Init /\ [][Next]_vars

\* Every wait of the archiver is bounded: request timeouts, capped polls and defers.
FairSpec == Spec /\ WF_vars(Step)

-----------------------------------------------------------------------------
(* What the archive guarantees *)

Accepted == {"COMPLETE", "EXPIRED_CHAIN_UNAVAILABLE"}

\* The ticker rows, the chains and the contracts agree, through failures, budget stops,
\* crashes, replays of the date and recoveries, which move a chain from incomplete to
\* complete: the counters are the chains, and a chain is complete exactly when its
\* contracts have been written, once.
RowsMatchChains ==
  \A t \in Tickers :
    /\ owner[t] # 0 =>
         /\ row[owner[t]][t].complete = Cardinality({x \in Expiries : chain[t][x] = "COMPLETE"})
         /\ row[owner[t]][t].incomplete =
              Cardinality({x \in Expiries : chain[t][x] \in IncompleteChain})
    /\ \A x \in Expiries :
         content[t][x] = IF chain[t][x] = "COMPLETE" THEN 1 ELSE 0

\* COMPLETE hides nothing: the tickers of a COMPLETE run are complete or already
\* archived, and a COMPLETE ticker, of any run, has every expiry in scope complete or
\* gone with its expiration, none deferred, timed out, refused or never requested.
CompleteMeansCovered ==
  /\ \A r \in Runs, t \in Tickers :
       run[r] = "COMPLETE" => row[r][t].status \in {"COMPLETE", "NO_NEW_VENDOR_OI_SNAPSHOT"}
  /\ \A t \in Tickers :
       owner[t] # 0 /\ row[owner[t]][t].status = "COMPLETE" =>
         \A x \in Expiries : chain[t][x] \in Accepted \union {"NONE"}

\* The network attempts of a run pass the limit by at most the retries of one request.
BudgetRespected == job.attempts <= MaxAttempts + MaxRetries

\* A finished run accounts for the whole universe: every ticker has a row, every
\* expiry of a ticker that no vendor error aborted has an outcome, and a row can be
\* left RUNNING only by a budget stop.
OmissionsAreExplicit ==
  \A r \in Runs, t \in Tickers : run[r] \in FinishedStatuses =>
    /\ row[r][t].status # "NONE"
    /\ row[r][t].status = "RUNNING" => run[r] = "PARTIAL_ARCHIVE_BUDGET_LIMIT"
    /\ owner[t] = r /\ row[r][t].status # "VENDOR_ERROR" =>
         \A x \in Expiries : chain[t][x] # "PENDING"

\* SCAN_ORCHESTRATION_V1: "The job persists run, ticker, and expiry completeness",
\* with a hard stop's incomplete expiries explicit: a finished run leaves no ticker
\* RUNNING.  Refuted by the budget running out during recovery.
FinishedRunClosesItsTickers ==
  \A r \in Runs, t \in Tickers :
    run[r] \in FinishedStatuses => row[r][t].status # "RUNNING"

\* A replay of the date never touches what an earlier run wrote, complete or not, and
\* a complete chain is never reopened.
ReplayNeverRewrites ==
  [][\A t \in Tickers :
       /\ owner[t] \notin {0, job.run} =>
            /\ chain'[t] = chain[t]
            /\ content'[t] = content[t]
            /\ row'[owner[t]][t] = row[owner[t]][t]
       /\ \A x \in Expiries : chain[t][x] = "COMPLETE" => chain'[t][x] = "COMPLETE"]_vars

\* An archiver that holds the lock gives it back: polls, deferrals and recoveries
\* always come to an end.
ArchiverEnds == job.phase # "idle" ~> job.phase = "idle"
===============================================================================
