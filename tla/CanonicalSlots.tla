---------------------------- MODULE CanonicalSlots ----------------------------
(***************************************************************************)
(* The canonical production scheduler (backend/app/scheduler): Cloud       *)
(* Scheduler delivers a slot over HTTP at least once; the first delivery   *)
(* commits the slot row and its OWNER attempt and runs the slot's handler, *)
(* every other delivery records a DUPLICATE_DELIVERY_REUSED attempt.       *)
(*                                                                         *)
(* A delivery is a process with a database session.  slot and attempt are  *)
(* committed rows; dirty is what the session has assigned to its slot and  *)
(* not committed.  The handlers (the daily pipeline, the Dealer/GEX        *)
(* archive, the vNext observation) are seen from here as vendor requests   *)
(* followed by a return, an exception, or a crash of the process.  The     *)
(* counters of a slot are sums of the client's usage events, and a request *)
(* that breaks outside the client's own error handling leaves no event.    *)
(***************************************************************************)
EXTENDS Naturals

CONSTANTS
  Slots,         \* identities (slot_type, intended_at)
  SlotType,      \* SlotType[s]: which of the three handlers slot s runs
  Deliveries,    \* HTTP deliveries
  SlotOf,        \* SlotOf[d]: the slot that delivery d carries
  MaxRequests    \* bound on the vendor requests of one delivery

SlotTypes == {"RADAR_OI", "DEALER_GEX", "ACTIVITY_VNEXT"}

ASSUME SlotsAssumption ==
  /\ SlotType \in [Slots -> SlotTypes]
  /\ SlotOf \in [Deliveries -> Slots]
  /\ MaxRequests \in Nat

VARIABLES
  slot,      \* canonical_scheduler_slots: status, network_attempts, safe_error
  attempt,   \* canonical_scheduler_attempts: disposition, result_status
  pc,        \* where each delivery's request handler is
  timing,    \* the delivery's actual start against its intended slot
  dirty,     \* counters assigned to the ORM row and not yet committed
  usage,     \* the usage events the budgets of each delivery have counted
  work       \* history: the vendor requests each delivery really made

vars == <<slot, attempt, pc, timing, dirty, usage, work>>

\* One name stands for each family of statuses: SKIPPED for every SKIPPED_*,
\* PARTIAL for the scan's PARTIAL_BUDGET_LIMIT and DATA_PENDING too.
PipelineStatuses == {"COMPLETE", "PARTIAL", "FAILED"}
ObservationStatuses == {"COMPLETE", "SUCCESS_NO_CANDIDATE", "PARTIAL"}
TerminalStatuses ==
  PipelineStatuses \union ObservationStatuses \union {"SKIPPED", "HELD_NOT_READY"}

\* EARLY: before the intended instant.  GUARDED: a source-validity guard (market
\* date, window, session close, capture target) refuses.  VALID: work may run.
Timings == {"UNKNOWN", "EARLY", "GUARDED", "VALID"}

\* settled: the verdict is committed, and the delivery has yet to learn of it and to
\* leave its client.  failing, overruling: in the except branch, before and after a
\* verdict.
Phases == {"idle", "flushing", "inserted", "conflict", "handler", "observing",
           "scanning", "failing", "settled", "overruling", "done", "rejected",
           "crashed", "abandoned"}

\* The phases in which a delivery has nothing left to do.
Stopped == {"done", "rejected", "crashed", "abandoned"}

NoRow == [status |-> "NONE", attempts |-> 0, error |-> FALSE]
NoAttempt == [disposition |-> "NONE", result |-> "NONE"]

Claimed(s) == slot[s].status # "NONE"
Settled(s) == slot[s].status \in TerminalStatuses

Owners(s) == {d \in Deliveries : /\ SlotOf[d] = s
                                 /\ attempt[d].disposition \in {"OWNER", "EXECUTED"}}

TypeOK ==
  /\ slot \in [Slots -> [status : TerminalStatuses \union {"NONE", "CLAIMED"},
                         attempts : 0..MaxRequests,
                         error : BOOLEAN]]
  /\ attempt \in
       [Deliveries -> [disposition : {"NONE", "OWNER", "EXECUTED",
                                      "DUPLICATE_DELIVERY_REUSED"},
                       result : TerminalStatuses \union {"NONE", "CLAIMED"}]]
  /\ pc \in [Deliveries -> Phases]
  /\ timing \in [Deliveries -> Timings]
  /\ dirty \in [Deliveries -> 0..MaxRequests]
  /\ usage \in [Deliveries -> 0..MaxRequests]
  /\ work \in [Deliveries -> 0..MaxRequests]

Init ==
  /\ slot = [s \in Slots |-> NoRow]
  /\ attempt = [d \in Deliveries |-> NoAttempt]
  /\ pc = [d \in Deliveries |-> "idle"]
  /\ timing = [d \in Deliveries |-> "UNKNOWN"]
  /\ dirty = [d \in Deliveries |-> 0]
  /\ usage = [d \in Deliveries |-> 0]
  /\ work = [d \in Deliveries |-> 0]

-----------------------------------------------------------------------------
(* Claiming the slot (repository.claim_canonical_slot) *)

Goto(d, phase) == pc' = [pc EXCEPT ![d] = phase]

\* The delivery arrives; an actual start before the intended instant is refused
\* before anything is written.
Receive(d, when) ==
  /\ pc[d] = "idle"
  /\ timing' = [timing EXCEPT ![d] = when]
  /\ Goto(d, IF when = "EARLY" THEN "rejected" ELSE "flushing")
  /\ UNCHANGED <<slot, attempt, dirty, usage, work>>

\* Variant: look for the row first, then insert without the unique constraint.
FlushClaimUnchecked(d) ==
  /\ pc[d] = "flushing"
  /\ Goto(d, IF Claimed(SlotOf[d]) THEN "conflict" ELSE "inserted")
  /\ UNCHANGED <<slot, attempt, timing, dirty, usage, work>>

\* Variant: treat an INSERT that is still uncommitted as a conflict.
FlushClaimImpatient(d) ==
  /\ pc[d] = "flushing"
  /\ Goto(d, IF \/ Claimed(SlotOf[d])
                \/ \E e \in Deliveries : SlotOf[e] = SlotOf[d] /\ pc[e] = "inserted"
               THEN "conflict" ELSE "inserted")
  /\ UNCHANGED <<slot, attempt, timing, dirty, usage, work>>

\* Variant: a duplicate waits for the owner's verdict, not for its commit.
FlushClaimWaitsForVerdict(d) ==
  /\ pc[d] = "flushing"
  /\ \A e \in Deliveries : SlotOf[e] = SlotOf[d] => pc[e] # "inserted"
  /\ Claimed(SlotOf[d]) => Settled(SlotOf[d])
  /\ Goto(d, IF Claimed(SlotOf[d]) THEN "conflict" ELSE "inserted")
  /\ UNCHANGED <<slot, attempt, timing, dirty, usage, work>>

\* INSERT under uq_canonical_slot_type_intended: it waits for a transaction that
\* has inserted the same identity, and fails when the row is committed.
FlushClaim(d) ==
  /\ pc[d] = "flushing"
  /\ \A e \in Deliveries : SlotOf[e] = SlotOf[d] => pc[e] # "inserted"
  /\ Goto(d, IF Claimed(SlotOf[d]) THEN "conflict" ELSE "inserted")
  /\ UNCHANGED <<slot, attempt, timing, dirty, usage, work>>

\* Slot row and OWNER attempt become visible in one commit.
CommitClaim(d) ==
  /\ pc[d] = "inserted"
  /\ slot' = [slot EXCEPT ![SlotOf[d]] =
                [status |-> "CLAIMED", attempts |-> 0, error |-> FALSE]]
  /\ attempt' = [attempt EXCEPT ![d] = [disposition |-> "OWNER", result |-> "NONE"]]
  /\ Goto(d, "handler")
  /\ UNCHANGED <<timing, dirty, usage, work>>

\* Variant: a duplicate that finds the slot unfinished takes it over.
ReuseExistingTakeover(d) ==
  /\ pc[d] = "conflict"
  /\ attempt' = [attempt EXCEPT ![d] =
                   [disposition |-> "DUPLICATE_DELIVERY_REUSED",
                    result |-> slot[SlotOf[d]].status]]
  /\ Goto(d, IF Settled(SlotOf[d]) THEN "done" ELSE "handler")
  /\ UNCHANGED <<slot, timing, dirty, usage, work>>

\* After the rollback the delivery reads the visible owner row, records itself
\* as a duplicate with that row's status, and returns it.
ReuseExisting(d) ==
  /\ pc[d] = "conflict"
  /\ attempt' = [attempt EXCEPT ![d] =
                   [disposition |-> "DUPLICATE_DELIVERY_REUSED",
                    result |-> slot[SlotOf[d]].status]]
  /\ Goto(d, "done")
  /\ UNCHANGED <<slot, timing, dirty, usage, work>>

-----------------------------------------------------------------------------
(* Running the slot (service.CanonicalSchedulerOrchestrator) *)

\* Variant: the attempt is finished and the slot row is not.
CompleteAttemptOnly(d, status, counters) ==
  /\ attempt' = [attempt EXCEPT ![d] = [disposition |-> "EXECUTED", result |-> status]]
  /\ dirty' = [dirty EXCEPT ![d] = 0]
  /\ Goto(d, "settled")
  /\ UNCHANGED <<slot, timing, usage, work>>

\* Variant: the status is written and the counters are not.
CompleteWithCountersDropped(d, status, counters) ==
  /\ slot' = [slot EXCEPT ![SlotOf[d]] = [@ EXCEPT !.status = status]]
  /\ attempt' = [attempt EXCEPT ![d] = [disposition |-> "EXECUTED", result |-> status]]
  /\ dirty' = [dirty EXCEPT ![d] = 0]
  /\ Goto(d, "settled")
  /\ UNCHANGED <<timing, usage, work>>

\* Variant: the counters are added to what the row already counts.
CompleteDoubleCounts(d, status, counters) ==
  /\ slot' = [slot EXCEPT ![SlotOf[d]] =
                [status |-> status, attempts |-> @.attempts + counters, error |-> FALSE]]
  /\ attempt' = [attempt EXCEPT ![d] = [disposition |-> "EXECUTED", result |-> status]]
  /\ dirty' = [dirty EXCEPT ![d] = 0]
  /\ Goto(d, "settled")
  /\ UNCHANGED <<timing, usage, work>>

\* _complete and finish_attempt: terminal status, counters and the EXECUTED
\* attempt in one commit.
Complete(d, status, counters) ==
  /\ slot' = [slot EXCEPT ![SlotOf[d]] =
                [status |-> status, attempts |-> counters, error |-> FALSE]]
  /\ attempt' = [attempt EXCEPT ![d] = [disposition |-> "EXECUTED", result |-> status]]
  /\ dirty' = [dirty EXCEPT ![d] = 0]
  /\ Goto(d, "settled")
  /\ UNCHANGED <<timing, usage, work>>

\* A guard of the handler refuses: no client request is made.
SkipByGuard(d) ==
  /\ pc[d] = "handler"
  /\ timing[d] = "GUARDED"
  /\ Complete(d, "SKIPPED", 0)

\* The subjobs of a slot's handler that the pipeline isolates: a request that breaks
\* ends its subjob only.  In the archive of a Dealer/GEX slot it ends the handler.
Isolated == [RADAR_OI |-> 2, ACTIVITY_VNEXT |-> 1, DEALER_GEX |-> 0]

\* The subjobs of d's pipeline that a broken request has ended.
Broken(d) == work[d] - usage[d]

\* A request may still be made: by the pipeline while a subjob is left, or by the scan.
MayRequest(d) ==
  /\ timing[d] = "VALID"
  /\ work[d] < MaxRequests
  /\ \/ pc[d] = "scanning"
     \/ pc[d] = "handler" /\ (Broken(d) = 0 \/ Broken(d) < Isolated[SlotType[SlotOf[d]]])

\* One request to the vendor, by the pipeline or archive, or by the scan: answered,
\* refused or timed out, the client gives its observer a usage event.
VendorRequest(d) ==
  /\ MayRequest(d)
  /\ work' = [work EXCEPT ![d] = @ + 1]
  /\ usage' = [usage EXCEPT ![d] = @ + 1]
  /\ UNCHANGED <<slot, attempt, pc, timing, dirty>>

\* A request breaks with an error that the client does not catch, and leaves no usage
\* event.  The pipeline records the subjob as failed; from the archive of a Dealer/GEX
\* slot and from the scan the error reaches the except branch.
RequestBreaks(d) ==
  /\ MayRequest(d)
  /\ work' = [work EXCEPT ![d] = @ + 1]
  /\ IF pc[d] = "handler" /\ Isolated[SlotType[SlotOf[d]]] > 0
       THEN UNCHANGED <<pc, dirty>>
       ELSE /\ dirty' = [dirty EXCEPT ![d] = 0]
            /\ Goto(d, "failing")
  /\ UNCHANGED <<slot, attempt, timing, usage>>

\* Variant: the failure of an isolated subjob does not reach the run's status.
PipelineMayEndUnaware(d, status) == status \in PipelineStatuses

\* The statuses of a pipeline run: a failed subjob rules out COMPLETE, and if it is the
\* only one the run is FAILED.
PipelineMayEnd(d, status) ==
  Broken(d) > 0 =>
    status \in IF SlotType[SlotOf[d]] = "RADAR_OI" THEN {"PARTIAL", "FAILED"} ELSE {"FAILED"}

\* _run_radar_oi and _run_dealer_gex: the summary's counters and status.
CollectionReturns(d, status) ==
  /\ pc[d] = "handler"
  /\ timing[d] = "VALID"
  /\ SlotType[SlotOf[d]] \in {"RADAR_OI", "DEALER_GEX"}
  /\ PipelineMayEnd(d, status)
  /\ Complete(d, status, usage[d])

\* The Dealer/GEX archiver found a completed run of this slot's key and returned
\* that run's summary, with that run's counters.
DealerRunReused(d, counters) ==
  /\ pc[d] = "handler"
  /\ timing[d] = "VALID"
  /\ SlotType[SlotOf[d]] = "DEALER_GEX"
  /\ work[d] = 0
  /\ Complete(d, "COMPLETE", counters)

\* _run_activity_vnext after the Activity pipeline: an incomplete collection ends
\* the slot, a complete one is observed with the counters still uncommitted.
ActivityReturns(d, status) ==
  /\ pc[d] = "handler"
  /\ timing[d] = "VALID"
  /\ SlotType[SlotOf[d]] = "ACTIVITY_VNEXT"
  /\ PipelineMayEnd(d, status)
  /\ IF status = "COMPLETE"
       THEN /\ dirty' = [dirty EXCEPT ![d] = usage[d]]
            /\ Goto(d, "observing")
            /\ UNCHANGED <<slot, attempt, timing, usage, work>>
       ELSE Complete(d, status, usage[d])

\* DailyObservationNotReady: the paid scan is held.
HoldNotReady(d) ==
  /\ pc[d] = "observing"
  /\ Complete(d, "HELD_NOT_READY", dirty[d])

\* Writes the counters assigned so far together with whatever row is committed.
FlushDirtyCounters(d) ==
  /\ slot' = [slot EXCEPT ![SlotOf[d]].attempts = dirty[d]]
  /\ UNCHANGED <<attempt, timing, usage, work, dirty>>

\* The scan commits its RUNNING row, and the slot's dirty counters with it.
ScanStarts(d) ==
  /\ pc[d] = "observing"
  /\ FlushDirtyCounters(d)
  /\ Goto(d, "scanning")

\* A ScanRun left RUNNING: ConcurrentScanError leaves through the finally block,
\* whose unlock commits the session.
ScanRefused(d) ==
  /\ pc[d] = "observing"
  /\ FlushDirtyCounters(d)
  /\ Goto(d, "failing")

\* run_daily_vnext_observation returns: the scan's counters are added.
ObservationReturns(d, status) ==
  /\ pc[d] = "scanning"
  /\ Complete(d, status, usage[d])

\* Any other exception of the handler, or a failed commit of its completion:
\* rollback drops what the session had assigned.
HandlerRaises(d) ==
  /\ pc[d] \in {"handler", "observing", "scanning"}
  /\ dirty' = [dirty EXCEPT ![d] = 0]
  /\ Goto(d, "failing")
  /\ UNCHANGED <<slot, attempt, timing, usage, work>>

\* The verdict's commit is acknowledged, the client closed: the request is answered.
Respond(d) ==
  /\ pc[d] = "settled"
  /\ Goto(d, "done")
  /\ UNCHANGED <<slot, attempt, timing, dirty, usage, work>>

\* An exception once the verdict is committed: the acknowledgement of the commit is
\* lost, or the Activity handler's client fails to close.  It reaches the except branch.
RaisesAfterVerdict(d) ==
  /\ pc[d] = "settled"
  /\ Goto(d, "overruling")
  /\ UNCHANGED <<slot, attempt, timing, dirty, usage, work>>

\* Variant: the except branch writes the failure without what the row has counted.
RecordFailureAnew(d) ==
  /\ pc[d] \in {"failing", "overruling"}
  /\ slot' = [slot EXCEPT ![SlotOf[d]] =
                [status |-> "FAILED", attempts |-> 0, error |-> TRUE]]
  /\ attempt' = [attempt EXCEPT ![d] = [disposition |-> "EXECUTED", result |-> "FAILED"]]
  /\ dirty' = [dirty EXCEPT ![d] = 0]
  /\ Goto(d, "done")
  /\ UNCHANGED <<timing, usage, work>>

\* The except branch of execute marks the slot FAILED, over a verdict too, with the
\* counters committed so far.
RecordFailure(d) ==
  /\ pc[d] \in {"failing", "overruling"}
  /\ slot' = [slot EXCEPT ![SlotOf[d]] =
                [status |-> "FAILED", attempts |-> @.attempts, error |-> TRUE]]
  /\ attempt' = [attempt EXCEPT ![d] = [disposition |-> "EXECUTED", result |-> "FAILED"]]
  /\ dirty' = [dirty EXCEPT ![d] = 0]
  /\ Goto(d, "done")
  /\ UNCHANGED <<timing, usage, work>>

\* Recording the failure fails too: the request answers 503 and the row stays CLAIMED,
\* or as it was settled.
FailureLost(d) ==
  /\ pc[d] \in {"failing", "overruling"}
  /\ dirty' = [dirty EXCEPT ![d] = 0]
  /\ Goto(d, "abandoned")
  /\ UNCHANGED <<slot, attempt, timing, usage, work>>

\* The instance dies, or the request is cut off at its deadline: the session's
\* transaction is rolled back.
Crash(d) ==
  /\ pc[d] \notin Stopped \union {"idle"}
  /\ dirty' = [dirty EXCEPT ![d] = 0]
  /\ Goto(d, "crashed")
  /\ UNCHANGED <<slot, attempt, timing, usage, work>>

-----------------------------------------------------------------------------

\* What the code of a delivery does once it has been received.
Step(d) ==
  \/ FlushClaim(d)
  \/ CommitClaim(d)
  \/ ReuseExisting(d)
  \/ SkipByGuard(d)
  \/ VendorRequest(d)
  \/ RequestBreaks(d)
  \/ \E status \in PipelineStatuses : CollectionReturns(d, status)
  \/ \E counters \in 0..MaxRequests : DealerRunReused(d, counters)
  \/ \E status \in PipelineStatuses : ActivityReturns(d, status)
  \/ HoldNotReady(d)
  \/ ScanStarts(d)
  \/ ScanRefused(d)
  \/ \E status \in ObservationStatuses : ObservationReturns(d, status)
  \/ HandlerRaises(d)
  \/ Respond(d)
  \/ RaisesAfterVerdict(d)
  \/ RecordFailure(d)

\* Every delivery has come to its end (not a deadlock).
Terminating ==
  /\ \A d \in Deliveries : pc[d] \in Stopped
  /\ UNCHANGED vars

Next ==
  \/ \E d \in Deliveries :
       \/ \E when \in Timings \ {"UNKNOWN"} : Receive(d, when)
       \/ Step(d)
       \/ FailureLost(d)
       \/ Crash(d)
  \/ Terminating

Spec == Init /\ [][Next]_vars

\* A received delivery keeps running: every await in it is bounded (client and
\* database timeouts).  Arrivals, crashes and lost failures are not owed.
Fairness == \A d \in Deliveries : WF_vars(Step(d))

FairSpec == Spec /\ Fairness

-----------------------------------------------------------------------------
(* What the scheduler guarantees *)

\* However many deliveries of a slot race, at most one owns it, and the slot row
\* exists exactly when it has an owner: no orphan row, no second owner, even when
\* a delivery dies between its INSERT and its commit.
OneOwnerPerSlot ==
  \A s \in Slots :
    /\ \A d, e \in Owners(s) : d = e
    /\ Claimed(s) <=> Owners(s) # {}

\* Only the delivery that owns its slot makes vendor requests: a redelivery, early,
\* late, during or after the owner's run, or after the owner's death, costs nothing.
OnlyOwnersSpend ==
  \A d \in Deliveries : work[d] > 0 => Owners(SlotOf[d]) = {d}

\* A delivery whose INSERT conflicted finds a visible owner row: the error
\* CANONICAL_SLOT_CONFLICT_WITHOUT_VISIBLE_OWNER never happens.
ConflictHasVisibleOwner ==
  \A d \in Deliveries : pc[d] = "conflict" => Claimed(SlotOf[d])

\* A slot settled without an error reports what its client counted, from one stage or
\* two, and that is every request its owner made, unless its status says that a subjob
\* failed: a request missing from a COMPLETE, observed or held slot cannot happen.  (The
\* Dealer/GEX slot may report a reused run's.)
CountersMatchUsage ==
  \A d \in Deliveries :
    LET s == SlotOf[d] IN
      d \in Owners(s) /\ Settled(s) /\ ~slot[s].error /\ SlotType[s] # "DEALER_GEX" =>
        /\ slot[s].attempts = usage[d]
        /\ usage[d] # work[d] =>
             slot[s].status \in IF SlotType[s] = "RADAR_OI" THEN {"PARTIAL", "FAILED"}
                                                          ELSE {"FAILED"}

\* A verdict changes at most once, and only at the hands of the delivery that gave it:
\* an exception after the commit turns it into FAILED, with the counters it had.  No
\* redelivery rewrites it, and a slot in error is final.
OnlyItsOwnerOverrules ==
  [][\A s \in Slots : Settled(s) /\ slot'[s] # slot[s] =>
       /\ ~slot[s].error
       /\ slot'[s] = [status |-> "FAILED", attempts |-> slot[s].attempts, error |-> TRUE]
       /\ \E d \in Owners(s) : pc[d] = "overruling"]_vars

\* A slot that a delivery owns gets its verdict unless that very delivery dies.
OwnedSlotSettles ==
  \A d \in Deliveries :
    attempt[d].disposition = "OWNER" ~>
      Settled(SlotOf[d]) \/ pc[d] \in {"crashed", "abandoned"}

\* A delivery waiting on another's INSERT is not held hostage by that delivery's
\* work or death: it gets an attempt of its own, or dies itself.
WaitingDeliveryIsAnswered ==
  \A d \in Deliveries :
    pc[d] = "flushing" ~> attempt[d].disposition # "NONE" \/ pc[d] = "crashed"

\* The scheduler implements the ledger: the owners are the OWNER and EXECUTED
\* attempts, the verdict is the terminal status.
Ledger == INSTANCE SlotLedger WITH
  owners <- [s \in Slots |-> Owners(s)],
  verdict <- [s \in Slots |-> IF Settled(s) THEN slot[s].status ELSE "open"],
  spend <- work

\* Every step of the deliveries is a step of the at-most-once ledger, or none.
ImplementsLedger == Ledger!LedgerSpec
===============================================================================
