----------------------------- MODULE CandidateScan -----------------------------
(***************************************************************************)
(* The vNext scan (backend/app/scanner): one pass over the universe, the   *)
(* structure of the tickers chosen for a deep scan, and the product        *)
(* candidates, committed with the scan's COMPLETE status.  Scans come from *)
(* the API, whose sessions share a pool of connections, and from           *)
(* short-lived processes; the Radar collector of the daily pipeline, which *)
(* holds another lock, writes evidence beside them.                        *)
(*                                                                         *)
(* All of it happens on one market day.  A client of a scan retries        *)
(* nothing, so a request is one attempt.  Of the two budgets, attempts and *)
(* consumed units, which are asked together, one is modelled.  A ticker    *)
(* has at most one expiry, one contract and one Radar event.               *)
(*                                                                         *)
(* The clock counts the cutoffs that scans have read: what happens at time *)
(* n happens after n of them, and by the next one.                         *)
(***************************************************************************)
EXTENDS Naturals, FiniteSets, Sequences

CONSTANTS
  Scans,         \* invocations of the scanner
  LongLived,     \* those of a process that survives a failed invocation
  Conns, PoolOf, NoConn,
  Universe,      \* UNIVERSE, in the order of a scan
  MaxDeep,       \* max_deep_tickers
  MaxAttempts,   \* max_network_attempts_per_scan
  Fresh,         \* tickers whose archive is within the age configured for persistence
                 \* evidence: {} when none is configured
  RadarTickers   \* bound: tickers with a Radar event

ASSUME ScanAssumption ==
  /\ IsFiniteSet(Scans) /\ Len(Universe) \in Nat
  /\ RadarTickers \subseteq {Universe[i] : i \in 1..Len(Universe)}
  /\ MaxDeep \in Nat /\ MaxAttempts \in Nat
  /\ NoConn \notin Conns
  /\ PoolOf \in [Scans -> (SUBSET Conns) \ {{}}]

VARIABLES
  now,       \* the time
  lock, at,
  pc,        \* where each scan is
  cursor,    \* how many fetches a scan has behind it
  flags,     \* partial and budget_limited, in memory
  spent,     \* attempts the budget tracker has observed
  raw,       \* the payloads recent enough to be reused: ticker and endpoint
  rows,      \* rows[s][t]: the ticker's result in the scan
  deep,      \* the selected tickers whose structure is not yet scanned
  contracts, \* contract observations with an eligible persistence score
  radar,     \* radar[t]: the material Radar event of a ticker
  cutoff,    \* completed_at, before it is committed
  run,       \* scan_runs: status
  marker,    \* candidate_materialized_at of a scan
  triggers   \* product_candidate_triggers of a scan's candidates

INSTANCE AdvisoryLock WITH Sessions <- Scans

vars == <<now, lock, at, pc, cursor, flags, spent, raw, rows, deep, contracts,
          radar, cutoff, run, marker, triggers>>
memory == <<cursor, flags, spent, rows, deep, cutoff>>
evidence == <<raw, contracts, radar>>
records == <<run, marker, triggers>>

Tickers == {Universe[i] : i \in 1..Len(Universe)}
Times == 0..Cardinality(Scans)
Never == Cardinality(Scans) + 1

\* Each ticker has its expiry breakdown fetched, then its options volume.
Endpoints == {"expiry", "volume"}
LastFetch == 2 * Len(Universe)
TickerAt(n) == Universe[n \div 2 + 1]
EndpointAt(n) == IF n % 2 = 0 THEN "expiry" ELSE "volume"

\* What an expiry breakdown holds: nothing that can be read, expiries without unusual
\* activity, or an expiry with a score that is eligible.
Contents == {"UNPARSEABLE", "QUIET", "ACTIVE"}
Observed == {"QUIET", "ACTIVE"}
NoRows == [t \in Tickers |-> "NONE"]

RadarPhases == {"none", "received", "captured", "visible"}
NoRadar == [phase |-> "none", received |-> Never, captured |-> Never]

Families == {"RADAR_EVENT", "EXPIRY_ACTIVITY", "CONTRACT_PERSISTENCE"}
TriggersOf(t) == [ticker : {t}, family : Families, known : Times, qualifies : BOOLEAN]

NoFlags == [partial |-> FALSE, limited |-> FALSE]

Phases == {"idle", "locked", "checked", "open", "asking", "parsing", "deep", "finishing",
           "unlocking", "ended", "refused"}
Opening == {"locked", "checked"}
Working == {"open", "asking", "parsing", "deep", "finishing"}
Ended == {"ended", "refused"}

TypeOK ==
  /\ now \in Times
  /\ LockTypeOK
  /\ pc \in [Scans -> Phases]
  /\ cursor \in [Scans -> 0..LastFetch]
  /\ flags \in [Scans -> [partial : BOOLEAN, limited : BOOLEAN]]
  /\ spent \in [Scans -> 0..MaxAttempts]
  /\ raw \subseteq Tickers \X Endpoints
  /\ rows \in [Scans -> [Tickers -> {"NONE", "UNAVAILABLE"} \union Contents]]
  /\ deep \in [Scans -> SUBSET Tickers]
  /\ contracts \subseteq [scan : Scans, ticker : Tickers, at : Times]
  /\ radar \in [Tickers -> [phase : RadarPhases, received : Times \union {Never},
                            captured : Times \union {Never}]]
  /\ cutoff \in [Scans -> Times \union {Never}]
  /\ run \in [Scans -> {"NONE", "RUNNING", "COMPLETE", "PARTIAL", "PARTIAL_BUDGET_LIMIT",
                        "FAILED"}]
  /\ marker \in [Scans -> Times \union {Never}]
  /\ triggers \in [Scans -> SUBSET UNION {TriggersOf(t) : t \in Tickers}]

Init ==
  /\ now = 0
  /\ LockInit
  /\ pc = [s \in Scans |-> "idle"]
  /\ cursor = [s \in Scans |-> 0]
  /\ flags = [s \in Scans |-> NoFlags]
  /\ spent = [s \in Scans |-> 0]
  /\ raw = {}
  /\ rows = [s \in Scans |-> NoRows]
  /\ deep = [s \in Scans |-> {}]
  /\ contracts = {}
  /\ radar = [t \in Tickers |-> NoRadar]
  /\ cutoff = [s \in Scans |-> Never]
  /\ run = [s \in Scans |-> "NONE"]
  /\ marker = [s \in Scans |-> Never]
  /\ triggers = [s \in Scans |-> {}]

Goto(s, phase) == pc' = [pc EXCEPT ![s] = phase]
Raise(s, flag) == flags' = [flags EXCEPT ![s][flag] = TRUE]

SameProcess(s) == {r \in Scans : PoolOf[r] = PoolOf[s]}

-----------------------------------------------------------------------------
(* Opening a scan *)

\* pg_try_advisory_lock on the connection of the request, or ConcurrentScanError.
TryLock(s, c) ==
  /\ pc[s] = "idle"
  /\ IF MayLock(c)
       THEN CheckOut(s, c) /\ Lock(c) /\ Goto(s, "locked")
       ELSE Goto(s, "refused") /\ UNCHANGED <<lock, at>>
  /\ UNCHANGED <<now, memory, evidence, records>>

\* The transaction that took the lock still has its connection: on one that was closed,
\* with what it held, every statement fails.
Connected(s) == lock.conn = at[s]

\* Variant: the lock alone keeps scans apart.
CheckRunningNever(s) ==
  /\ pc[s] = "locked" /\ Connected(s)
  /\ Goto(s, "checked")
  /\ UNCHANGED <<now, lock, at, memory, evidence, records>>

\* Another RUNNING row refuses the scan, through the unlock of the finally block in the
\* same transaction.
CheckRunning(s) ==
  /\ pc[s] = "locked" /\ Connected(s)
  /\ IF \E r \in Scans : run[r] = "RUNNING"
       THEN Unlock(at[s]) /\ GiveBack(s) /\ Goto(s, "refused")
       ELSE Goto(s, "checked") /\ UNCHANGED <<lock, at>>
  /\ UNCHANGED <<now, memory, evidence, records>>

\* The commit of the own row gives the connection back, and the lock with it: another
\* request of the process may get both.
OpenRun(s) ==
  /\ pc[s] = "checked" /\ Connected(s)
  /\ run' = [run EXCEPT ![s] = "RUNNING"]
  /\ GiveBack(s) /\ Goto(s, "open")
  /\ UNCHANGED <<now, lock, memory, evidence, marker, triggers>>

-----------------------------------------------------------------------------
(* _activity_surface: the universe, ticker after ticker *)

Fetching(s) == pc[s] = "open" /\ cursor[s] < LastFetch
Request(s) == <<TickerAt(cursor[s]), EndpointAt(cursor[s])>>
Cached(s) == Request(s) \in raw

\* Variant: the last attempt leaves room for one more.
HasRoomForOne(s) == spent[s] <= MaxAttempts

\* ensure_room
HasRoom(s) == spent[s] < MaxAttempts

\* After the volume, both payloads of the ticker are at hand.
AfterFetch(s) ==
  IF EndpointAt(cursor[s]) = "expiry"
    THEN cursor' = [cursor EXCEPT ![s] = @ + 1] /\ Goto(s, "open")
    ELSE Goto(s, "parsing") /\ UNCHANGED cursor

\* A payload of the same request, of any scan, within the cooldown: no request.
FetchCached(s) ==
  /\ Fetching(s) /\ Cached(s)
  /\ AfterFetch(s)
  /\ UNCHANGED <<now, lock, at, flags, spent, rows, deep, cutoff, evidence, records>>

\* cache_cooldown_minutes have passed.  (The payloads of a scan, which takes a fraction of
\* them, expire together.)
CoolDown ==
  /\ raw # {} /\ raw' = {}
  /\ UNCHANGED <<now, lock, at, pc, memory, contracts, radar, records>>

\* The look into the cache has opened a transaction, which the request finds open: the
\* connection is held until the usage event is committed.
Ask(s, c) ==
  /\ Fetching(s) /\ ~Cached(s) /\ HasRoom(s)
  /\ CheckOut(s, c)
  /\ Goto(s, "asking")
  /\ UNCHANGED <<now, lock, memory, evidence, records>>

\* BudgetExceeded: the rest of the universe is left out.
StopAtBudget(s) ==
  /\ Fetching(s) /\ ~Cached(s) /\ ~HasRoom(s)
  /\ Raise(s, "limited")
  /\ cursor' = [cursor EXCEPT ![s] = LastFetch]
  /\ UNCHANGED <<now, lock, at, pc, spent, rows, deep, cutoff, evidence, records>>

CountAttempt(s) == spent' = [spent EXCEPT ![s] = @ + 1]

\* The usage event, then the payload: committed before anything reads it.
Answered(s) ==
  /\ pc[s] = "asking"
  /\ CountAttempt(s)
  /\ raw' = raw \union {Request(s)}
  /\ AfterFetch(s)
  /\ GiveBack(s)
  /\ UNCHANGED <<now, lock, flags, rows, deep, cutoff, contracts, radar, records>>

\* The ticker's rows are written, and the next one follows.
Row(s, what) ==
  /\ rows' = [rows EXCEPT ![s][TickerAt(cursor[s])] = what]
  /\ IF what \in Observed THEN UNCHANGED flags ELSE Raise(s, "partial")
  /\ cursor' = [cursor EXCEPT ![s] = 2 * (@ \div 2 + 1)]
  /\ Goto(s, "open")

\* NightwatchError
AnsweredWithError(s) ==
  /\ pc[s] = "asking"
  /\ CountAttempt(s)
  /\ Row(s, "UNAVAILABLE")
  /\ GiveBack(s)
  /\ UNCHANGED <<now, lock, deep, cutoff, evidence, records>>

\* The expiry breakdown becomes the ticker's rows, in one commit.
ParseTicker(s, what) ==
  /\ pc[s] = "parsing"
  /\ Row(s, what)
  /\ UNCHANGED <<now, lock, at, spent, deep, cutoff, evidence, records>>

-----------------------------------------------------------------------------
(* _select_dual and _structure_scan *)

VisibleRadar == {t \in Tickers : radar[t].phase = "visible"}

\* select_current_persistence_observations: within the configured age, if there is one.
CurrentContracts == {k \in contracts : k.ticker \in Fresh}

\* The route by which a ticker with expiries is worth a deep scan, in their priority.
Route(s, t, inScope) ==
  IF t \in inScope THEN 0
  ELSE IF rows[s][t] = "ACTIVE" THEN 1
  ELSE IF \E k \in CurrentContracts : k.ticker = t THEN 2
  ELSE 3

\* The expiries of a ticker are one row here, and it expires within the 90 days to which
\* the selection restricts them.
Eligible(s, inScope) == {t \in Tickers : rows[s][t] \in Observed /\ Route(s, t, inScope) < 3}

\* The best of the eligible tickers, as many as the limit allows.
Selections(s, inScope) ==
  {chosen \in SUBSET Eligible(s, inScope) :
     /\ \/ chosen = Eligible(s, inScope)
        \/ Cardinality(chosen) = MaxDeep
     /\ Cardinality(chosen) <= MaxDeep
     /\ \A t \in chosen, u \in Eligible(s, inScope) \ chosen :
          Route(s, t, inScope) <= Route(s, u, inScope)}

Select(s) ==
  /\ pc[s] = "open" /\ cursor[s] = LastFetch
  /\ \E inScope \in SUBSET VisibleRadar : \E chosen \in Selections(s, inScope) :
       deep' = [deep EXCEPT ![s] = chosen]
  /\ Goto(s, "deep")
  /\ UNCHANGED <<now, lock, at, cursor, flags, spent, rows, cutoff, evidence,
                 records>>

\* The structure of a selected ticker from its archive.  A missing archive leaves none,
\* and is no reason for PARTIAL; a contract may earn a persistence score.
ScanStructure(s, t) ==
  /\ pc[s] = "deep" /\ t \in deep[s]
  /\ \/ UNCHANGED contracts
     \/ contracts' = contracts \union {[scan |-> s, ticker |-> t, at |-> now]}
  /\ deep' = [deep EXCEPT ![s] = @ \ {t}]
  /\ UNCHANGED <<now, lock, at, pc, cursor, flags, spent, rows, cutoff, raw,
                 radar, records>>

-----------------------------------------------------------------------------
(* The end of a scan *)

\* A terminal status; the counters beside it are left out.
End(s, status) == run' = [run EXCEPT ![s] = status]

\* FAILED, after a rollback.
Fail(s) == End(s, "FAILED")

\* completion_status
CompletionStatus(s) ==
  IF flags[s].limited THEN "PARTIAL_BUDGET_LIMIT"
  ELSE IF flags[s].partial THEN "PARTIAL" ELSE "COMPLETE"

\* A scan that is not COMPLETE commits its status and is over.
FinishShort(s) ==
  /\ pc[s] = "deep" /\ deep[s] = {} /\ CompletionStatus(s) # "COMPLETE"
  /\ End(s, CompletionStatus(s))
  /\ Goto(s, "unlocking")
  /\ UNCHANGED <<now, lock, at, memory, evidence, marker, triggers>>

\* A COMPLETE one reads its completed_at; nothing is committed yet.
Finish(s) ==
  /\ pc[s] = "deep" /\ deep[s] = {} /\ CompletionStatus(s) = "COMPLETE"
  /\ cutoff' = [cutoff EXCEPT ![s] = now]
  /\ now' = now + 1
  /\ Goto(s, "finishing")
  /\ UNCHANGED <<lock, at, cursor, flags, spent, rows, deep, evidence, records>>

Trigger(t, family, known, qualifies) ==
  [ticker |-> t, family |-> family, known |-> known, qualifies |-> qualifies]

\* _latest_radar_rows: events whose payload was received by the cutoff.
RadarPool(asOf) ==
  {Trigger(t, "RADAR_EVENT", radar[t].captured, TRUE) :
     t \in {u \in VisibleRadar : radar[u].received <= asOf}}

\* The scan has observed its own rows before the cutoff, which stands for that time.
ActivityPool(s, asOf) ==
  {Trigger(t, "EXPIRY_ACTIVITY", asOf, TRUE) : t \in {u \in Tickers : rows[s][u] = "ACTIVE"}}

\* persistence_evidence_for_projection: the newest current observation of a contract, of
\* any scan, or else the scan's own, which then does not qualify.
PersistencePool(s, asOf) ==
  LET current == {k \in CurrentContracts : k.at <= asOf}
      newest == {k \in current : \A j \in current : j.ticker = k.ticker => j.at <= k.at}
      own == {k \in contracts : k.scan = s /\ k.at <= asOf
                                /\ \A j \in newest : j.ticker # k.ticker}
  IN {Trigger(k.ticker, "CONTRACT_PERSISTENCE", k.at, TRUE) : k \in newest}
     \union {Trigger(k.ticker, "CONTRACT_PERSISTENCE", k.at, FALSE) : k \in own}

\* Variant: the projection of the tickers scanned in depth.
ProjectionOfDeep(s, asOf) ==
  LET pool == RadarPool(asOf) \union ActivityPool(s, asOf) \union PersistencePool(s, asOf)
  IN {a \in pool : \E b \in pool : b.ticker = a.ticker /\ b.qualifies
                                   /\ \E k \in contracts : k.scan = s /\ k.ticker = a.ticker}

\* load_stage4_candidate_projection: the anomalies of the tickers with one that qualifies.
Projection(s, asOf) ==
  LET pool == RadarPool(asOf) \union ActivityPool(s, asOf) \union PersistencePool(s, asOf)
  IN {a \in pool : \E b \in pool : b.ticker = a.ticker /\ b.qualifies}

\* Variant: the times of the triggers are not compared.
AdmissibleAlways(chosen, asOf) == TRUE

\* _materialize_triggers refuses evidence that was first known after the cutoff.
Admissible(chosen, asOf) == \A a \in chosen : a.known <= asOf

\* Candidates are projected from what is visible by now, and are committed with the
\* status and the marker, or the whole scan fails.
Materialize(s) ==
  /\ pc[s] = "finishing"
  /\ LET chosen == Projection(s, cutoff[s]) IN
     IF Admissible(chosen, cutoff[s])
       THEN /\ End(s, "COMPLETE")
            /\ marker' = [marker EXCEPT ![s] = cutoff[s]]
            /\ triggers' = [triggers EXCEPT ![s] = chosen]
       ELSE Fail(s) /\ UNCHANGED <<marker, triggers>>
  /\ Goto(s, "unlocking")
  /\ UNCHANGED <<now, lock, at, memory, evidence>>

\* An exception of the preflight, the code or a statement, with the session usable after
\* the rollback.
ScanRaises(s) ==
  /\ pc[s] \in Working \ {"asking"}
  /\ Fail(s)
  /\ Goto(s, "unlocking")
  /\ UNCHANGED <<now, lock, at, memory, evidence, marker, triggers>>

\* A request ends in an error that the client does not catch: no usage event.
RequestBreaks(s) ==
  /\ pc[s] = "asking"
  /\ Fail(s)
  /\ GiveBack(s) /\ Goto(s, "unlocking")
  /\ UNCHANGED <<now, lock, cursor, flags, spent, rows, deep, cutoff, evidence,
                 marker, triggers>>

\* The memory of a scan goes with it.  Its rows stay in the database, where those of a
\* COMPLETE scan are read again.
Discard(s) ==
  /\ cursor' = [cursor EXCEPT ![s] = 0]
  /\ flags' = [flags EXCEPT ![s] = NoFlags]
  /\ spent' = [spent EXCEPT ![s] = 0]
  /\ deep' = [deep EXCEPT ![s] = {}]
  /\ cutoff' = [cutoff EXCEPT ![s] = Never]
  /\ rows' = IF run[s] = "COMPLETE" THEN rows ELSE [rows EXCEPT ![s] = NoRows]

\* The finally block, in a transaction of its own, on any idle connection of the pool.
ReleaseLock(s, c) ==
  /\ pc[s] = "unlocking"
  /\ Unlock(c)
  /\ Goto(s, "ended")
  /\ Discard(s)
  /\ UNCHANGED <<now, at, evidence, run, marker, triggers>>

\* The database fails the handler as well: the row stays RUNNING.  Connections are lost,
\* with what they held: that of the transaction, or all of the process, as they are when
\* the process ends with the scan.
DatabaseFails(s) ==
  /\ pc[s] \in Opening \union Working \union {"unlocking"}
  /\ GiveBack(s)
  /\ \/ s \in LongLived /\ CloseConns({at[s]})
     \/ CloseConns(PoolOf[s])
  /\ Goto(s, "ended")
  /\ Discard(s)
  /\ UNCHANGED <<now, evidence, run, marker, triggers>>

\* A process that survives its scans is stopped when none runs.
Shutdown(s) ==
  /\ lock.conn \in PoolOf[s]
  /\ \A r \in SameProcess(s) : pc[r] \in Ended
  /\ CloseConns(PoolOf[s])
  /\ UNCHANGED <<now, at, pc, memory, evidence, records>>

\* An idle connection is dropped with the lock that a running scan gave back with it.
LoseIdleConn(c) ==
  /\ DropIdle(c)
  /\ UNCHANGED <<now, at, pc, memory, evidence, records>>

-----------------------------------------------------------------------------
(* The Radar collector, one ticker at a time *)

Collecting == \E t \in Tickers : radar[t].phase \in {"received", "captured"}

\* DailyDataPipeline.fetch commits the payload before it is parsed.
RadarReceived(t) ==
  /\ ~Collecting /\ radar[t].phase = "none"
  /\ radar' = [radar EXCEPT ![t] = [NoRadar EXCEPT !.phase = "received", !.received = now]]
  /\ UNCHANGED <<now, lock, at, pc, memory, raw, contracts, records>>

\* _observation: captured_at is that of the row, evaluated as a material event.
RadarCaptured(t) ==
  /\ radar[t].phase = "received"
  /\ radar' = [radar EXCEPT ![t].phase = "captured", ![t].captured = now]
  /\ UNCHANGED <<now, lock, at, pc, memory, raw, contracts, records>>

\* The commit of the ticker's rows and coverage.
RadarCommitted(t) ==
  /\ radar[t].phase = "captured"
  /\ radar' = [radar EXCEPT ![t].phase = "visible"]
  /\ UNCHANGED <<now, lock, at, pc, memory, raw, contracts, records>>

\* A payload that is not parsed, or an error: nothing of the ticker is left but the
\* payload, and a later run asks again.
RadarRollsBack(t) ==
  /\ radar[t].phase \in {"received", "captured"}
  /\ radar' = [radar EXCEPT ![t] = NoRadar]
  /\ UNCHANGED <<now, lock, at, pc, memory, raw, contracts, records>>

-----------------------------------------------------------------------------

Step(s) ==
  \/ CheckRunning(s) \/ OpenRun(s)
  \/ FetchCached(s) \/ StopAtBudget(s)
  \/ \E c \in IdleConns(s) : Ask(s, c) \/ ReleaseLock(s, c)
  \/ Answered(s) \/ AnsweredWithError(s) \/ RequestBreaks(s)
  \/ \E what \in Contents : ParseTicker(s, what)
  \/ Select(s)
  \/ \E t \in Tickers : ScanStructure(s, t)
  \/ FinishShort(s) \/ Finish(s) \/ Materialize(s) \/ ScanRaises(s)

Collect(t) == RadarReceived(t) \/ RadarCaptured(t) \/ RadarCommitted(t) \/ RadarRollsBack(t)

Terminating ==
  /\ \A s \in Scans : pc[s] \in Ended
  /\ UNCHANGED vars

Next ==
  \/ \E s \in Scans :
       \/ \E c \in IdleConns(s) : TryLock(s, c)
       \/ Step(s) \/ DatabaseFails(s) \/ Shutdown(s)
  \/ \E t \in RadarTickers : Collect(t)
  \/ \E c \in Conns : LoseIdleConn(c)
  \/ CoolDown
  \/ Terminating

Spec == Init /\ [][Next]_vars
-----------------------------------------------------------------------------
(* What a scan guarantees *)

\* Two scans never work at once, also when a request of the same process re-enters the
\* lock on the connection that a running scan gave back, or that connection is dropped.
OneScanAtATime ==
  \A s, r \in Scans : pc[s] \in Working /\ pc[r] \in Working => s = r

\* What a scan knew when it materialized its candidates, it knew by the cutoff it
\* records: evidence that the collector captures meanwhile is never among the triggers.
NoFutureEvidence ==
  \A s \in Scans : \A a \in triggers[s] : a.known <= marker[s]

Completes(s) == run[s] # "COMPLETE" /\ run'[s] = "COMPLETE"

\* A COMPLETE scan has rows for all of the universe, so that a budget, an error or an
\* unreadable payload never passes for a quiet ticker; and a ticker with unusual activity,
\* or with a Radar event that the collector committed and captured by the cutoff, becomes
\* a candidate, whether or not the limit of deep scans or a missing archive left it out of
\* the structure pass.
CompleteScanLosesNothing ==
  [][\A s \in Scans, t \in Tickers : Completes(s) =>
       /\ rows[s][t] \in Observed
       /\ rows[s][t] = "ACTIVE" \/ (t \in VisibleRadar /\ radar[t].captured <= cutoff[s]) =>
            \E a \in triggers'[s] : a.ticker = t /\ a.qualifies]_vars

\* The stage 5 package says that a successful scan without candidates has no candidate
\* rows, one with candidates has them, and that evidence of T+1 changes neither.
\* latest_mag7_scan projects again, from what is visible when it is asked.
RunState(s) ==
  IF run[s] = "RUNNING" THEN "RUNNING"
  ELSE IF run[s] # "COMPLETE" THEN "FAILED"
  ELSE IF Projection(s, marker[s]) # {} THEN "SUCCESS_WITH_CANDIDATES"
  ELSE "SUCCESS_NO_CANDIDATE"

\* Refuted: a Radar event received before the cutoff and committed after the scan turns
\* its SUCCESS_NO_CANDIDATE into SUCCESS_WITH_CANDIDATES, without a candidate row.
RunStateIsTruthful ==
  \A s \in Scans : /\ RunState(s) = "SUCCESS_WITH_CANDIDATES" => triggers[s] # {}
                   /\ RunState(s) = "SUCCESS_NO_CANDIDATE" => triggers[s] = {}
===============================================================================
