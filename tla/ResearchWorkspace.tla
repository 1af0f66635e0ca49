--------------------------- MODULE ResearchWorkspace ---------------------------
(***************************************************************************)
(* The confirmation chain of a selected contract (backend/app/confirmation *)
(* service.py, state_v2.py, workspace_v3.py), run from the command line.   *)
(* A refresh binds contracts to a ticker context: a fresh one of the       *)
(* database, the latest one reprocessed, or one fetched from the vendor,   *)
(* all in one transaction.  The v2 build derives a state from the latest   *)
(* evaluation of a contract, the v3 build a workspace from that state; the *)
(* confirmation route serves the three.                                    *)
(*                                                                         *)
(* Time is counted in ticks.  Evidence is reduced to its times.  The rows  *)
(* of the v2 and v3 specifications are those of one version of each, and   *)
(* the archived surface a workspace shows is DealerGexArchive's AsOf at    *)
(* the evaluation's time.                                                  *)
(***************************************************************************)
EXTENDS Integers, FiniteSets, Sequences, FiniteSetsExt, Functions

CONSTANTS
  Refreshes,     \* invocations of the refresh command
  Contracts,     \* those with an eligible Radar event and an archived chain
  TickerOf,      \* TickerOf[c]: the ticker of contract c
  Commands,      \* Commands[r]: what an operator may ask of refresh r, by contracts (those
                 \* of a ticker together), force and reuse_latest_raw
  Earlier,       \* Earlier[r]: contracts of one ticker, refreshed by r before
  Built,         \* the contracts of the v2 and v3 build commands
  Endpoints,     \* how many endpoints a context is made of; the first is daily OHLC
  Window,        \* cache_freshness_minutes, in ticks
  MaxTime,       \* bound: the last tick
  MaxReleases,   \* bound: redeployments with a new specification
  Nothing        \* no refresh, context or time

\* The contracts of a ticker are walked together.
Grouped(s) ==
  \A i, j \in 1..Len(s) : TickerOf[s[i]] = TickerOf[s[j]] =>
    \A m \in i..j : TickerOf[s[m]] = TickerOf[s[i]]

ASSUME WorkspaceAssumption ==
  /\ TickerOf \in [Contracts -> {TickerOf[c] : c \in Contracts}]
  /\ \A r \in Refreshes : \A command \in Commands[r] :
       /\ command \in [contracts : Seq(Contracts) \ {<<>>}, force : BOOLEAN, reuse : BOOLEAN]
       /\ Grouped(command.contracts)
  /\ Built \subseteq Contracts
  /\ Earlier \in [DOMAIN Earlier -> (SUBSET Contracts) \ {{}}] /\ DOMAIN Earlier \subseteq Refreshes
  /\ \A r \in DOMAIN Earlier : \A c, d \in Earlier[r] : TickerOf[c] = TickerOf[d]
  /\ Endpoints \in Nat \ {0} /\ Window \in Nat /\ MaxTime \in Nat /\ MaxReleases \in Nat

VARIABLES
  now,         \* the time
  release,     \* the deployed version of the context's specification
  pc,          \* where each refresh is
  job,         \* what a refresh holds in memory
  contexts,    \* phase2b_ticker_context_snapshots
  evaluations, \* phase2b_candidate_evaluations
  states,      \* phase2b_candidate_states
  picked,      \* picked[c]: the evaluation a v3 build of c has selected
  workspaces   \* phase2b_v3_research_workspaces

vars == <<now, release, pc, job, contexts, evaluations, states, picked, workspaces>>

Times == 0..MaxTime
Tickers == {TickerOf[c] : c \in Contracts}
Versions == 1..MaxReleases + 1

\* A context is identified by the refresh that wrote it and its ticker.
Keys == Refreshes \X Tickers
NoKey == <<Nothing, Nothing>>

Idle == [force |-> FALSE, reuse |-> FALSE, version |-> 1, todo |-> <<>>, ticker |-> Nothing,
         key |-> NoKey, reused |-> Nothing, anchors |-> <<>>, ohlc |-> FALSE, asked |-> 0]

Phases == {"idle", "choosing", "fetching", "evaluating", "inserting", "done", "failed"}
Running == Phases \ {"idle", "done", "failed"}

TypeOK ==
  /\ now \in Times
  /\ release \in Versions
  /\ pc \in [Refreshes -> Phases]
  /\ job \in [Refreshes ->
       [force : BOOLEAN, reuse : BOOLEAN, version : Versions, todo : Seq(Contracts),
        ticker : Tickers \union {Nothing}, key : Keys \union {NoKey},
        reused : Times \union {Nothing}, anchors : Seq(Times), ohlc : BOOLEAN, asked : Times]]
  /\ \A k \in contexts :
       k \in [key : Keys, version : Versions, created : Times, anchors : Seq(Times),
              anchor : Times, ohlc : BOOLEAN] /\ Len(k.anchors) = Endpoints
  /\ evaluations \subseteq
       [key : Keys, contract : Contracts, at : Times, reused : Times \union {Nothing},
        by : Refreshes]
  /\ states \subseteq [evaluation : Keys, contract : Built]
  /\ picked \in [Built -> Keys \union {NoKey}]
  /\ workspaces \subseteq [evaluation : Keys, contract : Built, state : states]

\* The earlier refreshes have fetched one context each, with its OHLC payload.
Init ==
  /\ now = 0
  /\ release = 1
  /\ LET before == DOMAIN Earlier
         KeyOf(r) == <<r, TickerOf[CHOOSE c \in Earlier[r] : TRUE]>>
         Fetched(r) == [key |-> KeyOf(r), version |-> 1, created |-> 0, anchor |-> 0,
                        anchors |-> [i \in 1..Endpoints |-> 0], ohlc |-> TRUE]
         Evaluated(r, c) == [key |-> KeyOf(r), contract |-> c, at |-> 0,
                             reused |-> Nothing, by |-> r]
     IN /\ pc = [r \in Refreshes |-> IF r \in before THEN "done" ELSE "idle"]
        /\ contexts = {Fetched(r) : r \in before}
        /\ evaluations = UNION {{Evaluated(r, c) : c \in Earlier[r]} : r \in before}
  /\ job = [r \in Refreshes |-> Idle]
  /\ states = {} /\ workspaces = {}
  /\ picked = [c \in Built |-> NoKey]

Goto(r, phase) == pc' = [pc EXCEPT ![r] = phase]

chain == <<states, picked, workspaces>>

-----------------------------------------------------------------------------
(* What a transaction sees: the committed rows, and its own *)

Committed(r) == pc[r] = "done"
Visible(r) == {k \in contexts : k.key[1] = r \/ Committed(k.key[1])}
Rows(key, c) == {e \in evaluations : e.key = key /\ e.contract = c}

Contract(r) == Head(job[r].todo)

\* refresh_contracts: contracts in the order given; the process keeps its release.
Begin(r) ==
  /\ pc[r] = "idle"
  /\ \E command \in Commands[r] :
       job' = [job EXCEPT ![r] =
         [Idle EXCEPT !.force = command.force, !.reuse = command.reuse,
                      !.todo = command.contracts, !.version = release]]
  /\ Goto(r, "choosing")
  /\ UNCHANGED <<now, release, contexts, evaluations, chain>>

-----------------------------------------------------------------------------
(* The ticker context *)

\* _fresh_context: of this specification, with an anchor within the window.
Fresh(r, t) ==
  {k \in Visible(r) : k.key[2] = t /\ k.version = job[r].version /\ k.anchor >= now - Window}

\* _latest_context: by creation, of any specification.
Latest(r, t) ==
  LET known == {k \in Visible(r) : k.key[2] = t}
  IN {k \in known : \A other \in known : other.created <= k.created}

Bind(r, t, key, reused) ==
  job' = [job EXCEPT ![r] = [@ EXCEPT !.ticker = t, !.key = key, !.reused = reused,
                                      !.anchors = <<>>, !.ohlc = FALSE, !.asked = 0]]

\* The freshest context is reused, unless the operator forces a new one.
ReuseContext(r, t) ==
  /\ ~job[r].force
  /\ \E k \in Fresh(r, t) :
       /\ \A other \in Fresh(r, t) : other.anchor <= k.anchor
       /\ Bind(r, t, k.key, now)
  /\ Goto(r, "evaluating")
  /\ UNCHANGED contexts

Reprocessable(r, t) == IF job[r].reuse THEN {k \in Latest(r, t) : k.ohlc} ELSE {}

\* Variant: the copy is as fresh as its creation.
ReprocessContextAnew(r, t) ==
  /\ job[r].force \/ Fresh(r, t) = {}
  /\ \E k \in Reprocessable(r, t) :
       contexts' = contexts \union
         {[k EXCEPT !.key = <<r, t>>, !.version = job[r].version, !.created = now,
                    !.anchor = now]}
  /\ Bind(r, t, <<r, t>>, Nothing)
  /\ Goto(r, "evaluating")

\* _reprocess_ticker_context: a copy from the preserved OHLC payload, normalised again,
\* that keeps the times of its sources.
ReprocessContext(r, t) ==
  /\ job[r].force \/ Fresh(r, t) = {}
  /\ \E k \in Reprocessable(r, t) :
       contexts' = contexts \union
         {[k EXCEPT !.key = <<r, t>>, !.version = job[r].version, !.created = now]}
  /\ Bind(r, t, <<r, t>>, Nothing)
  /\ Goto(r, "evaluating")

\* _fetch_ticker_context begins: endpoint after endpoint, awaiting each.
FetchContext(r, t) ==
  /\ job[r].force \/ Fresh(r, t) = {}
  /\ Reprocessable(r, t) = {} \/ \E k \in Latest(r, t) : ~k.ohlc
  /\ job' = [job EXCEPT ![r] = [@ EXCEPT !.ticker = t, !.asked = now]]
  /\ Goto(r, "fetching")
  /\ UNCHANGED contexts

ChooseContext(r) ==
  /\ pc[r] = "choosing"
  /\ LET t == TickerOf[Contract(r)]
     IN ReuseContext(r, t) \/ ReprocessContext(r, t) \/ FetchContext(r, t)
  /\ UNCHANGED <<now, release, evaluations, chain>>

\* An endpoint that answers is as old as the vendor's time, or as its receipt
\* (source_time_entry); one that fails as its request (unavailable_source_time_entry).
\* The next one is asked at once.
EndpointAnswers(r) ==
  /\ pc[r] = "fetching" /\ Len(job[r].anchors) < Endpoints
  /\ \E answered \in BOOLEAN : \E anchor \in IF answered THEN 0..now ELSE {job[r].asked} :
       job' = [job EXCEPT ![r].anchors = Append(@, anchor), ![r].asked = now,
                          ![r].ohlc = IF job[r].anchors = <<>> THEN answered ELSE @]
  /\ UNCHANGED <<now, release, pc, contexts, evaluations, chain>>

\* aggregate_freshness_anchor_at: a context is as old as its oldest endpoint.
FreshnessAnchor(anchors) == Min(Range(anchors))

\* Variant: the context is made of the endpoints that have answered so far.
ContextFetchedEarly(r) ==
  /\ pc[r] = "fetching" /\ job[r].anchors # <<>>
  /\ LET t == job[r].ticker
     IN /\ contexts' = contexts \union
             {[key |-> <<r, t>>, version |-> job[r].version, created |-> now,
               anchors |-> job[r].anchors, anchor |-> FreshnessAnchor(job[r].anchors),
               ohlc |-> job[r].ohlc]}
        /\ Bind(r, t, <<r, t>>, Nothing)
  /\ Goto(r, "evaluating")
  /\ UNCHANGED <<now, release, evaluations, chain>>

\* The row of the fetched context, not yet committed.
ContextFetched(r) ==
  /\ pc[r] = "fetching" /\ Len(job[r].anchors) = Endpoints
  /\ LET t == job[r].ticker
     IN /\ contexts' = contexts \union
             {[key |-> <<r, t>>, version |-> job[r].version, created |-> now,
               anchors |-> job[r].anchors, anchor |-> FreshnessAnchor(job[r].anchors),
               ohlc |-> job[r].ohlc]}
        /\ Bind(r, t, <<r, t>>, Nothing)
  /\ Goto(r, "evaluating")
  /\ UNCHANGED <<now, release, evaluations, chain>>

-----------------------------------------------------------------------------
(* The evaluations, and the end of the refresh *)

\* The next contract: of the same context, of the next ticker, or none.
Advance(r) ==
  LET rest == Tail(job[r].todo) IN
  /\ job' = [job EXCEPT ![r].todo = rest]
  /\ Goto(r, IF rest # <<>> /\ TickerOf[Head(rest)] # job[r].ticker
               THEN "choosing" ELSE "evaluating")

Insert(r, c) ==
  /\ evaluations' = evaluations \union
       {[key |-> job[r].key, contract |-> c, at |-> now, reused |-> job[r].reused, by |-> r]}
  /\ Advance(r)

\* _evaluation: the one of this context and contract is returned if there is one, even
\* when the Radar or the chain has newer rows; an insert waits for another transaction
\* that has inserted the same.
Evaluate(r) ==
  /\ pc[r] = "evaluating" /\ job[r].todo # <<>>
  /\ LET rows == Rows(job[r].key, Contract(r)) IN
       IF rows = {} THEN Insert(r, Contract(r))
       ELSE IF \E e \in rows : e.by = r \/ Committed(e.by)
         THEN Advance(r) /\ UNCHANGED evaluations
         ELSE Goto(r, "inserting") /\ UNCHANGED <<job, evaluations>>
  /\ UNCHANGED <<now, release, contexts, chain>>

Holder(r) == {e.by : e \in Rows(job[r].key, Contract(r))}

\* A refresh rolls back: whatever it has fetched and inserted goes.
RollBack(r) ==
  /\ contexts' = {k \in contexts : k.key[1] # r}
  /\ evaluations' = {e \in evaluations : e.by # r}
  /\ job' = [job EXCEPT ![r] = Idle]
  /\ Goto(r, "failed")

\* Variant: the database does not look for deadlocks.
InsertResolvedPatiently(r) ==
  /\ pc[r] = "inserting"
  /\ IF Holder(r) = {} THEN Insert(r, Contract(r)) /\ UNCHANGED contexts
     ELSE (\E holder \in Holder(r) : Committed(holder)) /\ RollBack(r)
  /\ UNCHANGED <<now, release, chain>>

\* The other transaction ends: rolled back, it leaves the key free; committed, it makes the
\* insert a duplicate.  Two that wait for each other are a deadlock, which the database
\* breaks.  Either error ends the command.
InsertResolved(r) ==
  /\ pc[r] = "inserting"
  /\ IF Holder(r) = {} THEN Insert(r, Contract(r)) /\ UNCHANGED contexts
     ELSE /\ \E holder \in Holder(r) :
               \/ Committed(holder)
               \/ pc[holder] = "inserting" /\ r \in Holder(holder)
          /\ RollBack(r)
  /\ UNCHANGED <<now, release, chain>>

\* One commit for all the tickers of the list.
Commit(r) ==
  /\ pc[r] = "evaluating" /\ job[r].todo = <<>>
  /\ job' = [job EXCEPT ![r] = Idle]
  /\ Goto(r, "done")
  /\ UNCHANGED <<now, release, contexts, evaluations, chain>>

\* An error that is not the vendor's (a payload that cannot be normalised, a conflict of
\* source identities, the database), or the end of the process.
RefreshFails(r) ==
  /\ pc[r] \in Running
  /\ RollBack(r)
  /\ UNCHANGED <<now, release, chain>>

-----------------------------------------------------------------------------
(* The build commands, from preserved evidence only *)

\* The latest committed evaluation of a contract.
LatestEvaluations(c) ==
  LET known == {e \in evaluations : e.contract = c /\ Committed(e.by)}
  IN {e \in known : \A other \in known : other.at <= e.at}

\* Phase2bV2StateService.materialize_contracts, for one contract.
BuildState(c) ==
  /\ \E e \in LatestEvaluations(c) :
       LET row == [evaluation |-> e.key, contract |-> c]
       IN row \notin states /\ states' = states \union {row}
  /\ UNCHANGED <<now, release, pc, job, contexts, evaluations, picked, workspaces>>

\* Phase2bV3WorkspaceService.materialize_contracts, for one contract, selects its latest
\* evaluation first, and the state of that evaluation in a later statement.
PickEvaluation(c) ==
  /\ picked[c] = NoKey
  /\ \E e \in LatestEvaluations(c) : picked' = [picked EXCEPT ![c] = e.key]
  /\ UNCHANGED <<now, release, pc, job, contexts, evaluations, states, workspaces>>

\* Variant: a state of the contract, of whichever evaluation.
StatesOfContract(key, c) == {s \in states : s.contract = c}

StatesOf(key, c) == {s \in states : s.evaluation = key /\ s.contract = c}

\* build_workspace_payload, reduced to the rows it is derived from.
WorkspaceOf(key, c, s) == [evaluation |-> key, contract |-> c, state |-> s]

\* The workspace of the evaluation and its state, unless it has no state or the workspace
\* is there.
BuildWorkspace(c) ==
  /\ picked[c] # NoKey
  /\ IF StatesOf(picked[c], c) = {} THEN UNCHANGED workspaces
     ELSE \E s \in StatesOf(picked[c], c) :
            workspaces' = workspaces \union {WorkspaceOf(picked[c], c, s)}
  /\ picked' = [picked EXCEPT ![c] = NoKey]
  /\ UNCHANGED <<now, release, pc, job, contexts, evaluations, states>>

-----------------------------------------------------------------------------
(* The environment *)

\* A deployment with a new version of the context's specification; a running refresh keeps
\* its own.
Redeploy ==
  /\ release <= MaxReleases
  /\ release' = release + 1
  /\ UNCHANGED <<now, pc, job, contexts, evaluations, chain>>

Tick ==
  /\ now < MaxTime
  /\ now' = now + 1
  /\ UNCHANGED <<release, pc, job, contexts, evaluations, chain>>

-----------------------------------------------------------------------------
(* The system *)

Step(r) ==
  \/ Begin(r)
  \/ ChooseContext(r)
  \/ EndpointAnswers(r)
  \/ ContextFetched(r)
  \/ Evaluate(r)
  \/ InsertResolved(r)
  \/ Commit(r)

\* Every command has run and the bounds are reached.
Terminating ==
  /\ now = MaxTime /\ \A r \in Refreshes : pc[r] \in {"done", "failed"}
  /\ UNCHANGED vars

Next ==
  \/ \E r \in Refreshes : Step(r) \/ RefreshFails(r)
  \/ \E c \in Built : BuildState(c) \/ PickEvaluation(c) \/ BuildWorkspace(c)
  \/ Redeploy
  \/ Tick
  \/ Terminating

Spec == Init /\ [][Next]_vars

\* A command that runs goes on: its vendor requests have a timeout and no retry, its
\* statements wait for a transaction that ends.
FairSpec == Spec /\ \A r \in Refreshes : WF_vars(Step(r))

-----------------------------------------------------------------------------
(* Properties *)

ContextOf(e) == CHOOSE k \in contexts : k.key = e.key

\* An evaluation on a reused context rests on no endpoint older than the window was when
\* the context was chosen, however many reprocessings the context has been through, and a
\* context that is reused was committed or the refresh's own.
ReusedEvidenceIsFresh ==
  \A e \in evaluations :
    /\ \E k \in contexts : k.key = e.key
    /\ e.reused # Nothing =>
         \A anchor \in Range(ContextOf(e).anchors) : anchor >= e.reused - Window

\* The confirmation route serves one chain: a workspace rests on the state of its own
\* evaluation, and that on a committed evaluation whose context is there, whatever was
\* evaluated or rolled back while it was built.
ServedChainIsAligned ==
  \A w \in workspaces :
    /\ w.state.evaluation = w.evaluation /\ w.state.contract = w.contract
    /\ \E e \in Rows(w.evaluation, w.contract) : Committed(e.by)
    /\ \E k \in contexts : k.key = w.evaluation /\ Committed(k.key[1])

\* A refresh that has begun ends, although two that evaluate contracts of one context in
\* different orders wait for each other.
RefreshEnds ==
  \A r \in Refreshes : (pc[r] \in Running) ~> (pc[r] \in {"done", "failed"})
===============================================================================
