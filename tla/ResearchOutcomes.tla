--------------------------- MODULE ResearchOutcomes ---------------------------
(***************************************************************************)
(* Stage 6 baselines and Stage 9 outcomes of the candidates of one ticker  *)
(* (backend/app/confirmation/vnext.py, backend/app/research).              *)
(*                                                                         *)
(* A scan makes a candidate at its first knowledge.  A baseline freezes    *)
(* the archived evidence of that moment, at any later time, once for every *)
(* configuration; requests fetch new evidence, dealer surfaces among it.   *)
(* The materializer, a command started by hand, maps each candidate to an  *)
(* immutable sample and appends a measurement of each horizon whenever its *)
(* inputs have changed; executions may overlap.                            *)
(*                                                                         *)
(* Time is counted in instants.  A candidate, a payload and an execution   *)
(* use up the instant they read, so that two of them never read the same;  *)
(* a baseline or a capture reads the clock without.  A half day, before a  *)
(* close or from it on, has room for HalfDay - 1 readings and ends         *)
(* whenever it likes.                                                      *)
(***************************************************************************)
EXTENDS Naturals, FiniteSets, Sequences

CONSTANTS
  Candidates,    \* occurrences of the ticker, one per scan
  Scheduled,     \* those whose scan has the trigger scheduled_daily
  Configs,       \* the configurations under which a baseline is made, numbered
  Runners,       \* executions of materialize-stage9b-outcomes
  Sessions,      \* the days the exchange is open
  Horizons,      \* in sessions: 1, 3 and 5 in the code
  ScaleChanges,  \* those at which a price scale change may be recorded
  HalfDay,       \* bound: the instants of half a day
  FirstTime,
  MaxTime,       \* bound: the last instant
  MaxPayloads,   \* bound: the responses received
  MaxSurfaces    \* bound: the dealer surfaces archived

Start(day) == 2 * day * HalfDay
Times == FirstTime..MaxTime
MarketDate(time) == time \div (2 * HalfDay)
ClosesAt(session) == Start(session) + HalfDay

IsPrevious(session, day) ==
  /\ session \in Sessions /\ session < day
  /\ \A other \in Sessions : other < day => other <= session

IsNext(session, day) ==
  /\ session \in Sessions /\ session > day
  /\ \A other \in Sessions : other > day => session <= other

IsTarget(session, t1, horizon) ==
  /\ session \in Sessions /\ session >= t1
  /\ Cardinality({s \in Sessions : t1 <= s /\ s < session}) = horizon - 1

Previous(day) == CHOOSE session \in Sessions : IsPrevious(session, day)
NextSession(day) == CHOOSE session \in Sessions : IsNext(session, day)

\* The calendar reaches beyond the days of the model on both sides.
ASSUME CalendarAssumption ==
  /\ Sessions \subseteq Nat /\ HalfDay \in Nat \ {0}
  /\ FirstTime \in Nat \ {0} /\ MaxTime \in Nat /\ FirstTime <= MaxTime
  /\ Horizons \subseteq Nat \ {0}
  /\ ScaleChanges \subseteq Sessions
  /\ MaxPayloads \in Nat /\ MaxSurfaces \in Nat /\ Configs \subseteq Nat
  /\ \A time \in Times :
       /\ \E session \in Sessions : IsPrevious(session, MarketDate(time))
       /\ \E session \in Sessions : IsNext(session, MarketDate(time))
       /\ \A t1 \in Sessions, h \in Horizons :
            t1 = MarketDate(time) \/ IsNext(t1, MarketDate(time))
              => \E session \in Sessions : IsTarget(session, t1, h)

VARIABLES
  now,           \* the next instant
  known,         \* candidate_first_knowledge_at
  baselines,     \* its FIRST_KNOWLEDGE_BASELINE contexts, in the order of their commits
  drafts,        \* those that have been evaluated and are not committed
  asking,        \* captured_at of the dealer capture in progress
  surfaces,      \* dealer_gex_snapshots that are analytical observations
  pending,       \* raw daily OHLC payloads of requests that have not committed
  raw,           \* raw_vendor_payloads of the daily OHLC endpoint
  actions,       \* sessions at which a price scale change is recorded
  samples,       \* forward_outcome_research_samples
  measured,      \* the latest forward_outcome_measurements
  run            \* what each execution of the materializer read when it began

contexts == <<baselines, drafts>>
captures == <<asking, surfaces>>
vars == <<now, known, contexts, captures, pending, raw, actions,
          samples, measured, run>>

Unknown == 0
NoSource == 0
NoBaseline == 0
NoSurface == [asked |-> Unknown, observed |-> Unknown]
NoSample == [validity |-> "NONE"]
NoMeasurement == [state |-> "NONE"]
NotBegun == [evaluated |-> 0]
Over == [evaluated |-> 1]
Running == {r \in Runners : run[r] \notin {NotBegun, Over}}

Occurred == {c \in Candidates : known[c] # Unknown}

TypeOK ==
  /\ now \in Times
  /\ known \in [Candidates -> Times \union {Unknown}]
  /\ \A c \in Candidates : \A i \in DOMAIN baselines[c] :
       /\ baselines[c][i].config \in Configs
       /\ baselines[c][i].evaluated \in Times
       /\ baselines[c][i].source \in Times \union {NoSource}
       /\ \A j \in DOMAIN baselines[c] :
            baselines[c][i].config = baselines[c][j].config => i = j
  /\ \A c \in Candidates \ Occurred : baselines[c] = <<>>
  /\ \A draft \in drafts : draft.candidate \in Occurred /\ draft.evaluated <= now
  /\ asking \in Times \union {Unknown}
  /\ \A surface \in surfaces : surface.asked <= now /\ surface.observed <= now
  /\ \A p \in pending \union raw :
       /\ p.received \in Times
       /\ p.usable \subseteq Sessions /\ p.unusable \subseteq Sessions
  /\ Cardinality(pending \union raw) <= MaxPayloads
  /\ actions \subseteq ScaleChanges
  /\ \A c \in Candidates : samples[c] # NoSample =>
       /\ samples[c].validity \in {"VALID", "INVALID_SAMPLE"}
       /\ samples[c].reference \in Sessions /\ samples[c].t1 \in Sessions
       /\ samples[c].primary \in BOOLEAN
  /\ \A c \in Candidates, h \in Horizons :
       /\ measured[c][h].state \in
            {"NONE", "INVALID_SAMPLE", "NOT_YET_MATURE", "MATURE_AVAILABLE",
             "MATURE_MISSING_DATA", "CORPORATE_ACTION_CONTAMINATED"}
       /\ measured[c][h].state = "NONE" <=> samples[c].validity = "NONE"
       /\ measured[c][h].state = "INVALID_SAMPLE"
            <=> samples[c].validity = "INVALID_SAMPLE"
  /\ \A r \in Running :
       run[r].evaluated < now

Init ==
  /\ now = FirstTime
  /\ known = [c \in Candidates |-> Unknown]
  /\ baselines = [c \in Candidates |-> <<>>] /\ drafts = {}
  /\ asking = Unknown /\ surfaces = {}
  /\ pending = {} /\ raw = {} /\ actions = {}
  /\ samples = [c \in Candidates |-> NoSample]
  /\ measured = [c \in Candidates |-> [h \in Horizons |-> NoMeasurement]]
  /\ run = [r \in Runners |-> NotBegun]

-------------------------------------------------------------------------------
(***************************************************************************)
(* The preserved closes.                                                   *)
(***************************************************************************)

\* A payload has a usable regular close of a session, an unusable row, or no row.
Rows(payload) == payload.usable \union payload.unusable

\* lookup: the last payload received by then that has a row of the session.
IsLookup(payload, payloads, session, asOf) ==
  /\ payload \in payloads /\ payload.received <= asOf /\ session \in Rows(payload)
  /\ \A other \in payloads :
       other.received <= asOf /\ session \in Rows(other)
         => other.received <= payload.received

Lookup(payloads, session, asOf) ==
  IF \E payload \in payloads : IsLookup(payload, payloads, session, asOf)
  THEN (CHOOSE payload \in payloads : IsLookup(payload, payloads, session, asOf)).received
  ELSE NoSource

HasClose(payloads, session, asOf) ==
  \E payload \in payloads :
    IsLookup(payload, payloads, session, asOf) /\ session \in payload.usable

-------------------------------------------------------------------------------
(***************************************************************************)
(* Samples.                                                                *)
(***************************************************************************)

\* The instant of the close does not count.
AfterCloseOnly(time) == MarketDate(time) \in Sessions /\ time > ClosesAt(MarketDate(time))

\* map_forward_sessions: a close counts as known from the instant of the close, but
\* is the reference only if a payload received by then holds it.
AfterClose(time) == MarketDate(time) \in Sessions /\ time >= ClosesAt(MarketDate(time))

Reference(payloads, time) ==
  IF AfterClose(time) /\ HasClose(payloads, MarketDate(time), time)
  THEN MarketDate(time) ELSE Previous(MarketDate(time))

FirstForward(time) ==
  IF MarketDate(time) \in Sessions /\ ~AfterClose(time)
  THEN MarketDate(time) ELSE NextSession(MarketDate(time))

\* Of two rows evaluated at the same time the id decides; the configuration stands for it.
Precedes(row, other) ==
  \/ row.evaluated < other.evaluated
  \/ row.evaluated = other.evaluated /\ row.config < other.config

\* The row of a later configuration replaces an earlier one.
FrozenBaselineLatest(rows) ==
  IF rows = <<>> THEN NoBaseline
  ELSE CHOOSE i \in DOMAIN rows : \A j \in DOMAIN rows : ~Precedes(rows[i], rows[j])

\* _select_frozen_baseline: the one evaluated first, under whichever configuration.
FrozenBaseline(rows) ==
  IF rows = <<>> THEN NoBaseline
  ELSE CHOOSE i \in DOMAIN rows : \A j \in DOMAIN rows : ~Precedes(rows[j], rows[i])

\* build_research_sample_foundation, and the columns that _sample_values compares.  Every
\* candidate has a qualifying trigger: the projection makes no other.
Foundation(c, rows, payloads) ==
  LET baseline == FrozenBaseline(rows)
      validity == IF baseline = NoBaseline THEN "INVALID_SAMPLE" ELSE "VALID"
  IN  [validity |-> validity, baseline |-> baseline,
       reference |-> Reference(payloads, known[c]), t1 |-> FirstForward(known[c]),
       primary |-> validity = "VALID" /\ c \in Scheduled]

WindowKey(sample) == <<sample.reference, sample.t1>>

\* Every eligible sample of a window.
RepresentativeAny(c, sample, read) == sample[c].primary

\* _primary_representative_ids: of the eligible samples of a window, the first known.
Representative(c, sample, read) ==
  \A other \in read :
    sample[other].primary /\ WindowKey(sample[other]) = WindowKey(sample[c])
      => known[c] <= known[other]

-------------------------------------------------------------------------------
(***************************************************************************)
(* Measurements.                                                           *)
(***************************************************************************)

\* _target_session, _advance_sessions: the session in which the horizon ends.
TargetSession(sample, horizon) ==
  CHOOSE session \in Sessions : IsTarget(session, sample.t1, horizon)

\* The reference and the sessions from T+1 to the target.
Required(sample, horizon) ==
  {sample.reference}
    \union {s \in Sessions : sample.t1 <= s /\ s <= TargetSession(sample, horizon)}

\* The recorded price scale changes between the reference and the target.
Relevant(sample, horizon, recorded) ==
  {s \in recorded : sample.reference < s /\ s <= TargetSession(sample, horizon)}

\* A recorded action is asked before the time.
MaturityOfActions(sample, horizon, inputs) ==
  IF sample.validity = "INVALID_SAMPLE" THEN "INVALID_SAMPLE"
  ELSE IF Relevant(sample, horizon, inputs.actions) # {} THEN "CORPORATE_ACTION_CONTAMINATED"
  ELSE IF inputs.evaluated < ClosesAt(TargetSession(sample, horizon)) THEN "NOT_YET_MATURE"
  ELSE IF \A s \in Required(sample, horizon) :
            HasClose(inputs.payloads, s, inputs.evaluated)
       THEN "MATURE_AVAILABLE" ELSE "MATURE_MISSING_DATA"

\* The time is asked before the validity.
MaturityOfAny(sample, horizon, inputs) ==
  IF inputs.evaluated < ClosesAt(TargetSession(sample, horizon)) THEN "NOT_YET_MATURE"
  ELSE IF sample.validity = "INVALID_SAMPLE" THEN "INVALID_SAMPLE"
  ELSE IF Relevant(sample, horizon, inputs.actions) # {} THEN "CORPORATE_ACTION_CONTAMINATED"
  ELSE IF \A s \in Required(sample, horizon) :
            HasClose(inputs.payloads, s, inputs.evaluated)
       THEN "MATURE_AVAILABLE" ELSE "MATURE_MISSING_DATA"

\* _propose_measurement and maturity_state: in this order.
Maturity(sample, horizon, inputs) ==
  IF sample.validity = "INVALID_SAMPLE" THEN "INVALID_SAMPLE"
  ELSE IF inputs.evaluated < ClosesAt(TargetSession(sample, horizon)) THEN "NOT_YET_MATURE"
  ELSE IF Relevant(sample, horizon, inputs.actions) # {} THEN "CORPORATE_ACTION_CONTAMINATED"
  ELSE IF \A s \in Required(sample, horizon) :
            HasClose(inputs.payloads, s, inputs.evaluated)
       THEN "MATURE_AVAILABLE" ELSE "MATURE_MISSING_DATA"

\* _propose_measurement, as far as the fingerprint tells two proposals apart.
Proposal(c, horizon, sample, read, inputs) ==
  LET state == Maturity(sample[c], horizon, inputs)
      open == state \in {"INVALID_SAMPLE", "NOT_YET_MATURE"}
  IN  [state |-> state,
       path |-> IF open THEN {}
                ELSE {<<s, Lookup(inputs.payloads, s, inputs.evaluated)>> :
                        s \in Required(sample[c], horizon)},
       scaled |-> Relevant(sample[c], horizon, inputs.actions),
       primary |-> /\ state = "MATURE_AVAILABLE"
                   /\ sample[c].primary /\ Representative(c, sample, read)]

-------------------------------------------------------------------------------
(***************************************************************************)
(* Candidates, baselines and refreshes.                                    *)
(***************************************************************************)

ReadClock == (now + 1) % HalfDay # 0 /\ now' = now + 1 /\ now' \in Times

\* The market closes, or a day ends.
PassHalfDay ==
  /\ now' = (now \div HalfDay + 1) * HalfDay /\ now' \in Times
  /\ UNCHANGED <<known, contexts, captures, pending, raw, actions,
                 samples, measured, run>>

\* A scan completes, materializes the ticker's candidate and commits; the advisory
\* lock keeps the commits in the order of the first knowledge.
MakeCandidate(c) ==
  /\ known[c] = Unknown
  /\ ReadClock /\ known' = [known EXCEPT ![c] = now]
  /\ UNCHANGED <<contexts, captures, pending, raw, actions, samples, measured, run>>

CutoffNow(c) == now

\* The evidence a baseline may use was received by the first knowledge.
Cutoff(c) == known[c]

IsLatest(payload, cutoff) ==
  /\ payload \in raw /\ payload.received <= cutoff
  /\ \A other \in raw : other.received <= cutoff => other.received <= payload.received

\* _archived_source_bundle: the last payload received by the cutoff.
Source(cutoff) ==
  IF \E payload \in raw : IsLatest(payload, cutoff)
  THEN (CHOOSE payload \in raw : IsLatest(payload, cutoff)).received
  ELSE NoSource

IsBestSurface(surface, cutoff) ==
  /\ surface \in surfaces /\ surface.observed <= cutoff /\ surface.asked <= cutoff
  /\ \A other \in surfaces :
       other.observed <= cutoff /\ other.asked <= cutoff =>
         \/ other.observed < surface.observed
         \/ other.observed = surface.observed /\ other.asked <= surface.asked

\* best_archived_surface_at_or_before: captured_at is read before the request.
Surface(cutoff) ==
  IF \E surface \in surfaces : IsBestSurface(surface, cutoff)
  THEN CHOOSE surface \in surfaces : IsBestSurface(surface, cutoff)
  ELSE NoSurface

\* _persist_evaluation: a context, with a detail of each trigger, from one source and the
\* archived surface.  The chains it also reads were received by the cutoff, like the source.
PersistEvaluation(c, config, cutoff) ==
  drafts' = drafts \union
    {[candidate |-> c, config |-> config, evaluated |-> now,
      source |-> Source(cutoff), surface |-> Surface(cutoff)]}

\* create_baseline, by the observation that ran the scan or by a request of the dashboard,
\* of whichever revision is deployed.  The row of its configuration is returned if there
\* is one.  Two of one configuration exclude each other: of the second, which waits for
\* the first, a trace is left only if the first leaves none.
CreateBaseline(c, config) ==
  /\ c \in Occurred /\ now >= Cutoff(c)
  /\ \A i \in DOMAIN baselines[c] : baselines[c][i].config # config
  /\ \A draft \in drafts : <<draft.candidate, draft.config>> # <<c, config>>
  /\ PersistEvaluation(c, config, Cutoff(c))
  /\ UNCHANGED <<now, known, baselines, captures, pending, raw, actions,
                 samples, measured, run>>

\* Its transaction commits, in whatever order those of other configurations do.
CommitBaseline(draft) ==
  /\ drafts' = drafts \ {draft}
  /\ baselines' = [baselines EXCEPT ![draft.candidate] = Append(@,
       [config |-> draft.config, evaluated |-> draft.evaluated,
        source |-> draft.source, surface |-> draft.surface])]
  /\ UNCHANGED <<now, known, captures, pending, raw, actions, samples, measured, run>>

\* An error, or a crash, before the commit.
LoseBaseline(draft) ==
  /\ drafts' = drafts \ {draft}
  /\ UNCHANGED <<now, known, baselines, captures, pending, raw, actions,
                 samples, measured, run>>

\* _capture_ticker reads captured_at and sends its request.
AskSurface ==
  /\ asking = Unknown /\ Cardinality(surfaces) < MaxSurfaces
  /\ asking' = now
  /\ UNCHANGED <<now, known, contexts, surfaces, pending, raw, actions,
                 samples, measured, run>>

\* The vendor answers with a surface that it observed between the request and now, or
\* before the request, as of which the instant of the request stands; it is committed.
ReceiveSurface ==
  /\ asking # Unknown /\ asking' = Unknown
  /\ \E observed \in {asking, now} :
       surfaces' = surfaces \union {[asked |-> asking, observed |-> observed]}
  /\ UNCHANGED <<now, known, contexts, pending, raw, actions, samples, measured, run>>

\* The request fails, or what it answered is no analytical observation.
LoseSurface ==
  /\ asking # Unknown /\ asking' = Unknown
  /\ UNCHANGED <<now, known, contexts, surfaces, pending, raw, actions,
                 samples, measured, run>>

\* What a daily OHLC response holds: the sessions closed so far; the row of the last
\* one may be missing, or unusable.
Answers(time) ==
  LET closed == {s \in Sessions : ClosesAt(s) <= time}
      last == {s \in closed : \A o \in closed : o <= s}
  IN  {[received |-> time, usable |-> closed, unusable |-> {}],
       [received |-> time, usable |-> closed \ last, unusable |-> {}],
       [received |-> time, usable |-> closed \ last, unusable |-> last]}

\* A request receives a response and flushes it; its transaction stays open.
ReceivePayload ==
  /\ Cardinality(pending \union raw) < MaxPayloads
  /\ ReadClock
  /\ \E answer \in Answers(now) : pending' = pending \union {answer}
  /\ UNCHANGED <<known, contexts, captures, raw, actions, samples, measured, run>>

\* The request commits, a refresh together with a context of its own kind, which
\* neither create_baseline nor the materializer reads.
CommitPayload(payload) ==
  /\ pending' = pending \ {payload} /\ raw' = raw \union {payload}
  /\ UNCHANGED <<now, known, contexts, captures, actions, samples, measured, run>>

\* An error of the request, or a crash: its transaction is lost.
LosePayload(payload) ==
  /\ pending' = pending \ {payload}
  /\ UNCHANGED <<now, known, contexts, captures, raw, actions,
                 samples, measured, run>>

\* Nothing in the repository writes these rows: they are recorded, or revised, by hand.
RecordAction(session) ==
  /\ actions' = IF session \in actions THEN actions \ {session}
                ELSE actions \union {session}
  /\ UNCHANGED <<now, known, contexts, captures, pending, raw,
                 samples, measured, run>>

-------------------------------------------------------------------------------
(***************************************************************************)
(* The materializer: it reads the clock, the candidates and the baselines; *)
(* then payloads and actions; it commits all its rows at the end, whatever *)
(* has been committed since it read.                                       *)
(***************************************************************************)

Begin(r) ==
  /\ run[r] = NotBegun
  /\ ReadClock
  /\ run' = [run EXCEPT ![r] =
       [evaluated |-> now, baselines |-> baselines, read |-> FALSE,
        payloads |-> {}, actions |-> {}, overtaken |-> FALSE]]
  /\ UNCHANGED <<known, contexts, captures, pending, raw, actions,
                 samples, measured>>

ReadInputs(r) ==
  /\ r \in Running /\ ~run[r].read
  /\ run' = [run EXCEPT ![r] =
       [@ EXCEPT !.read = TRUE, !.payloads = raw, !.actions = actions]]
  /\ UNCHANGED <<now, known, contexts, captures, pending, raw, actions,
                 samples, measured>>

Agrees(c, foundation) == samples[c] \in {NoSample, foundation}

\* get_or_create and append_if_changed for every candidate that was read; ghost:
\* executions that began before this commit have been overtaken.
Commit(r) ==
  LET seen == {c \in Occurred : known[c] < run[r].evaluated}
      foundation == [c \in seen |-> Foundation(c, run[r].baselines[c], run[r].payloads)]
  IN  /\ r \in Running /\ run[r].read
      /\ \A c \in seen : Agrees(c, foundation[c])
      /\ samples' = [c \in Candidates |-> IF c \in seen THEN foundation[c] ELSE samples[c]]
      /\ measured' = [c \in Candidates |-> [h \in Horizons |->
           IF c \in seen THEN Proposal(c, h, foundation, seen, run[r])
           ELSE measured[c][h]]]
      /\ run' = [o \in Runners |->
           IF o = r THEN Over
           ELSE IF o \in Running THEN [run[o] EXCEPT !.overtaken = TRUE] ELSE run[o]]
      /\ UNCHANGED <<now, known, contexts, captures, pending, raw, actions>>

\* A dry run, a database error, a crash, or a sample in conflict: all is rolled back.
RollBack(r) ==
  /\ r \in Running
  /\ run' = [run EXCEPT ![r] = NotBegun]
  /\ UNCHANGED <<now, known, contexts, captures, pending, raw, actions,
                 samples, measured>>

Next ==
  \/ PassHalfDay \/ ReceivePayload
  \/ \E c \in Candidates : MakeCandidate(c)
  \/ \E c \in Candidates, config \in Configs : CreateBaseline(c, config)
  \/ \E d \in drafts : CommitBaseline(d) \/ LoseBaseline(d)
  \/ AskSurface \/ ReceiveSurface \/ LoseSurface
  \/ \E p \in pending : CommitPayload(p) \/ LosePayload(p)
  \/ \E s \in ScaleChanges : RecordAction(s)
  \/ \E r \in Runners : Begin(r) \/ ReadInputs(r) \/ Commit(r) \/ RollBack(r)

Spec == Init /\ [][Next]_vars

-------------------------------------------------------------------------------
(***************************************************************************)
(* Properties.                                                             *)
(***************************************************************************)

\* A baseline is created at any time after the scan, under any configuration, and yet its
\* payload was received by the candidate's first knowledge, and its dealer surface shows
\* nothing that the vendor observed after it: captured_at is read before the request, so
\* one in flight then is admitted although it is received later, and only if the vendor
\* had observed it by then (create_baseline, best_archived_surface_at_or_before).
BaselineHasNoLookAhead ==
  \A c \in Candidates : \A i \in DOMAIN baselines[c] :
    /\ baselines[c][i].source <= known[c]
    /\ baselines[c][i].surface.asked <= known[c]
    /\ baselines[c][i].surface.observed <= known[c]

\* An outcome runs from a close that was final at the first knowledge to closes that
\* were not: no sample counts a move that had already happened (map_forward_sessions).
OutcomeStartsAfterKnowledge ==
  \A c \in Candidates : samples[c] # NoSample =>
    /\ ClosesAt(samples[c].reference) <= known[c]
    /\ known[c] < ClosesAt(samples[c].t1)

\* Of the candidates whose outcomes cover the same sessions, at most one counts in the
\* primary aggregate, whatever was committed late and however executions overlap.
OnePrimaryPerWindow ==
  \A c, d \in Candidates, h \in Horizons :
    /\ c # d
    /\ measured[c][h].state = "MATURE_AVAILABLE" /\ measured[c][h].primary
    /\ measured[d][h].state = "MATURE_AVAILABLE" /\ measured[d][h].primary
    => WindowKey(samples[c]) # WindowKey(samples[d])

\* Three reasons that a sample no longer agrees with the rows it was built from: its
\* first baseline, or one evaluated before its baseline under another configuration, or a
\* payload received by the first knowledge that decides whether the close of that day was
\* known, was committed after it.
BaselineCameLate(c) ==
  samples[c].validity = "INVALID_SAMPLE" /\ baselines[c] # <<>>
EarlierBaselineCameLate(c) ==
  /\ samples[c].validity = "VALID"
  /\ \E i \in DOMAIN baselines[c] :
       /\ i > samples[c].baseline
       /\ Precedes(baselines[c][i], baselines[c][samples[c].baseline])
ProofCameLate(c) ==
  /\ AfterClose(known[c])
  /\ ~(samples[c].reference = MarketDate(known[c])
         <=> HasClose(raw, MarketDate(known[c]), known[c]))

\* An execution raises "Immutable Stage 9 sample conflict", and from then on so does
\* every later one for every ticker, for those three reasons only: a baseline evaluated
\* later under another configuration, a refresh, and a payload received later do not cause
\* it (_get_or_create_sample).
ConflictHasLateCause ==
  \A c \in Occurred :
    \/ Agrees(c, Foundation(c, baselines[c], raw))
    \/ BaselineCameLate(c) \/ EarlierBaselineCameLate(c) \/ ProofCameLate(c)

Immature == {"NONE", "NOT_YET_MATURE"}

\* A measurement that has matured never becomes immature again, as long as the
\* executions of the materializer do not overlap.
MaturityIsFinal ==
  [][\A c \in Candidates, h \in Horizons :
       measured[c][h].state \notin Immature /\ measured'[c][h].state \in Immature
         => \E r \in Running : run[r].overtaken]_vars
===============================================================================
