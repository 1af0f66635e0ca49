------------------------ MODULE ResearchOutcomes_proofs ------------------------
(***************************************************************************)
(* Proofs about ResearchOutcomes: baselines and samples, for every number  *)
(* of candidates, executions, payloads and days, and every calendar.       *)
(***************************************************************************)
EXTENDS ResearchOutcomes, FiniteSetTheorems, SequenceTheorems,
        WellFoundedInduction, TLAPS

-------------------------------------------------------------------------------
(***************************************************************************)
(* The calendar.                                                           *)
(***************************************************************************)

\* A session before the day of an instant has closed, one after it has not
\* (map_forward_sessions compares dates first, and the close on the day itself).
LEMMA DaysAreOrdered ==
  ASSUME NEW time \in Times, NEW session \in Sessions
  PROVE  /\ MarketDate(time) \in Nat
         /\ session < MarketDate(time) => ClosesAt(session) <= time
         /\ session > MarketDate(time) => time < ClosesAt(session)
<1> DEFINE D == 2 * HalfDay
           q == MarketDate(time)
<1>1. /\ time \in Nat /\ session \in Nat /\ HalfDay \in Nat /\ HalfDay > 0
  BY CalendarAssumption DEF Times
<1>2. D \in Nat /\ D > 0 /\ ClosesAt(session) = session * D + HalfDay
  BY <1>1 DEF ClosesAt, Start
<1>3. q \in Nat /\ q * D <= time /\ time < q * D + D
  BY <1>1, <1>2 DEF MarketDate
<1>4. session < q => ClosesAt(session) <= time
  BY <1>1, <1>2, <1>3
<1>5. session > q => time < ClosesAt(session)
  BY <1>1, <1>2, <1>3
<1> QED
  BY <1>3, <1>4, <1>5

LEMMA TimesAreNumbers ==
  /\ \A time \in Times : time \in Nat /\ time # Unknown
  /\ \A session \in Sessions : session \in Nat /\ ClosesAt(session) \in Nat
<1>1. ASSUME NEW session \in Sessions
      PROVE  session \in Nat /\ ClosesAt(session) \in Nat
  BY CalendarAssumption DEF ClosesAt, Start
<1> QED
  BY <1>1, CalendarAssumption DEF Times, Unknown

\* What CalendarAssumption says of the choices.
LEMMA Calendar ==
  ASSUME NEW time \in Times
  PROVE  /\ IsPrevious(Previous(MarketDate(time)), MarketDate(time))
         /\ IsNext(NextSession(MarketDate(time)), MarketDate(time))
<1>1. \E session \in Sessions : IsPrevious(session, MarketDate(time))
  BY CalendarAssumption
<1>2. \E session \in Sessions : IsNext(session, MarketDate(time))
  BY CalendarAssumption
<1> QED
  BY <1>1, <1>2 DEF Previous, NextSession

\* The plan of an instant starts from a closed session, and its first forward session
\* has not closed.
LEMMA PlanSpansKnowledge ==
  ASSUME NEW time \in Times, NEW payloads
  PROVE  /\ ClosesAt(Reference(payloads, time)) <= time
         /\ time < ClosesAt(FirstForward(time))
<1> DEFINE day == MarketDate(time)
<1>1. /\ Previous(day) \in Sessions /\ Previous(day) < day
      /\ NextSession(day) \in Sessions /\ NextSession(day) > day
  BY Calendar DEF IsPrevious, IsNext
<1>2. ClosesAt(Previous(day)) <= time /\ time < ClosesAt(NextSession(day))
  BY <1>1, DaysAreOrdered
<1>3. CASE day \in Sessions
  <2>1. ClosesAt(day) \in Nat /\ time \in Nat
    BY <1>3, TimesAreNumbers
  <2> QED
    BY <1>2, <1>3, <2>1 DEF Reference, FirstForward, AfterClose
<1>4. CASE day \notin Sessions
  BY <1>2, <1>4 DEF Reference, FirstForward, AfterClose
<1> QED
  BY <1>3, <1>4

-------------------------------------------------------------------------------
(***************************************************************************)
(* The inductive invariant: what was read of the clock is a time, and what *)
(* a baseline, an execution and a sample keep of the rows they were built  *)
(* from.                                                                   *)
(***************************************************************************)

ClockInv ==
  /\ now \in Times
  /\ known \in [Candidates -> Times \union {Unknown}]

Payloads == [received : Times, usable : SUBSET Sessions, unusable : SUBSET Sessions]

EvidenceInv ==
  /\ pending \union raw \subseteq Payloads
  /\ actions \subseteq ScaleChanges

TimesOrNone == Times \union {Unknown}
Surfaces == [asked : TimesOrNone, observed : TimesOrNone]

\* A capture in progress began in the past, and what is archived was observed in the past.
CaptureInv ==
  /\ asking \in TimesOrNone /\ asking <= now
  /\ surfaces \subseteq Surfaces
  /\ \A surface \in surfaces : surface.asked <= now /\ surface.observed <= now

BaselineRows ==
  [config : Configs, evaluated : Times, source : TimesOrNone, surface : Surfaces]

NoLateEvidence(c, row) ==
  /\ row.source <= known[c]
  /\ row.surface.asked <= known[c] /\ row.surface.observed <= known[c]

\* Nothing exists of a candidate before it is known, and no two rows are of the same
\* configuration.
BaselineInv ==
  /\ baselines \in [Candidates -> Seq(BaselineRows)]
  /\ \A c \in Candidates : known[c] = Unknown => baselines[c] = <<>>
  /\ \A c \in Candidates : \A i, j \in DOMAIN baselines[c] :
       baselines[c][i].config = baselines[c][j].config => i = j
  /\ BaselineHasNoLookAhead

\* What is evaluated and not committed: a row of a configuration that has none.
DraftInv ==
  /\ drafts \subseteq [candidate : Candidates, config : Configs, evaluated : Times,
                       source : TimesOrNone, surface : Surfaces]
  /\ \A draft \in drafts :
       /\ known[draft.candidate] # Unknown
       /\ draft.evaluated <= now
       /\ NoLateEvidence(draft.candidate, draft)
       /\ \A i \in DOMAIN baselines[draft.candidate] :
            baselines[draft.candidate][i].config # draft.config
       /\ \A other \in drafts :
            other.candidate = draft.candidate /\ other.config = draft.config => other = draft

Execution == [evaluated : Nat, baselines : [Candidates -> Seq(BaselineRows)],
              read : BOOLEAN, payloads : SUBSET Payloads, actions : SUBSET ScaleChanges,
              overtaken : BOOLEAN]

\* The rows are the first of the others.
IsInitial(rows, others) ==
  \A i \in DOMAIN rows : i \in DOMAIN others /\ others[i] = rows[i]

\* An execution has read the baselines that were committed first.
RunInv ==
  \A r \in Running :
    /\ run[r] \in Execution
    /\ \A c \in Candidates : IsInitial(run[r].baselines[c], baselines[c])

\* What a sample keeps of the rows that it was built from: no row committed before its
\* baseline precedes it.  Whether the close of its day was known may change.
Kept(c, sample) ==
  /\ known[c] # Unknown
  /\ \E baseline \in {NoBaseline} \union DOMAIN baselines[c], reference \in Sessions :
       /\ sample = [validity |-> IF baseline = NoBaseline THEN "INVALID_SAMPLE" ELSE "VALID",
                    baseline |-> baseline,
                    reference |-> reference, t1 |-> FirstForward(known[c]),
                    primary |-> baseline # NoBaseline /\ c \in Scheduled]
       /\ \A i \in DOMAIN baselines[c] :
            i < baseline => ~Precedes(baselines[c][i], baselines[c][baseline])
       /\ ClosesAt(reference) <= known[c]
       /\ IF AfterClose(known[c])
          THEN reference \in {MarketDate(known[c]), Previous(MarketDate(known[c]))}
          ELSE reference = Previous(MarketDate(known[c]))

SampleInv ==
  /\ samples = [c \in Candidates |-> samples[c]]
  /\ \A c \in Candidates : samples[c] # NoSample => Kept(c, samples[c])

IInv ==
  /\ ClockInv /\ EvidenceInv /\ CaptureInv
  /\ BaselineInv /\ DraftInv /\ RunInv /\ SampleInv

-------------------------------------------------------------------------------
(***************************************************************************)
(* What the measurements rest on is invariant given IInv: the order of the *)
(* first knowledge and of the executions' readings of the clock.           *)
(***************************************************************************)

\* How many payloads there are.
RowsInv ==
  IsFiniteSet(pending \union raw) /\ Cardinality(pending \union raw) <= MaxPayloads

\* What was read of the clock is in the past, and no two candidates read the same.
OrderInv ==
  /\ \A r \in Running : run[r].evaluated < now
  /\ \A c \in Occurred : known[c] < now
  /\ \A c, d \in Occurred : known[c] = known[d] => c = d

\* Samples are made in the order of the first knowledge.
ClosedInv ==
  \A c, d \in Occurred : samples[c] # NoSample /\ known[d] < known[c] => samples[d] # NoSample

\* No eligible sample of its window was known before c.
FirstOfWindow(c) ==
  \A d \in Candidates :
    /\ samples[d] # NoSample /\ samples[d].primary
    /\ WindowKey(samples[d]) = WindowKey(samples[c])
    => known[c] <= known[d]

\* The horizon of c had closed for every execution that can still commit first.
HasClosed(c, h) ==
  /\ ClosesAt(TargetSession(samples[c], h)) <= now
  /\ \A r \in Running : ~run[r].overtaken =>
       ClosesAt(TargetSession(samples[c], h)) <= run[r].evaluated

Mature == {"MATURE_AVAILABLE", "MATURE_MISSING_DATA", "CORPORATE_ACTION_CONTAMINATED"}

MeasuredInv ==
  \A c \in Candidates, h \in Horizons :
    /\ measured[c][h].state \in Mature \union Immature \union {"INVALID_SAMPLE"}
    /\ measured[c][h].state = "NONE" <=> samples[c] = NoSample
    /\ measured[c][h].state = "INVALID_SAMPLE" <=> samples[c].validity = "INVALID_SAMPLE"
    /\ measured[c][h].state = "MATURE_AVAILABLE" /\ measured[c][h].primary =>
         samples[c].primary /\ FirstOfWindow(c)
    /\ measured[c][h].state \in Mature => HasClosed(c, h)

MoreInv == RowsInv /\ OrderInv /\ ClosedInv /\ MeasuredInv

-------------------------------------------------------------------------------
(***************************************************************************)
(* Lemmas about the steps.                                                 *)
(***************************************************************************)

LEMMA NumberedRows ==
  \A row \in BaselineRows : row.evaluated \in Nat /\ row.config \in Nat
<1>1. Configs \subseteq Nat /\ Times \subseteq Nat
  BY CalendarAssumption DEF Times
<1> QED
  BY <1>1 DEF BaselineRows

LEMMA LeastNumber ==
  ASSUME NEW T, T \subseteq Nat, T # {}
  PROVE  \E x \in T : \A y \in T : x <= y
<1> DEFINE Less == OpToRel(<, Nat)
<1>1. IsWellFoundedOn(Less, Nat)
  BY NatLessThanWellFounded
<1>2. PICK x \in T : \A y \in T : ~(<<y, x>> \in Less)
  <2> HIDE DEF Less
  <2> QED
    BY <1>1, WFMin
<1>3. \A y \in T : y \in Nat /\ x \in Nat /\ ~(y < x)
  BY <1>2 DEF OpToRel
<1> QED
  BY <1>3

\* Of the baselines of a candidate one was evaluated first (_select_frozen_baseline).
LEMMA FirstBaseline ==
  ASSUME NEW rows \in Seq(BaselineRows), rows # <<>>
  PROVE  /\ FrozenBaseline(rows) \in DOMAIN rows
         /\ \A j \in DOMAIN rows : ~Precedes(rows[j], rows[FrozenBaseline(rows)])
<1>1. /\ DOMAIN rows # {}
      /\ \A i \in DOMAIN rows : rows[i].evaluated \in Nat /\ rows[i].config \in Nat
  <2>1. DOMAIN rows # {}
    <3>1. Len(rows) \in Nat /\ Len(rows) # 0 /\ DOMAIN rows = 1..Len(rows)
      BY EmptySeq, LenProperties
    <3> QED
      BY <3>1
  <2>2. \A i \in DOMAIN rows : rows[i] \in BaselineRows
    OBVIOUS
  <2> QED
    BY <2>1, <2>2, NumberedRows
<1> DEFINE evaluations == {rows[i].evaluated : i \in DOMAIN rows}
<1>2. PICK e \in evaluations : \A y \in evaluations : e <= y
  <2>1. evaluations \subseteq Nat /\ evaluations # {}
    BY <1>1
  <2> HIDE DEF evaluations
  <2> QED
    BY <2>1, LeastNumber
<1> DEFINE configs == {rows[i].config : i \in {n \in DOMAIN rows : rows[n].evaluated = e}}
<1>3. PICK k \in configs : \A y \in configs : k <= y
  <2>1. configs \subseteq Nat /\ configs # {}
    BY <1>1, <1>2
  <2> HIDE DEF configs
  <2> QED
    BY <2>1, LeastNumber
<1>4. PICK i \in DOMAIN rows : rows[i].evaluated = e /\ rows[i].config = k
  BY <1>3
<1>5. ASSUME NEW j \in DOMAIN rows PROVE ~Precedes(rows[j], rows[i])
  <2>1. e <= rows[j].evaluated
    BY <1>2
  <2>2. rows[j].evaluated = e => k <= rows[j].config
    BY <1>3
  <2> QED
    BY <1>1, <1>4, <2>1, <2>2 DEF Precedes
<1> QED
  BY <1>4, <1>5 DEF FrozenBaseline

\* A baseline's evidence was received, asked for and observed by its cutoff
\* (_archived_source_bundle, best_archived_surface_at_or_before).
LEMMA EvidenceByCutoff ==
  ASSUME EvidenceInv, CaptureInv, NEW cutoff \in Nat
  PROVE  /\ Source(cutoff) \in TimesOrNone /\ Source(cutoff) <= cutoff
         /\ Surface(cutoff) \in Surfaces
         /\ Surface(cutoff).asked <= cutoff /\ Surface(cutoff).observed <= cutoff
<1>1. Source(cutoff) \in TimesOrNone /\ Source(cutoff) <= cutoff
  <2>1. CASE \E payload \in raw : IsLatest(payload, cutoff)
    <3>1. PICK payload \in raw : IsLatest(payload, cutoff) /\ Source(cutoff) = payload.received
      BY <2>1 DEF Source
    <3> QED
      BY <3>1 DEF IsLatest, EvidenceInv, Payloads, TimesOrNone
  <2>2. CASE ~\E payload \in raw : IsLatest(payload, cutoff)
    BY <2>2 DEF Source, NoSource, TimesOrNone, Unknown
  <2> QED
    BY <2>1, <2>2
<1>2. /\ Surface(cutoff) \in Surfaces
      /\ Surface(cutoff).asked <= cutoff /\ Surface(cutoff).observed <= cutoff
  <2>1. CASE \E surface \in surfaces : IsBestSurface(surface, cutoff)
    <3>1. PICK surface \in surfaces :
            IsBestSurface(surface, cutoff) /\ Surface(cutoff) = surface
      BY <2>1 DEF Surface
    <3> QED
      BY <3>1 DEF IsBestSurface, CaptureInv
  <2>2. CASE ~\E surface \in surfaces : IsBestSurface(surface, cutoff)
    <3>1. Surface(cutoff) = NoSurface
      BY <2>2 DEF Surface
    <3> QED
      BY <3>1 DEF NoSurface, Surfaces, TimesOrNone, Unknown
  <2> QED
    BY <2>1, <2>2
<1> QED
  BY <1>1, <1>2

\* The foundation of a candidate keeps what Kept says, whatever payloads were read, if the
\* rows that were read are the first of its baselines.
LEMMA FoundationKept ==
  ASSUME NEW c \in Occurred, known[c] \in Times, NEW payloads,
         NEW rows \in Seq(BaselineRows), baselines[c] \in Seq(BaselineRows),
         IsInitial(rows, baselines[c])
  PROVE  Kept(c, Foundation(c, rows, payloads))
<1> DEFINE baseline == FrozenBaseline(rows)
           reference == Reference(payloads, known[c])
           day == MarketDate(known[c])
<1>1. baseline \in {NoBaseline} \union DOMAIN baselines[c]
  BY FirstBaseline DEF FrozenBaseline, NoBaseline, IsInitial
<1>2. ASSUME NEW i \in DOMAIN baselines[c], i < baseline
      PROVE  ~Precedes(baselines[c][i], baselines[c][baseline])
  <2>1. rows # <<>>
    BY <1>2 DEF FrozenBaseline, NoBaseline
  <2>2. baseline \in DOMAIN rows /\ \A j \in DOMAIN rows : ~Precedes(rows[j], rows[baseline])
    BY <2>1, FirstBaseline
  <2> HIDE DEF baseline
  <2>3. i \in DOMAIN rows
    BY <1>2, <2>2
  <2> QED
    BY <2>2, <2>3 DEF IsInitial
<1>3. Previous(day) \in Sessions
  BY Calendar DEF IsPrevious
<1>4. /\ reference \in Sessions
      /\ IF AfterClose(known[c]) THEN reference \in {day, Previous(day)}
         ELSE reference = Previous(day)
  BY <1>3 DEF Reference, AfterClose
<1>5. ClosesAt(reference) <= known[c]
  BY PlanSpansKnowledge
<1>6. known[c] # Unknown
  BY DEF Occurred
<1>7. Foundation(c, rows, payloads) =
        [validity |-> IF baseline = NoBaseline THEN "INVALID_SAMPLE" ELSE "VALID",
         baseline |-> baseline,
         reference |-> reference, t1 |-> FirstForward(known[c]),
         primary |-> baseline # NoBaseline /\ c \in Scheduled]
  BY DEF Foundation
<1> QED
  BY <1>1, <1>2, <1>4, <1>5, <1>6, <1>7 DEF Kept

\* A step that keeps the first knowledge, and only adds baselines at the end, keeps Kept.
LEMMA KeptStable ==
  ASSUME NEW c \in Candidates, NEW sample, Kept(c, sample), known'[c] = known[c],
         baselines[c] \in Seq(BaselineRows), baselines'[c] \in Seq(BaselineRows),
         IsInitial(baselines[c], baselines'[c])
  PROVE  Kept(c, sample)'
<1>1. PICK baseline \in {NoBaseline} \union DOMAIN baselines[c], reference \in Sessions :
       /\ sample = [validity |-> IF baseline = NoBaseline THEN "INVALID_SAMPLE" ELSE "VALID",
                    baseline |-> baseline,
                    reference |-> reference, t1 |-> FirstForward(known[c]),
                    primary |-> baseline # NoBaseline /\ c \in Scheduled]
       /\ \A i \in DOMAIN baselines[c] :
            i < baseline => ~Precedes(baselines[c][i], baselines[c][baseline])
       /\ ClosesAt(reference) <= known[c]
       /\ IF AfterClose(known[c])
          THEN reference \in {MarketDate(known[c]), Previous(MarketDate(known[c]))}
          ELSE reference = Previous(MarketDate(known[c]))
  BY DEF Kept
<1>2. baseline \in {NoBaseline} \union DOMAIN baselines'[c]
  BY DEF IsInitial
<1>3. ASSUME NEW i \in DOMAIN baselines'[c], i < baseline
      PROVE  ~Precedes(baselines'[c][i], baselines'[c][baseline])
  <2>1. baseline \in DOMAIN baselines[c]
    BY <1>1, <1>3 DEF NoBaseline
  <2>2. i \in DOMAIN baselines[c]
    BY <1>3, <2>1
  <2> QED
    BY <1>1, <1>3, <2>1, <2>2 DEF IsInitial
<1>4. known'[c] # Unknown
  BY DEF Kept
<1> QED
  BY <1>1, <1>2, <1>3, <1>4 DEF Kept, Precedes, FirstForward, AfterClose, ClosesAt, Start, MarketDate

-------------------------------------------------------------------------------
(***************************************************************************)
(* The invariant is inductive.                                             *)
(***************************************************************************)

LEMMA InitIInv == ASSUME Init PROVE IInv
<1>1. ClockInv /\ EvidenceInv
  BY CalendarAssumption DEF Init, ClockInv, EvidenceInv, Times
<1>2. CaptureInv
  BY CalendarAssumption DEF Init, CaptureInv, TimesOrNone, Unknown, Times
<1>3. BaselineInv
  BY DEF Init, BaselineInv, BaselineHasNoLookAhead
<1>4. DraftInv
  BY DEF Init, DraftInv
<1>5. RunInv /\ SampleInv
  BY DEF Init, RunInv, Running, SampleInv
<1> QED
  BY <1>1, <1>2, <1>3, <1>4, <1>5 DEF IInv

LEMMA CaptureKept ==
  ASSUME CaptureInv, UNCHANGED captures, now \in Nat, now' \in Nat, now <= now'
  PROVE  CaptureInv'
<1>1. TimesOrNone \subseteq Nat
  BY CalendarAssumption DEF TimesOrNone, Unknown, Times
<1>2. asking' = asking /\ surfaces' = surfaces
  BY DEF captures
<1>3. \A surface \in surfaces : surface.asked \in Nat /\ surface.observed \in Nat
  BY <1>1 DEF CaptureInv, Surfaces
<1> QED
  BY <1>1, <1>2, <1>3 DEF CaptureInv

\* The baselines stay as they are; candidates may be added.
LEMMA ContextsKept ==
  ASSUME ClockInv, BaselineInv, DraftInv, UNCHANGED contexts,
         \A c \in Candidates : known[c] # Unknown => known'[c] = known[c],
         now' \in Nat, now <= now'
  PROVE  BaselineInv' /\ DraftInv'
<1>1. BaselineInv'
  <2>1. /\ baselines' \in [Candidates -> Seq(BaselineRows)]
        /\ \A c \in Candidates : known'[c] = Unknown => baselines'[c] = <<>>
        /\ \A c \in Candidates : \A i, j \in DOMAIN baselines'[c] :
             baselines'[c][i].config = baselines'[c][j].config => i = j
    BY DEF BaselineInv, contexts
  <2>2. ASSUME NEW c \in Candidates, NEW i \in DOMAIN baselines[c]
        PROVE  NoLateEvidence(c, baselines[c][i])'
    <3>1. known'[c] = known[c]
      BY <2>2 DEF BaselineInv
    <3> QED
      BY <2>2, <3>1 DEF BaselineInv, BaselineHasNoLookAhead, NoLateEvidence, contexts
  <2> QED
    BY <2>1, <2>2 DEF BaselineInv, BaselineHasNoLookAhead, NoLateEvidence, contexts
<1>2. DraftInv'
  <2>1. now \in Nat /\ \A draft \in drafts : draft.evaluated \in Nat
    BY TimesAreNumbers DEF ClockInv, DraftInv
  <2>2. \A draft \in drafts :
          known'[draft.candidate] = known[draft.candidate] /\ draft.evaluated <= now'
    BY <2>1 DEF DraftInv
  <2> QED
    BY <2>2 DEF DraftInv, NoLateEvidence, contexts
<1> QED
  BY <1>1, <1>2

\* The samples stay as they are, and the first knowledge of those that have one.
LEMMA SamplesKept ==
  ASSUME BaselineInv, BaselineInv', SampleInv, UNCHANGED samples,
         \A c \in Candidates : IsInitial(baselines[c], baselines'[c]),
         \A c \in Candidates : known[c] # Unknown => known'[c] = known[c]
  PROVE  SampleInv'
<1>1. ASSUME NEW c \in Candidates, samples[c] # NoSample PROVE Kept(c, samples[c])'
  <2>1. Kept(c, samples[c]) /\ known[c] # Unknown
    BY <1>1 DEF SampleInv, Kept
  <2>2. baselines[c] \in Seq(BaselineRows) /\ baselines'[c] \in Seq(BaselineRows)
    BY DEF BaselineInv
  <2> QED
    BY <2>1, <2>2, KeptStable
<1> QED
  BY <1>1 DEF SampleInv

\* The executions stay as they are.
LEMMA RunsKept ==
  ASSUME RunInv, BaselineInv, BaselineInv', UNCHANGED run,
         \A c \in Candidates : IsInitial(baselines[c], baselines'[c])
  PROVE  RunInv'
<1>1. Running' = Running
  BY DEF Running
<1>2. ASSUME NEW r \in Running, NEW c \in Candidates
      PROVE  IsInitial(run[r].baselines[c], baselines'[c])
  BY DEF RunInv, IsInitial
<1> QED
  BY <1>1, <1>2 DEF RunInv, IsInitial

\* Most steps leave the candidates, their baselines and their samples alone.
LEMMA Untouched ==
  ASSUME IInv, UNCHANGED <<known, contexts, samples, run>>,
         now' \in Times, now <= now', EvidenceInv', CaptureInv'
  PROVE  IInv'
<1>1. ClockInv'
  BY DEF IInv, ClockInv
<1>2. BaselineInv' /\ DraftInv'
  BY ContextsKept, TimesAreNumbers DEF IInv
<1>3. \A c \in Candidates : IsInitial(baselines[c], baselines'[c])
  BY DEF IsInitial, contexts
<1>4. RunInv' /\ SampleInv'
  BY <1>2, <1>3, RunsKept, SamplesKept DEF IInv
<1> QED
  BY <1>1, <1>2, <1>4 DEF IInv

LEMMA ClockMoves ==
  ASSUME now \in Times, PassHalfDay \/ ReadClock
  PROVE  now' \in Times /\ now' \in Nat /\ now < now'
<1>1. now \in Nat /\ HalfDay \in Nat /\ HalfDay > 0
  BY CalendarAssumption, TimesAreNumbers
<1>2. CASE ReadClock
  BY <1>1, <1>2 DEF ReadClock
<1>3. CASE PassHalfDay
  <2> DEFINE q == now \div HalfDay
  <2>1. q \in Nat /\ q * HalfDay <= now /\ now < q * HalfDay + HalfDay
    BY <1>1
  <2>2. (q + 1) * HalfDay = q * HalfDay + HalfDay
    BY <1>1, <2>1
  <2>3. now' = (q + 1) * HalfDay /\ now' \in Times
    BY <1>3 DEF PassHalfDay
  <2> QED
    BY <2>1, <2>2, <2>3, TimesAreNumbers
<1> QED
  BY <1>2, <1>3

\* A baseline is evaluated from evidence of its cutoff; a draft is added.
LEMMA CreateKeeps ==
  ASSUME IInv, NEW c \in Candidates, NEW config \in Configs, CreateBaseline(c, config)
  PROVE  IInv'
<1> USE DEF IInv
<1> DEFINE draft == [candidate |-> c, config |-> config, evaluated |-> now,
                     source |-> Source(known[c]), surface |-> Surface(known[c])]
           Drafts == [candidate : Candidates, config : Configs, evaluated : Times,
                      source : TimesOrNone, surface : Surfaces]
<1>1. /\ c \in Occurred /\ drafts' = drafts \union {draft}
      /\ \A i \in DOMAIN baselines[c] : baselines[c][i].config # config
      /\ \A other \in drafts : <<other.candidate, other.config>> # <<c, config>>
      /\ UNCHANGED <<now, known, baselines, captures, pending, raw, actions, samples, run>>
  BY DEF CreateBaseline, PersistEvaluation, Cutoff
<1>2. now \in Times /\ now \in Nat /\ known[c] \in Nat /\ known[c] # Unknown
  BY <1>1, TimesAreNumbers DEF ClockInv, Occurred
<1>3. draft \in Drafts /\ NoLateEvidence(c, draft)
  BY <1>2, EvidenceByCutoff DEF ClockInv, NoLateEvidence
<1>4. DraftInv'
  <2>1. drafts' \subseteq Drafts
    BY <1>1, <1>3 DEF DraftInv
  <2>2. ASSUME NEW d \in drafts'
        PROVE  /\ known'[d.candidate] # Unknown
               /\ d.evaluated <= now'
               /\ NoLateEvidence(d.candidate, d)'
               /\ \A i \in DOMAIN baselines'[d.candidate] :
                    baselines'[d.candidate][i].config # d.config
               /\ \A other \in drafts' :
                    other.candidate = d.candidate /\ other.config = d.config => other = d
    <3>1. CASE d = draft
      <4>1. /\ d.candidate = c /\ d.config = config /\ d.evaluated = now
        BY <3>1
      <4>2. NoLateEvidence(c, d)'
        BY <1>1, <1>3, <3>1 DEF NoLateEvidence
      <4> HIDE DEF draft
      <4> QED
        BY <1>1, <1>2, <3>1, <4>1, <4>2
    <3>2. CASE d \in drafts
      <4>1. draft.candidate = c /\ draft.config = config
        OBVIOUS
      <4>2. <<d.candidate, d.config>> # <<c, config>>
        BY <1>1, <3>2
      <4> HIDE DEF draft
      <4> QED
        BY <1>1, <3>2, <4>1, <4>2 DEF DraftInv, NoLateEvidence
    <3> QED
      BY <1>1, <2>2, <3>1, <3>2
  <2> HIDE DEF draft
  <2> QED
    BY <2>1, <2>2 DEF DraftInv
<1>5. ClockInv' /\ EvidenceInv' /\ CaptureInv' /\ BaselineInv'
  BY <1>1 DEF ClockInv, EvidenceInv, CaptureInv, captures, BaselineInv, BaselineHasNoLookAhead
<1>6. \A d \in Candidates : IsInitial(baselines[d], baselines'[d])
  BY <1>1 DEF IsInitial
<1>7. RunInv' /\ SampleInv'
  BY <1>1, <1>5, <1>6, RunsKept, SamplesKept
<1> QED
  BY <1>4, <1>5, <1>7

\* A draft is committed: its row is added at the end.
LEMMA CommitKeeps ==
  ASSUME IInv, NEW draft \in drafts, CommitBaseline(draft)
  PROVE  IInv'
<1> USE DEF IInv
<1> DEFINE c == draft.candidate
           row == [config |-> draft.config, evaluated |-> draft.evaluated,
                   source |-> draft.source, surface |-> draft.surface]
<1>1. /\ drafts' = drafts \ {draft}
      /\ baselines' = [baselines EXCEPT ![c] = Append(@, row)]
      /\ UNCHANGED <<now, known, captures, pending, raw, actions, samples, run>>
  BY DEF CommitBaseline
<1>2. /\ c \in Candidates /\ row \in BaselineRows /\ NoLateEvidence(c, row)
      /\ known[c] # Unknown
      /\ \A i \in DOMAIN baselines[c] : baselines[c][i].config # row.config
  BY DEF DraftInv, BaselineRows, NoLateEvidence
<1> DEFINE n == Len(baselines[c]) + 1
<1>3. /\ baselines[c] \in Seq(BaselineRows) /\ baselines'[c] = Append(baselines[c], row)
      /\ \A d \in Candidates : d # c => baselines'[d] = baselines[d]
  BY <1>1, <1>2 DEF BaselineInv
<1>4. /\ baselines'[c] \in Seq(BaselineRows)
      /\ DOMAIN baselines'[c] = DOMAIN baselines[c] \union {n} /\ n \notin DOMAIN baselines[c]
      /\ baselines'[c][n] = row
      /\ \A i \in DOMAIN baselines[c] : baselines'[c][i] = baselines[c][i]
  <2> HIDE DEF c, row
  <2> QED
    BY <1>2, <1>3
<1>5. BaselineInv'
  <2>1. baselines' \in [Candidates -> Seq(BaselineRows)]
    <3> HIDE DEF c, row, n
    <3> QED
      BY <1>1, <1>3, <1>4 DEF BaselineInv
  <2>2. \A d \in Candidates : known'[d] = Unknown => baselines'[d] = <<>>
    <3> HIDE DEF c, row, n
    <3> QED
      BY <1>1, <1>2, <1>3 DEF BaselineInv
  <2>3. ASSUME NEW d \in Candidates
        PROVE  /\ \A i, j \in DOMAIN baselines'[d] :
                    baselines'[d][i].config = baselines'[d][j].config => i = j
               /\ \A i \in DOMAIN baselines'[d] : NoLateEvidence(d, baselines'[d][i])
    <3> HIDE DEF c, row, n
    <3>1. CASE d = c
      BY <1>2, <1>4, <3>1 DEF BaselineInv, BaselineHasNoLookAhead, NoLateEvidence
    <3>2. CASE d # c
      BY <1>3, <3>2 DEF BaselineInv, BaselineHasNoLookAhead, NoLateEvidence
    <3> QED
      BY <3>1, <3>2
  <2> HIDE DEF c, row, n
  <2> QED
    BY <1>1, <2>1, <2>2, <2>3 DEF BaselineInv, BaselineHasNoLookAhead, NoLateEvidence
<1>6. DraftInv'
  <2>1. ASSUME NEW d \in drafts'
        PROVE  \A i \in DOMAIN baselines'[d.candidate] :
                 baselines'[d.candidate][i].config # d.config
    <3>0. d \in drafts /\ d # draft
      BY <1>1
    <3>1. CASE d.candidate = c
      <4>1. d.config # row.config
        BY <3>0, <3>1 DEF DraftInv
      <4>2. \A i \in DOMAIN baselines[d.candidate] : baselines[d.candidate][i].config # d.config
        BY <3>0 DEF DraftInv
      <4> HIDE DEF c, row, n
      <4>3. ASSUME NEW i \in DOMAIN baselines'[c] PROVE baselines'[c][i].config # d.config
        <5>1. CASE i = n
          BY <1>4, <4>1, <5>1
        <5>2. CASE i \in DOMAIN baselines[c]
          BY <1>4, <3>1, <4>2, <5>2
        <5> QED
          BY <1>4, <5>1, <5>2
      <4> QED
        BY <3>1, <4>3
    <3>2. CASE d.candidate # c
      <4> HIDE DEF c, row, n
      <4> QED
        BY <1>3, <3>0, <3>2 DEF DraftInv
    <3> QED
      BY <3>1, <3>2
  <2> HIDE DEF c, row, n
  <2> QED
    BY <1>1, <2>1 DEF DraftInv, NoLateEvidence
<1>7. ClockInv' /\ EvidenceInv' /\ CaptureInv'
  BY <1>1 DEF ClockInv, EvidenceInv, CaptureInv, captures
<1>8. \A d \in Candidates : IsInitial(baselines[d], baselines'[d])
  <2> HIDE DEF c, row, n
  <2> QED
    BY <1>3, <1>4 DEF IsInitial
<1>9. RunInv' /\ SampleInv'
  BY <1>1, <1>5, <1>8, RunsKept, SamplesKept
<1> QED
  BY <1>5, <1>6, <1>7, <1>9

\* A draft is dropped.
LEMMA LoseKeeps ==
  ASSUME IInv, NEW draft \in drafts, LoseBaseline(draft)
  PROVE  IInv'
<1> USE DEF IInv
<1>1. /\ drafts' \subseteq drafts
      /\ UNCHANGED <<now, known, baselines, captures, pending, raw, actions, samples, run>>
  BY DEF LoseBaseline
<1>2. ClockInv' /\ EvidenceInv' /\ CaptureInv' /\ BaselineInv'
  BY <1>1 DEF ClockInv, EvidenceInv, CaptureInv, captures, BaselineInv, BaselineHasNoLookAhead
<1>3. DraftInv'
  BY <1>1 DEF DraftInv, NoLateEvidence
<1>4. \A d \in Candidates : IsInitial(baselines[d], baselines'[d])
  BY <1>1 DEF IsInitial
<1>5. RunInv' /\ SampleInv'
  BY <1>1, <1>2, <1>4, RunsKept, SamplesKept
<1> QED
  BY <1>2, <1>3, <1>5

\* A surface is committed after it was asked for and observed.
LEMMA SurfaceKeeps ==
  ASSUME IInv, AskSurface \/ ReceiveSurface \/ LoseSurface
  PROVE  CaptureInv'
<1>0. now \in Times /\ now \in Nat /\ 0 <= now
  BY TimesAreNumbers DEF IInv, ClockInv
<1>1. CASE AskSurface
  BY <1>0, <1>1 DEF AskSurface, IInv, CaptureInv, TimesOrNone
<1>2. CASE ReceiveSurface
  <2>1. PICK observed \in {asking, now} :
          surfaces' = surfaces \union {[asked |-> asking, observed |-> observed]}
    BY <1>2 DEF ReceiveSurface
  <2> DEFINE new == [asked |-> asking, observed |-> observed]
  <2>2. new \in Surfaces /\ new.asked <= now /\ new.observed <= now
    BY <1>0, <2>1 DEF IInv, CaptureInv, Surfaces, TimesOrNone
  <2>3. asking' = 0 /\ now' = now
    BY <1>2 DEF ReceiveSurface, Unknown
  <2> HIDE DEF new
  <2> QED
    BY <1>0, <2>1, <2>2, <2>3 DEF IInv, CaptureInv, TimesOrNone, Unknown, new
<1>3. CASE LoseSurface
  BY <1>0, <1>3 DEF LoseSurface, IInv, CaptureInv, TimesOrNone, Unknown
<1> QED
  BY <1>1, <1>2, <1>3

LEMMA NextIInv == ASSUME IInv, [Next]_vars PROVE IInv'
<1> USE DEF IInv
<1>0. /\ now \in Times /\ now \in Nat /\ now <= now
      /\ \A c \in Occurred : known[c] \in Times /\ known[c] \in Nat
  BY TimesAreNumbers DEF ClockInv, Occurred
<1>a. \A c \in Candidates : UNCHANGED baselines => IsInitial(baselines[c], baselines'[c])
  BY DEF IsInitial
<1>1. CASE PassHalfDay
  <2>1. now' \in Times /\ now' \in Nat /\ now <= now'
    BY <1>0, <1>1, ClockMoves
  <2>2. EvidenceInv' /\ CaptureInv'
    BY <1>0, <1>1, <2>1, CaptureKept DEF PassHalfDay, EvidenceInv
  <2> QED
    BY <1>1, <2>1, <2>2, Untouched DEF PassHalfDay
<1>2. CASE ReceivePayload
  <2>1. PICK answer \in Answers(now) : pending' = pending \union {answer}
    BY <1>2 DEF ReceivePayload
  <2>2. answer \in Payloads
    BY <1>0, <2>1 DEF Answers, Payloads
  <2>3. now' \in Times /\ now' \in Nat /\ now <= now'
    BY <1>0, <1>2, ClockMoves DEF ReceivePayload
  <2>4. EvidenceInv' /\ CaptureInv'
    BY <1>0, <1>2, <2>1, <2>2, <2>3, CaptureKept DEF ReceivePayload, EvidenceInv
  <2> QED
    BY <1>2, <2>3, <2>4, Untouched DEF ReceivePayload
<1>3. ASSUME NEW c \in Candidates, MakeCandidate(c) PROVE IInv'
  <2>1. /\ known' = [known EXCEPT ![c] = now] /\ known[c] = Unknown
        /\ UNCHANGED <<contexts, captures, pending, raw, actions, samples, run>>
    BY <1>3 DEF MakeCandidate
  <2>2. now' \in Times /\ now' \in Nat /\ now <= now'
    BY <1>0, <1>3, ClockMoves DEF MakeCandidate
  <2>3. ClockInv' /\ EvidenceInv' /\ CaptureInv'
    BY <1>0, <2>1, <2>2, CaptureKept DEF ClockInv, EvidenceInv
  <2>4. \A d \in Candidates : known[d] # Unknown => known'[d] = known[d]
    BY <2>1 DEF ClockInv
  <2>5. BaselineInv' /\ DraftInv'
    BY <2>1, <2>2, <2>4, <1>0, ContextsKept
  <2>6. RunInv' /\ SampleInv'
    BY <1>a, <2>1, <2>4, <2>5, RunsKept, SamplesKept DEF contexts
  <2> QED
    BY <2>3, <2>5, <2>6
<1>4. ASSUME NEW c \in Candidates, NEW config \in Configs, CreateBaseline(c, config)
      PROVE  IInv'
  BY <1>4, CreateKeeps
<1>5. ASSUME NEW d \in drafts, CommitBaseline(d) PROVE IInv'
  BY <1>5, CommitKeeps
<1>6. ASSUME NEW d \in drafts, LoseBaseline(d) PROVE IInv'
  BY <1>6, LoseKeeps
<1>7. CASE AskSurface \/ ReceiveSurface \/ LoseSurface
  <2>1. /\ UNCHANGED <<now, known, contexts, pending, raw, actions, samples, run>>
    BY <1>7 DEF AskSurface, ReceiveSurface, LoseSurface
  <2>2. EvidenceInv' /\ CaptureInv'
    BY <1>7, <2>1, SurfaceKeeps DEF EvidenceInv
  <2> QED
    BY <1>0, <2>1, <2>2, Untouched
<1>8. ASSUME NEW p \in pending, CommitPayload(p) \/ LosePayload(p) PROVE IInv'
  <2>1. /\ UNCHANGED <<now, known, contexts, captures, actions, samples, run>>
        /\ pending' \union raw' \subseteq pending \union raw
    BY <1>8 DEF CommitPayload, LosePayload
  <2>2. EvidenceInv' /\ CaptureInv'
    BY <1>0, <2>1, CaptureKept DEF EvidenceInv
  <2> QED
    BY <1>0, <2>1, <2>2, Untouched
<1>9. ASSUME NEW s \in ScaleChanges, RecordAction(s) PROVE IInv'
  <2>1. /\ UNCHANGED <<now, known, contexts, captures, pending, raw, samples, run>>
        /\ actions' \subseteq actions \union {s}
    BY <1>9 DEF RecordAction
  <2>2. EvidenceInv' /\ CaptureInv'
    BY <1>0, <2>1, CaptureKept DEF EvidenceInv
  <2> QED
    BY <1>0, <2>1, <2>2, Untouched
\* The steps of an execution leave what it reads alone.
<1>b. ASSUME UNCHANGED <<known, contexts, captures, pending, raw, actions>>,
             now' \in Times, now' \in Nat, now <= now'
      PROVE  ClockInv' /\ EvidenceInv' /\ CaptureInv' /\ BaselineInv' /\ DraftInv'
  BY <1>0, <1>b, CaptureKept, ContextsKept DEF ClockInv, EvidenceInv
<1>10. ASSUME NEW r \in Runners, Begin(r) PROVE IInv'
  <2>1. /\ UNCHANGED <<known, contexts, captures, pending, raw, actions, samples>>
        /\ run' = [run EXCEPT ![r] =
             [evaluated |-> now, baselines |-> baselines, read |-> FALSE,
              payloads |-> {}, actions |-> {}, overtaken |-> FALSE]]
        /\ now' \in Times /\ now' \in Nat /\ now <= now'
    BY <1>0, <1>10, ClockMoves DEF Begin
  <2>2. ClockInv' /\ EvidenceInv' /\ CaptureInv' /\ BaselineInv' /\ DraftInv'
    BY <1>b, <2>1
  <2>3. RunInv'
    <3>1. ASSUME NEW o \in Running'
          PROVE  /\ run'[o] \in Execution
                 /\ \A c \in Candidates : IsInitial(run'[o].baselines[c], baselines'[c])
      <4>1. CASE o = r /\ r \in DOMAIN run
        <5>1. run'[o] = [evaluated |-> now, baselines |-> baselines, read |-> FALSE,
                         payloads |-> {}, actions |-> {}, overtaken |-> FALSE]
          BY <2>1, <4>1
        <5>2. run'[o] \in Execution
          BY <1>0, <5>1 DEF Execution, BaselineInv
        <5>3. run'[o].baselines = baselines /\ baselines' = baselines
          BY <2>1, <5>1 DEF contexts
        <5> QED
          BY <1>a, <5>2, <5>3
      <4>2. CASE ~(o = r /\ r \in DOMAIN run)
        <5>1. o \in Running /\ run'[o] = run[o]
          BY <2>1, <3>1, <4>2 DEF Running
        <5> QED
          BY <2>1, <5>1 DEF RunInv, contexts
      <4> QED
        BY <4>1, <4>2
    <3> QED
      BY <3>1 DEF RunInv
  <2>4. SampleInv'
    BY <1>a, <2>1, <2>2, SamplesKept DEF contexts
  <2> QED
    BY <2>2, <2>3, <2>4
<1>11. ASSUME NEW r \in Runners, ReadInputs(r) PROVE IInv'
  <2>1. /\ UNCHANGED <<now, known, contexts, captures, pending, raw, actions, samples>>
        /\ r \in Running
        /\ run' = [run EXCEPT ![r] =
             [run[r] EXCEPT !.read = TRUE, !.payloads = raw, !.actions = actions]]
    BY <1>11 DEF ReadInputs
  <2>2. ClockInv' /\ EvidenceInv' /\ CaptureInv' /\ BaselineInv' /\ DraftInv'
    BY <1>0, <1>b, <2>1
  <2>3. RunInv'
    <3>1. ASSUME NEW o \in Running'
          PROVE  /\ run'[o] \in Execution
                 /\ \A c \in Candidates : IsInitial(run'[o].baselines[c], baselines'[c])
      <4>1. CASE o = r /\ r \in DOMAIN run
        <5>1. /\ run'[o] = [run[r] EXCEPT !.read = TRUE, !.payloads = raw, !.actions = actions]
              /\ run[r] \in Execution /\ raw \subseteq Payloads /\ actions \subseteq ScaleChanges
          BY <2>1, <4>1 DEF RunInv, EvidenceInv
        <5>2. run'[o] \in Execution /\ run'[o].baselines = run[r].baselines
          BY <5>1 DEF Execution
        <5> QED
          BY <2>1, <5>2 DEF RunInv, contexts
      <4>2. CASE ~(o = r /\ r \in DOMAIN run)
        <5>1. o \in Running /\ run'[o] = run[o]
          BY <2>1, <3>1, <4>2 DEF Running
        <5> QED
          BY <2>1, <5>1 DEF RunInv, contexts
      <4> QED
        BY <4>1, <4>2
    <3> QED
      BY <3>1 DEF RunInv
  <2>4. SampleInv'
    BY <1>a, <2>1, <2>2, SamplesKept DEF contexts
  <2> QED
    BY <2>2, <2>3, <2>4
<1>12. ASSUME NEW r \in Runners, Commit(r) PROVE IInv'
  <2> DEFINE seen == {c \in Occurred : known[c] < run[r].evaluated}
  <2>1. /\ UNCHANGED <<now, known, contexts, captures, pending, raw, actions>>
        /\ r \in Running
        /\ samples' = [c \in Candidates |->
             IF c \in seen THEN Foundation(c, run[r].baselines[c], run[r].payloads)
             ELSE samples[c]]
        /\ \A o \in Runners : run'[o] = IF o = r THEN Over
             ELSE IF o \in Running THEN [run[o] EXCEPT !.overtaken = TRUE] ELSE run[o]
    BY <1>12 DEF Commit
  <2>2. ClockInv' /\ EvidenceInv' /\ CaptureInv' /\ BaselineInv' /\ DraftInv'
    BY <1>0, <1>b, <2>1
  <2>3. RunInv'
    <3>1. ASSUME NEW o \in Running'
          PROVE  /\ run'[o] \in Execution
                 /\ \A c \in Candidates : IsInitial(run'[o].baselines[c], baselines'[c])
      <4>1. o \in Running /\ run'[o] = [run[o] EXCEPT !.overtaken = TRUE]
        BY <2>1 DEF Running
      <4>2. run[o] \in Execution
        BY <4>1 DEF RunInv
      <4>3. run'[o] \in Execution /\ run'[o].baselines = run[o].baselines
        BY <4>1, <4>2 DEF Execution
      <4> QED
        BY <2>1, <4>1, <4>3 DEF RunInv, contexts
    <3> QED
      BY <3>1 DEF RunInv
  <2>4. ASSUME NEW c \in Candidates, samples'[c] # NoSample PROVE Kept(c, samples[c])'
    <3>0. /\ baselines[c] \in Seq(BaselineRows) /\ baselines'[c] = baselines[c]
          /\ known'[c] = known[c] /\ IsInitial(baselines[c], baselines'[c])
      BY <1>a, <2>1 DEF BaselineInv, contexts
    <3>1. CASE c \in seen
      <4>1. /\ run[r].baselines[c] \in Seq(BaselineRows)
            /\ IsInitial(run[r].baselines[c], baselines[c])
        BY <2>1 DEF RunInv, Execution
      <4>2. Kept(c, Foundation(c, run[r].baselines[c], run[r].payloads))
        BY <1>0, <3>0, <3>1, <4>1, FoundationKept
      <4>3. samples'[c] = Foundation(c, run[r].baselines[c], run[r].payloads)
        BY <2>1, <3>1
      <4> QED
        BY <3>0, <4>2, <4>3, KeptStable
    <3>2. CASE c \notin seen
      <4>1. samples'[c] = samples[c] /\ Kept(c, samples[c])
        BY <2>1, <2>4, <3>2 DEF SampleInv
      <4> QED
        BY <3>0, <4>1, KeptStable
    <3> QED
      BY <3>1, <3>2
  <2>5. SampleInv'
    BY <2>1, <2>4 DEF SampleInv
  <2> QED
    BY <2>2, <2>3, <2>5
<1>13. ASSUME NEW r \in Runners, RollBack(r) PROVE IInv'
  <2>1. /\ UNCHANGED <<now, known, contexts, captures, pending, raw, actions, samples>>
        /\ run' = [run EXCEPT ![r] = NotBegun]
    BY <1>13 DEF RollBack
  <2>2. ClockInv' /\ EvidenceInv' /\ CaptureInv' /\ BaselineInv' /\ DraftInv'
    BY <1>0, <1>b, <2>1
  <2>3. RunInv'
    <3>1. \A o \in Running' : o \in Running /\ run'[o] = run[o]
      BY <2>1 DEF Running
    <3> QED
      BY <2>1, <3>1 DEF RunInv, contexts
  <2>4. SampleInv'
    BY <1>a, <2>1, <2>2, SamplesKept DEF contexts
  <2> QED
    BY <2>2, <2>3, <2>4
<1>14. CASE UNCHANGED vars
  <2>1. EvidenceInv' /\ CaptureInv'
    BY <1>0, <1>14, CaptureKept DEF vars, EvidenceInv
  <2> QED
    BY <1>0, <1>14, <2>1, Untouched DEF vars
<1> QED
  BY <1>1, <1>2, <1>3, <1>4, <1>5, <1>6, <1>7, <1>8, <1>9, <1>10, <1>11, <1>12, <1>13, <1>14
     DEF Next

\* Every reachable state satisfies the inductive invariant, under any calendar.
THEOREM Invariance == Spec => []IInv
<1>1. Init => IInv
  BY InitIInv
<1>2. IInv /\ [Next]_vars => IInv'
  BY NextIInv
<1> QED
  BY <1>1, <1>2, PTL DEF Spec

-------------------------------------------------------------------------------
(***************************************************************************)
(* What the measurements rest on is invariant.                             *)
(***************************************************************************)

\* The horizon of a sample ends in a session.
LEMMA TargetIsSession ==
  ASSUME NEW time \in Times, NEW sample, sample.t1 = FirstForward(time), NEW h \in Horizons
  PROVE  ClosesAt(TargetSession(sample, h)) \in Nat
<1> DEFINE day == MarketDate(time)
           t1 == FirstForward(time)
<1>1. t1 \in Sessions /\ (t1 = day \/ IsNext(t1, day))
  BY Calendar DEF FirstForward, IsNext
<1>2. \E session \in Sessions : IsTarget(session, t1, h)
  BY <1>1, CalendarAssumption
<1>3. TargetSession(sample, h) \in Sessions
  BY <1>2 DEF TargetSession
<1> QED
  BY <1>3, TimesAreNumbers

\* The rows of a sample that was made.
LEMMA MadeSample ==
  ASSUME IInv, NEW c \in Candidates, samples[c] # NoSample
  PROVE  /\ c \in Occurred /\ known[c] \in Times /\ known[c] \in Nat /\ Kept(c, samples[c])
         /\ samples[c].validity \in {"VALID", "INVALID_SAMPLE"}
         /\ samples[c].reference \in Sessions /\ samples[c].primary \in BOOLEAN
         /\ samples[c].t1 = FirstForward(known[c])
<1>1. Kept(c, samples[c]) /\ known[c] # Unknown /\ known[c] \in Times
  BY DEF IInv, SampleInv, ClockInv, Kept
<1>2. /\ samples[c].validity \in {"VALID", "INVALID_SAMPLE"}
      /\ samples[c].reference \in Sessions /\ samples[c].primary \in BOOLEAN
      /\ samples[c].t1 = FirstForward(known[c])
  BY <1>1 DEF Kept
<1> QED
  BY <1>1, <1>2, TimesAreNumbers DEF Occurred

LEMMA RowsStep == ASSUME IInv, RowsInv, [Next]_vars PROVE RowsInv'
<1> DEFINE all == pending \union raw
<1>0. /\ IsFiniteSet(all) /\ Cardinality(all) <= MaxPayloads /\ Cardinality(all) \in Nat
      /\ MaxPayloads \in Nat
  BY FS_CardinalityType, CalendarAssumption DEF RowsInv
\* Payloads are not added, but by a request.
<1>a. ASSUME pending' \union raw' \subseteq all PROVE RowsInv'
  <2>1. /\ IsFiniteSet(pending' \union raw')
        /\ Cardinality(pending' \union raw') <= Cardinality(all)
    BY <1>0, <1>a, FS_Subset
  <2>2. Cardinality(pending' \union raw') \in Nat
    BY <2>1, FS_CardinalityType
  <2> QED
    BY <1>0, <2>1, <2>2 DEF RowsInv
<1>1. CASE ReceivePayload
  <2>1. PICK answer \in Answers(now) : pending' = pending \union {answer}
    BY <1>1 DEF ReceivePayload
  <2>2. Cardinality(all) < MaxPayloads /\ pending' \union raw' = all \union {answer}
    BY <1>1, <2>1 DEF ReceivePayload
  <2>3. /\ IsFiniteSet(all \union {answer})
        /\ Cardinality(all \union {answer}) =
             IF answer \in all THEN Cardinality(all) ELSE Cardinality(all) + 1
    BY <1>0, FS_AddElement
  <2> QED
    BY <1>0, <2>2, <2>3 DEF RowsInv
<1>2. CASE \/ PassHalfDay \/ UNCHANGED vars \/ \E c \in Candidates : MakeCandidate(c)
           \/ \E c \in Candidates, config \in Configs : CreateBaseline(c, config)
           \/ \E d \in drafts : CommitBaseline(d) \/ LoseBaseline(d)
           \/ AskSurface \/ ReceiveSurface \/ LoseSurface
           \/ \E p \in pending : CommitPayload(p) \/ LosePayload(p)
           \/ \E s \in ScaleChanges : RecordAction(s)
           \/ \E r \in Runners : Begin(r) \/ ReadInputs(r) \/ Commit(r) \/ RollBack(r)
  BY <1>2, <1>a DEF PassHalfDay, vars, MakeCandidate, CreateBaseline, CommitBaseline,
    LoseBaseline, AskSurface, ReceiveSurface, LoseSurface, CommitPayload, LosePayload,
    RecordAction, Begin, ReadInputs, Commit, RollBack
<1> QED
  BY <1>1, <1>2 DEF Next

LEMMA OrderStep == ASSUME IInv, OrderInv, [Next]_vars PROVE OrderInv'
<1>0. /\ now \in Times /\ now \in Nat /\ known \in [Candidates -> Times \union {Unknown}]
      /\ \A c \in Occurred : c \in Candidates /\ known[c] \in Nat
      /\ \A r \in Running : run[r] \in Execution /\ run[r].evaluated \in Nat
  BY TimesAreNumbers DEF IInv, ClockInv, RunInv, Execution, Occurred
\* The clock moves, the rest stays.
<1>a. ASSUME now' \in Nat, now <= now', known' = known, run' = run PROVE OrderInv'
  <2>1. Occurred' = Occurred /\ Running' = Running
    BY <1>a DEF Occurred, Running
  <2>2. \A r \in Running' : run'[r].evaluated < now'
    BY <1>0, <1>a, <2>1 DEF OrderInv
  <2>3. \A c \in Occurred' : known'[c] < now'
    BY <1>0, <1>a, <2>1 DEF OrderInv
  <2> QED
    BY <1>a, <2>1, <2>2, <2>3 DEF OrderInv
<1>1. CASE PassHalfDay \/ ReceivePayload
  BY <1>0, <1>1, <1>a, ClockMoves DEF PassHalfDay, ReceivePayload
<1>2. ASSUME NEW c \in Candidates, MakeCandidate(c) PROVE OrderInv'
  <2>1. /\ known[c] = Unknown /\ known' = [known EXCEPT ![c] = now] /\ run' = run
        /\ now' \in Nat /\ now < now'
    BY <1>0, <1>2, ClockMoves DEF MakeCandidate
  <2>2. Running' = Running
    BY <2>1 DEF Running
  <2>3. Occurred' = Occurred \union {c} /\ c \notin Occurred
    BY <1>0, <2>1, TimesAreNumbers DEF Occurred
  <2>4. known'[c] = now /\ \A d \in Occurred : known'[d] = known[d] /\ known'[d] < now
    BY <1>0, <2>1, <2>3 DEF OrderInv
  <2>5. \A d \in Occurred' : known'[d] < now'
    BY <1>0, <2>1, <2>3, <2>4
  <2>6. \A d, e \in Occurred' : known'[d] = known'[e] => d = e
    BY <1>0, <2>3, <2>4 DEF OrderInv
  <2>7. \A r \in Running' : run'[r].evaluated < now'
    BY <1>0, <2>1, <2>2 DEF OrderInv
  <2> QED
    BY <2>5, <2>6, <2>7 DEF OrderInv
<1>3. CASE \/ UNCHANGED vars
           \/ \E c \in Candidates, config \in Configs : CreateBaseline(c, config)
           \/ \E d \in drafts : CommitBaseline(d) \/ LoseBaseline(d)
           \/ AskSurface \/ ReceiveSurface \/ LoseSurface
           \/ \E p \in pending : CommitPayload(p) \/ LosePayload(p)
           \/ \E s \in ScaleChanges : RecordAction(s)
  <2>1. UNCHANGED <<now, known, run>>
    BY <1>3 DEF vars, CreateBaseline, CommitBaseline, LoseBaseline, AskSurface,
      ReceiveSurface, LoseSurface, CommitPayload, LosePayload, RecordAction
  <2> QED
    BY <1>0, <1>a, <2>1
\* The candidates stay, and so does what the executions read.
<1>b. ASSUME now' \in Nat, now <= now', known' = known,
             \A r \in Running' : run'[r].evaluated < now'
      PROVE  OrderInv'
  <2>1. Occurred' = Occurred
    BY <1>b DEF Occurred
  <2>2. \A c \in Occurred' : known'[c] < now'
    BY <1>0, <1>b, <2>1 DEF OrderInv
  <2> QED
    BY <1>b, <2>1, <2>2 DEF OrderInv
<1>4. ASSUME NEW r \in Runners, Begin(r) PROVE OrderInv'
  <2>1. /\ now' \in Nat /\ now < now' /\ known' = known
        /\ run' = [run EXCEPT ![r] =
             [evaluated |-> now, baselines |-> baselines, read |-> FALSE,
              payloads |-> {}, actions |-> {}, overtaken |-> FALSE]]
    BY <1>0, <1>4, ClockMoves DEF Begin
  <2>2. ASSUME NEW o \in Running' PROVE run'[o].evaluated < now'
    <3>1. CASE o = r /\ r \in DOMAIN run
      BY <1>0, <2>1, <3>1
    <3>2. CASE ~(o = r /\ r \in DOMAIN run)
      BY <1>0, <2>1, <2>2, <3>2 DEF Running, OrderInv
    <3> QED
      BY <3>1, <3>2
  <2> QED
    BY <1>0, <1>b, <2>1, <2>2
<1>5. ASSUME NEW r \in Runners, Commit(r) PROVE OrderInv'
  <2>1. /\ now' = now /\ known' = known
        /\ \A o \in Runners : run'[o] = IF o = r THEN Over
             ELSE IF o \in Running THEN [run[o] EXCEPT !.overtaken = TRUE] ELSE run[o]
    BY <1>5 DEF Commit
  <2>2. ASSUME NEW o \in Running' PROVE run'[o].evaluated < now'
    <3>1. o \in Runners /\ o # r /\ o \in Running
      BY <2>1, <2>2 DEF Running
    <3>2. run[o] \in Execution /\ run[o].evaluated < now
      BY <1>0, <3>1 DEF OrderInv
    <3>3. run'[o] = [run[o] EXCEPT !.overtaken = TRUE]
      BY <2>1, <3>1
    <3>4. run'[o].evaluated = run[o].evaluated
      BY <3>2, <3>3 DEF Execution
    <3> QED
      BY <2>1, <3>2, <3>4
  <2> QED
    BY <1>0, <1>b, <2>1, <2>2
<1>7. ASSUME NEW r \in Runners, ReadInputs(r) PROVE OrderInv'
  <2>1. /\ now' = now /\ known' = known /\ r \in Running
        /\ run' = [run EXCEPT ![r] =
             [run[r] EXCEPT !.read = TRUE, !.payloads = raw, !.actions = actions]]
    BY <1>7 DEF ReadInputs
  <2>2. ASSUME NEW o \in Running' PROVE run'[o].evaluated < now'
    <3>1. CASE o = r /\ r \in DOMAIN run
      <4>1. /\ run'[o] = [run[r] EXCEPT !.read = TRUE, !.payloads = raw, !.actions = actions]
            /\ run[r] \in Execution /\ run[r].evaluated < now
        BY <1>0, <2>1, <3>1 DEF OrderInv
      <4>2. run'[o].evaluated = run[r].evaluated
        BY <4>1 DEF Execution
      <4> QED
        BY <2>1, <4>1, <4>2
    <3>2. CASE ~(o = r /\ r \in DOMAIN run)
      <4>1. o \in Running /\ run'[o] = run[o]
        BY <2>1, <2>2, <3>2 DEF Running
      <4> QED
        BY <2>1, <4>1 DEF OrderInv
    <3> QED
      BY <3>1, <3>2
  <2> QED
    BY <1>0, <1>b, <2>1, <2>2
<1>6. ASSUME NEW r \in Runners, RollBack(r) PROVE OrderInv'
  <2>1. now' = now /\ known' = known /\ run' = [run EXCEPT ![r] = NotBegun]
    BY <1>6 DEF RollBack
  <2>2. ASSUME NEW o \in Running' PROVE run'[o].evaluated < now'
    <3>1. o # r \/ r \notin DOMAIN run
      BY <2>1, <2>2 DEF Running
    <3>2. run'[o] = run[o] /\ o \in Running
      BY <2>1, <2>2, <3>1 DEF Running
    <3> QED
      BY <2>1, <3>2 DEF OrderInv
  <2> QED
    BY <1>0, <1>b, <2>1, <2>2
<1> QED
  BY <1>1, <1>2, <1>3, <1>4, <1>5, <1>6, <1>7 DEF Next

\* What a commit does to the samples: it keeps those there are, and makes those of all
\* the candidates known by then.
LEMMA CommitSamples ==
  ASSUME IInv, NEW r \in Runners, Commit(r), NEW c \in Candidates
  PROVE  /\ samples[c] # NoSample => samples'[c] = samples[c]
         /\ c \in Occurred /\ known[c] < run[r].evaluated => samples'[c] # NoSample
         /\ ~(c \in Occurred /\ known[c] < run[r].evaluated) => samples'[c] = samples[c]
<1> DEFINE seen == {d \in Occurred : known[d] < run[r].evaluated}
<1>1. /\ samples' = [d \in Candidates |->
                       IF d \in seen THEN Foundation(d, run[r].baselines[d], run[r].payloads) ELSE samples[d]]
      /\ \A d \in seen : samples[d] \in {NoSample, Foundation(d, run[r].baselines[d], run[r].payloads)}
  BY DEF Commit, Agrees
<1>2. Foundation(c, run[r].baselines[c], run[r].payloads).validity \in {"VALID", "INVALID_SAMPLE"}
  BY DEF Foundation
<1>3. Foundation(c, run[r].baselines[c], run[r].payloads) # NoSample
  BY <1>2 DEF NoSample
<1> QED
  BY <1>1, <1>3

LEMMA ClosedStep == ASSUME IInv, OrderInv, ClosedInv, [Next]_vars PROVE ClosedInv'
<1>0. now \in Nat /\ \A c \in Occurred : c \in Candidates /\ known[c] \in Nat
  BY TimesAreNumbers DEF IInv, ClockInv, Occurred
<1>1. ASSUME NEW c \in Candidates, MakeCandidate(c) PROVE ClosedInv'
  <2>1. /\ known[c] = Unknown /\ known' = [known EXCEPT ![c] = now] /\ samples' = samples
    BY <1>1 DEF MakeCandidate
  <2>2. Occurred' = Occurred \union {c} /\ c \notin Occurred
    BY <1>0, <2>1, TimesAreNumbers DEF Occurred, IInv, ClockInv
  <2>3. known'[c] = now /\ \A d \in Occurred : known'[d] = known[d] /\ known'[d] < now
    BY <1>0, <2>1, <2>2 DEF OrderInv, IInv, ClockInv
  <2>4. samples[c] = NoSample
    BY <2>2, MadeSample
  <2> QED
    BY <1>0, <2>1, <2>2, <2>3, <2>4 DEF ClosedInv
<1>2. ASSUME NEW r \in Runners, Commit(r) PROVE ClosedInv'
  <2>1. known' = known /\ Occurred' = Occurred /\ r \in Running
    BY <1>2 DEF Commit, Occurred
  <2>2. run[r].evaluated \in Nat
    BY <2>1 DEF IInv, RunInv, Execution
  <2>3. ASSUME NEW c \in Occurred, NEW d \in Occurred, samples'[c] # NoSample,
               known[d] < known[c]
        PROVE  samples'[d] # NoSample
    <3>1. CASE known[c] < run[r].evaluated
      <4>1. known[d] < run[r].evaluated
        BY <1>0, <2>2, <2>3, <3>1
      <4> QED
        BY <1>0, <1>2, <4>1, CommitSamples
    <3>2. CASE ~(known[c] < run[r].evaluated)
      <4>1. samples[c] # NoSample
        BY <1>0, <1>2, <2>3, <3>2, CommitSamples
      <4>2. samples[d] # NoSample
        BY <2>3, <4>1 DEF ClosedInv
      <4> QED
        BY <1>0, <1>2, <4>2, CommitSamples
    <3> QED
      BY <3>1, <3>2
  <2> QED
    BY <2>1, <2>3 DEF ClosedInv
<1>3. CASE UNCHANGED <<known, samples>>
  BY <1>3 DEF ClosedInv, Occurred
<1>4. CASE \/ PassHalfDay \/ ReceivePayload \/ UNCHANGED vars
           \/ \E c \in Candidates, config \in Configs : CreateBaseline(c, config)
           \/ \E d \in drafts : CommitBaseline(d) \/ LoseBaseline(d)
           \/ AskSurface \/ ReceiveSurface \/ LoseSurface
           \/ \E p \in pending : CommitPayload(p) \/ LosePayload(p)
           \/ \E s \in ScaleChanges : RecordAction(s)
           \/ \E r \in Runners : Begin(r) \/ ReadInputs(r) \/ RollBack(r)
  BY <1>3, <1>4 DEF PassHalfDay, ReceivePayload, vars, CreateBaseline, CommitBaseline,
    LoseBaseline, AskSurface, ReceiveSurface, LoseSurface, CommitPayload,
    LosePayload, RecordAction, Begin, ReadInputs, RollBack
<1> QED
  BY <1>1, <1>2, <1>4 DEF Next

\* A step of no execution, or its beginning, or its end without a commit: the samples
\* and the measurements stay, and the clock does not go back.
LEMMA MeasuredKept ==
  ASSUME IInv, OrderInv, MeasuredInv, UNCHANGED <<samples, measured>>,
         now' \in Nat, now <= now',
         \A c \in Occurred : known'[c] = known[c],
         \A r \in Running' : \/ /\ r \in Running
                                /\ run'[r].evaluated = run[r].evaluated
                                /\ run'[r].overtaken = run[r].overtaken
                             \/ run'[r].evaluated = now
  PROVE  MeasuredInv'
<1> SUFFICES ASSUME NEW c \in Candidates, NEW h \in Horizons
    PROVE  /\ measured[c][h].state \in Mature \union Immature \union {"INVALID_SAMPLE"}
           /\ measured[c][h].state = "NONE" <=> samples[c] = NoSample
           /\ measured[c][h].state = "INVALID_SAMPLE" <=> samples[c].validity = "INVALID_SAMPLE"
           /\ measured[c][h].state = "MATURE_AVAILABLE" /\ measured[c][h].primary =>
                samples[c].primary /\ FirstOfWindow(c)'
           /\ measured[c][h].state \in Mature => HasClosed(c, h)'
  BY DEF MeasuredInv
<1>1. now \in Nat
  BY TimesAreNumbers DEF IInv, ClockInv
<1>2. measured[c][h].state \in Mature \union {"MATURE_AVAILABLE"} => samples[c] # NoSample
  BY DEF MeasuredInv, Mature
<1>3. ASSUME samples[c] # NoSample, FirstOfWindow(c) PROVE FirstOfWindow(c)'
  <2>1. \A d \in Candidates : samples[d] # NoSample => known'[d] = known[d]
    BY MadeSample
  <2> QED
    BY <1>3, <2>1 DEF FirstOfWindow, WindowKey
<1>4. ASSUME samples[c] # NoSample, HasClosed(c, h) PROVE HasClosed(c, h)'
  <2> DEFINE close == ClosesAt(TargetSession(samples[c], h))
  <2>1. close \in Nat
    BY <1>4, MadeSample, TargetIsSession
  <2>2. close' = close
    BY DEF TargetSession, IsTarget, ClosesAt, Start
  <2>3. close <= now'
    BY <1>1, <1>4, <2>1 DEF HasClosed
  <2>4. ASSUME NEW r \in Running', ~run'[r].overtaken PROVE close <= run'[r].evaluated
    BY <1>1, <1>4, <2>1, <2>4 DEF HasClosed
  <2> QED
    BY <2>2, <2>3, <2>4 DEF HasClosed
<1> QED
  BY <1>2, <1>3, <1>4 DEF MeasuredInv

LEMMA MeasuredStep ==
  ASSUME IInv, IInv', OrderInv, ClosedInv, MeasuredInv, [Next]_vars PROVE MeasuredInv'
<1>0. /\ now \in Times /\ now \in Nat
      /\ \A c \in Occurred : c \in Candidates /\ known[c] \in Nat
  BY TimesAreNumbers DEF IInv, ClockInv, Occurred
<1>1. CASE \/ PassHalfDay \/ ReceivePayload \/ UNCHANGED vars
           \/ \E c \in Candidates, config \in Configs : CreateBaseline(c, config)
           \/ \E d \in drafts : CommitBaseline(d) \/ LoseBaseline(d)
           \/ AskSurface \/ ReceiveSurface \/ LoseSurface
           \/ \E p \in pending : CommitPayload(p) \/ LosePayload(p)
           \/ \E s \in ScaleChanges : RecordAction(s)
  <2>1. /\ UNCHANGED <<samples, measured, run, known>>
        /\ now' = now \/ PassHalfDay \/ ReadClock
    BY <1>1 DEF PassHalfDay, ReceivePayload, vars, CreateBaseline, CommitBaseline, LoseBaseline,
      AskSurface, ReceiveSurface, LoseSurface, CommitPayload, LosePayload, RecordAction
  <2>2. now' \in Nat /\ now <= now'
    BY <1>0, <2>1, ClockMoves
  <2>3. Running' = Running
    BY <2>1 DEF Running
  <2> QED
    BY <2>1, <2>2, <2>3, MeasuredKept
<1>2. ASSUME NEW c \in Candidates, MakeCandidate(c) PROVE MeasuredInv'
  <2>1. /\ UNCHANGED <<samples, measured, run>> /\ ReadClock
        /\ known[c] = Unknown /\ known' = [known EXCEPT ![c] = now]
    BY <1>2 DEF MakeCandidate
  <2>2. now' \in Nat /\ now <= now'
    BY <1>0, <2>1, ClockMoves
  <2>3. \A d \in Occurred : known'[d] = known[d]
    BY <2>1 DEF Occurred, IInv, ClockInv
  <2>4. Running' = Running
    BY <2>1 DEF Running
  <2> QED
    BY <2>1, <2>2, <2>3, <2>4, MeasuredKept
<1>3. ASSUME NEW r \in Runners, Begin(r) PROVE MeasuredInv'
  <2>1. /\ UNCHANGED <<samples, measured, known>> /\ ReadClock
        /\ run' = [run EXCEPT ![r] =
             [evaluated |-> now, baselines |-> baselines, read |-> FALSE,
              payloads |-> {}, actions |-> {}, overtaken |-> FALSE]]
    BY <1>3 DEF Begin
  <2>2. now' \in Nat /\ now <= now'
    BY <1>0, <2>1, ClockMoves
  <2>3. \A o \in Running' : \/ o \in Running /\ run'[o] = run[o]
                            \/ run'[o].evaluated = now
    <3>1. ASSUME NEW o \in Running', ~(o = r /\ r \in DOMAIN run)
          PROVE  o \in Running /\ run'[o] = run[o]
      BY <2>1, <3>1 DEF Running
    <3>2. r \in DOMAIN run => run'[r].evaluated = now
      BY <2>1
    <3> QED
      BY <3>1, <3>2
  <2> QED
    BY <2>1, <2>2, <2>3, MeasuredKept
<1>4. ASSUME NEW r \in Runners, RollBack(r) PROVE MeasuredInv'
  <2>1. /\ UNCHANGED <<samples, measured, known, now>>
        /\ run' = [run EXCEPT ![r] = NotBegun]
    BY <1>4 DEF RollBack
  <2>2. \A o \in Running' : o \in Running /\ run'[o] = run[o]
    BY <2>1 DEF Running
  <2> QED
    BY <1>0, <2>1, <2>2, MeasuredKept
<1>6. ASSUME NEW r \in Runners, ReadInputs(r) PROVE MeasuredInv'
  <2>1. /\ UNCHANGED <<samples, measured, known, now>> /\ r \in Running
        /\ run' = [run EXCEPT ![r] =
             [run[r] EXCEPT !.read = TRUE, !.payloads = raw, !.actions = actions]]
    BY <1>6 DEF ReadInputs
  <2>2. ASSUME NEW o \in Running'
        PROVE  /\ o \in Running /\ run'[o].evaluated = run[o].evaluated
               /\ run'[o].overtaken = run[o].overtaken
    <3>1. CASE o = r /\ r \in DOMAIN run
      <4>1. /\ run'[o] = [run[r] EXCEPT !.read = TRUE, !.payloads = raw, !.actions = actions]
            /\ run[r] \in Execution
        BY <2>1, <3>1 DEF IInv, RunInv
      <4> QED
        BY <2>1, <3>1, <4>1 DEF Execution
    <3>2. CASE ~(o = r /\ r \in DOMAIN run)
      BY <2>1, <2>2, <3>2 DEF Running
    <3> QED
      BY <3>1, <3>2
  <2> QED
    BY <1>0, <2>1, <2>2, MeasuredKept
<1>5. ASSUME NEW r \in Runners, Commit(r) PROVE MeasuredInv'
  <2> DEFINE e == run[r].evaluated
             seen == {c \in Occurred : known[c] < e}
             foundation == [c \in seen |-> Foundation(c, run[r].baselines[c], run[r].payloads)]
  <2>1. /\ UNCHANGED <<now, known, actions>> /\ r \in Running
        /\ \A c \in seen : samples'[c] = foundation[c]
        /\ \A c \in Candidates \ seen : samples'[c] = samples[c]
        /\ \A c \in seen, h \in Horizons :
             measured'[c][h] = Proposal(c, h, foundation, seen, run[r])
        /\ \A c \in Candidates \ seen, h \in Horizons : measured'[c][h] = measured[c][h]
    BY <1>0, <1>5 DEF Commit
  <2>2. e \in Nat /\ e < now
    BY <2>1 DEF OrderInv, IInv, RunInv, Execution
  \* The others that are running have been overtaken.
  <2>3. \A o \in Running' : run'[o].overtaken
    <3>1. ASSUME NEW o \in Running' PROVE run'[o].overtaken
      <4>1. o \in Running /\ o # r /\ run'[o] = [run[o] EXCEPT !.overtaken = TRUE]
        BY <1>5 DEF Commit, Running
      <4>2. run[o] \in Execution
        BY <4>1 DEF IInv, RunInv
      <4> QED
        BY <4>1, <4>2 DEF Execution
    <3> QED
      BY <3>1
  <2>4. ASSUME NEW c \in seen, NEW h \in Horizons
        PROVE  /\ measured'[c][h].state \in
                    Mature \union {"INVALID_SAMPLE", "NOT_YET_MATURE"}
               /\ measured'[c][h].state = "INVALID_SAMPLE"
                    <=> samples'[c].validity = "INVALID_SAMPLE"
               /\ measured'[c][h].state \in Mature =>
                    ~(e < ClosesAt(TargetSession(samples'[c], h)))
               /\ measured'[c][h].state = "MATURE_AVAILABLE" /\ measured'[c][h].primary =>
                    samples'[c].primary /\ Representative(c, foundation, seen)
    <3>1. measured'[c][h] = Proposal(c, h, foundation, seen, run[r]) /\ samples'[c] = foundation[c]
      BY <2>1
    <3>2. measured'[c][h].state = Maturity(foundation[c], h, run[r])
      BY <3>1 DEF Proposal
    <3>3. /\ Maturity(foundation[c], h, run[r]) \in
               Mature \union {"INVALID_SAMPLE", "NOT_YET_MATURE"}
          /\ Maturity(foundation[c], h, run[r]) = "INVALID_SAMPLE"
               <=> foundation[c].validity = "INVALID_SAMPLE"
          /\ Maturity(foundation[c], h, run[r]) \in Mature =>
               ~(e < ClosesAt(TargetSession(foundation[c], h)))
      BY DEF Maturity, Mature
    <3>4. measured'[c][h].primary =>
            foundation[c].primary /\ Representative(c, foundation, seen)
      BY <3>1 DEF Proposal
    <3> QED
      BY <3>1, <3>2, <3>3, <3>4
  <2>5. ASSUME NEW c \in seen, Representative(c, foundation, seen) PROVE FirstOfWindow(c)'
    <3> SUFFICES ASSUME NEW d \in Candidates, samples'[d] # NoSample, samples'[d].primary,
                        WindowKey(samples'[d]) = WindowKey(samples'[c])
                 PROVE  known[c] <= known[d]
      BY <2>1 DEF FirstOfWindow
    <3>1. CASE d \in seen
      BY <2>1, <2>5, <3>1 DEF Representative
    <3>2. CASE d \notin seen
      <4>1. d \in Occurred /\ ~(known[d] < e)
        BY <2>1, <3>2, MadeSample
      <4> QED
        BY <1>0, <2>2, <4>1
    <3> QED
      BY <3>1, <3>2
  <2>6. ASSUME NEW c \in Candidates \ seen, samples[c] # NoSample, FirstOfWindow(c)
        PROVE  FirstOfWindow(c)'
    <3> SUFFICES ASSUME NEW d \in Candidates, samples'[d] # NoSample, samples'[d].primary,
                        WindowKey(samples'[d]) = WindowKey(samples'[c])
                 PROVE  known[c] <= known[d]
      BY <2>1 DEF FirstOfWindow
    <3>1. c \in Occurred /\ known[c] \in Nat /\ samples'[c] = samples[c] /\ ~(known[c] < e)
      BY <2>1, <2>6, MadeSample
    <3>2. d \in Occurred /\ known[d] \in Nat
      BY <1>0, <2>1, MadeSample
    <3>3. CASE samples[d] # NoSample
      <4>1. samples'[d] = samples[d]
        BY <1>5, <3>3, CommitSamples
      <4> QED
        BY <2>6, <3>1, <3>3, <4>1 DEF FirstOfWindow
    <3>4. CASE samples[d] = NoSample
      <4>1. ~(known[d] < known[c])
        BY <2>6, <3>1, <3>2, <3>4 DEF ClosedInv
      <4> QED
        BY <3>1, <3>2, <4>1
    <3> QED
      BY <3>3, <3>4
  <2>7. ASSUME NEW c \in Candidates, NEW h \in Horizons
        PROVE  /\ measured'[c][h].state \in Mature \union Immature \union {"INVALID_SAMPLE"}
               /\ measured'[c][h].state = "NONE" <=> samples'[c] = NoSample
               /\ measured'[c][h].state = "INVALID_SAMPLE"
                    <=> samples'[c].validity = "INVALID_SAMPLE"
               /\ measured'[c][h].state = "MATURE_AVAILABLE" /\ measured'[c][h].primary =>
                    samples'[c].primary /\ FirstOfWindow(c)'
               /\ measured'[c][h].state \in Mature => HasClosed(c, h)'
    <3>1. CASE c \in seen
      <4>1. samples'[c] # NoSample
        BY <1>5, <3>1, CommitSamples
      <4>2. ClosesAt(TargetSession(samples'[c], h)) \in Nat
        <5>1. samples'[c].t1 = FirstForward(known[c]) /\ known[c] \in Times
          <6>1. samples'[c] = Foundation(c, run[r].baselines[c], run[r].payloads)
            BY <2>1, <3>1
          <6>2. samples'[c].t1 = FirstForward(known[c])
            BY <6>1 DEF Foundation
          <6> QED
            BY <3>1, <6>2 DEF Occurred, IInv, ClockInv
        <5> QED
          BY <5>1, TargetIsSession
      <4>3. measured'[c][h].state \in Mature => HasClosed(c, h)'
        <5>1. measured'[c][h].state \in Mature => ~(e < ClosesAt(TargetSession(samples'[c], h)))
          BY <2>4, <3>1
        <5>2. measured'[c][h].state \in Mature => ClosesAt(TargetSession(samples'[c], h)) <= now'
          BY <1>0, <2>1, <2>2, <4>2, <5>1
        <5> QED
          BY <2>3, <5>2 DEF HasClosed
      <4>4. /\ measured'[c][h].state # "NONE"
            /\ measured'[c][h].state \in Mature \union Immature \union {"INVALID_SAMPLE"}
        BY <2>4, <3>1 DEF Immature, Mature
      <4>5. measured'[c][h].state = "MATURE_AVAILABLE" /\ measured'[c][h].primary =>
              samples'[c].primary /\ FirstOfWindow(c)'
        BY <2>4, <2>5, <3>1
      <4> QED
        BY <2>4, <3>1, <4>1, <4>3, <4>4, <4>5
    <3>2. CASE c \notin seen
      <4>1. samples'[c] = samples[c] /\ measured'[c][h] = measured[c][h]
        BY <2>1, <3>2
      <4>2. measured[c][h].state \in Mature \union {"MATURE_AVAILABLE"} => samples[c] # NoSample
        BY DEF MeasuredInv, Mature
      <4>3. measured[c][h].state \in Mature => HasClosed(c, h)'
        BY <2>1, <2>3, <4>1 DEF HasClosed, MeasuredInv
      <4> QED
        BY <2>6, <3>2, <4>1, <4>2, <4>3 DEF MeasuredInv
    <3> QED
      BY <3>1, <3>2
  <2> QED
    BY <2>7 DEF MeasuredInv
<1> QED
  BY <1>1, <1>2, <1>3, <1>4, <1>5, <1>6 DEF Next

-------------------------------------------------------------------------------
(***************************************************************************)
(* The theorems.                                                           *)
(***************************************************************************)

\* No baseline, whenever and under whichever configuration it is made, rests on a payload
\* received after the first knowledge, or on a surface asked for or observed after it
\* (create_baseline, _archived_source_bundle, best_archived_surface_at_or_before).
THEOREM NoLookAhead == Spec => []BaselineHasNoLookAhead
<1>1. IInv => BaselineHasNoLookAhead
  BY DEF IInv, BaselineInv
<1> QED
  BY <1>1, Invariance, PTL

\* Under every calendar, an outcome starts from a close of the past and ends with closes
\* of the future of its first knowledge (map_forward_sessions).
THEOREM OutcomesAreForward == Spec => []OutcomeStartsAfterKnowledge
<1>1. IInv => OutcomeStartsAfterKnowledge
  <2> SUFFICES ASSUME IInv, NEW c \in Candidates, samples[c] # NoSample
               PROVE  /\ ClosesAt(samples[c].reference) <= known[c]
                      /\ known[c] < ClosesAt(samples[c].t1)
    BY DEF OutcomeStartsAfterKnowledge
  <2>1. Kept(c, samples[c]) /\ known[c] \in Times
    BY DEF IInv, SampleInv, ClockInv, Kept
  <2>2. ClosesAt(samples[c].reference) <= known[c] /\ samples[c].t1 = FirstForward(known[c])
    BY <2>1 DEF Kept
  <2> QED
    BY <2>1, <2>2, PlanSpansKnowledge
<1> QED
  BY <1>1, Invariance, PTL

\* A sample differs from the one that an execution would build now for three reasons only:
\* its first baseline, one evaluated before its baseline, or a payload of the day of the
\* first knowledge, committed after it (_get_or_create_sample).
THEOREM ConflictsAreLate == Spec => []ConflictHasLateCause
<1>1. IInv => ConflictHasLateCause
  <2> SUFFICES ASSUME IInv, NEW c \in Occurred, samples[c] # NoSample,
                      ~BaselineCameLate(c), ~EarlierBaselineCameLate(c), ~ProofCameLate(c)
               PROVE  samples[c] = Foundation(c, baselines[c], raw)
    BY DEF ConflictHasLateCause, Agrees
  <2> DEFINE day == MarketDate(known[c])
             rows == baselines[c]
  <2>1. Kept(c, samples[c]) /\ known[c] \in Times /\ c \in Candidates /\ rows \in Seq(BaselineRows)
    BY DEF IInv, SampleInv, ClockInv, BaselineInv, Kept, Occurred
  <2>2. PICK baseline \in {NoBaseline} \union DOMAIN rows, reference \in Sessions :
       /\ samples[c] =
            [validity |-> IF baseline = NoBaseline THEN "INVALID_SAMPLE" ELSE "VALID",
             baseline |-> baseline,
             reference |-> reference, t1 |-> FirstForward(known[c]),
             primary |-> baseline # NoBaseline /\ c \in Scheduled]
       /\ \A i \in DOMAIN rows : i < baseline => ~Precedes(rows[i], rows[baseline])
       /\ IF AfterClose(known[c]) THEN reference \in {day, Previous(day)}
          ELSE reference = Previous(day)
    BY <2>1 DEF Kept
  <2>3. baseline = FrozenBaseline(rows)
    <3>1. CASE baseline = NoBaseline
      BY <2>2, <3>1 DEF BaselineCameLate, FrozenBaseline
    <3>2. CASE baseline # NoBaseline
      <4> DEFINE first == FrozenBaseline(rows)
      <4>1. baseline \in DOMAIN rows /\ rows # <<>> /\ samples[c].baseline = baseline
        BY <2>1, <2>2, <3>2
      <4>2. first \in DOMAIN rows /\ \A j \in DOMAIN rows : ~Precedes(rows[j], rows[first])
        BY <2>1, <4>1, FirstBaseline
      <4>3. \A i \in DOMAIN rows : i > baseline => ~Precedes(rows[i], rows[baseline])
        BY <2>2, <3>2 DEF EarlierBaselineCameLate
      <4> HIDE DEF first
      <4>4. ~Precedes(rows[first], rows[baseline]) \/ first = baseline
        <5>1. first \in Nat /\ baseline \in Nat
          BY <2>1, <4>1, <4>2
        <5>2. first < baseline \/ first > baseline \/ first = baseline
          BY <5>1
        <5> QED
          BY <2>2, <4>2, <4>3, <5>2
      <4>5. ASSUME first # baseline PROVE FALSE
        <5>1. rows[first].config # rows[baseline].config
          BY <2>1, <4>1, <4>2, <4>5 DEF IInv, BaselineInv
        <5>2. /\ rows[first].evaluated \in Nat /\ rows[baseline].evaluated \in Nat
              /\ rows[first].config \in Nat /\ rows[baseline].config \in Nat
          <6>1. rows[first] \in BaselineRows /\ rows[baseline] \in BaselineRows
            BY <2>1, <4>1, <4>2
          <6> QED
            BY <6>1, NumberedRows
        <5>3. ~Precedes(rows[baseline], rows[first])
          BY <4>1, <4>2
        <5> QED
          BY <4>4, <4>5, <5>1, <5>2, <5>3 DEF Precedes
      <4> QED
        BY <4>5 DEF first
    <3> QED
      BY <3>1, <3>2
  <2>4. Previous(day) < day /\ Previous(day) # day
    <3>1. Previous(day) \in Sessions /\ Previous(day) < day
      BY <2>1, Calendar DEF IsPrevious
    <3>2. Previous(day) \in Nat /\ day \in Nat
      BY <2>1, <3>1, DaysAreOrdered, TimesAreNumbers
    <3> QED
      BY <3>1, <3>2
  <2>5. AfterClose(known[c]) => (reference = day <=> HasClose(raw, day, known[c]))
    BY <2>2 DEF ProofCameLate
  <2>6. reference = Reference(raw, known[c])
    BY <2>2, <2>4, <2>5 DEF Reference
  <2> QED
    BY <2>2, <2>3, <2>6 DEF Foundation
<1> QED
  BY <1>1, Invariance, PTL

\* The second part of the invariant, on the first.
THEOREM OrderInvariance == Spec => []MoreInv
<1>1. Init => MoreInv
  <2> SUFFICES ASSUME Init PROVE MoreInv
    OBVIOUS
  <2>1. Occurred = {} /\ Running = {}
    BY DEF Init, Occurred, Running
  <2>2. RowsInv
    BY CalendarAssumption, FS_EmptySet DEF Init, RowsInv
  <2>3. OrderInv /\ ClosedInv
    BY <2>1 DEF OrderInv, ClosedInv
  <2>4. MeasuredInv
    BY DEF Init, MeasuredInv, Immature, Mature, NoSample, NoMeasurement
  <2> QED
    BY <2>2, <2>3, <2>4 DEF MoreInv
<1>2. IInv /\ IInv' /\ MoreInv /\ [Next]_vars => MoreInv'
  BY RowsStep, OrderStep, ClosedStep, MeasuredStep DEF MoreInv
<1> QED
  BY <1>1, <1>2, Invariance, PTL DEF Spec

\* Every row has its type: a measurement has been made exactly when its sample has, and
\* is of an invalid sample exactly when that is invalid; no payload passes the bound.
THEOREM TypeCorrect == Spec => []TypeOK
<1>1. IInv /\ MoreInv => TypeOK
  <2> SUFFICES ASSUME IInv, MoreInv PROVE TypeOK
    OBVIOUS
  <2>1. /\ now \in Times /\ known \in [Candidates -> Times \union {Unknown}]
        /\ \A c \in Candidates \ Occurred : baselines[c] = <<>>
    BY DEF IInv, ClockInv, BaselineInv, Occurred
  <2>2. /\ \A p \in pending \union raw :
             /\ p.received \in Times
             /\ p.usable \subseteq Sessions /\ p.unusable \subseteq Sessions
        /\ Cardinality(pending \union raw) <= MaxPayloads
        /\ actions \subseteq ScaleChanges
    BY DEF MoreInv, RowsInv, IInv, EvidenceInv, Payloads
  <2>6. ASSUME NEW c \in Candidates, NEW i \in DOMAIN baselines[c]
        PROVE  /\ baselines[c][i].config \in Configs
               /\ baselines[c][i].evaluated \in Times
               /\ baselines[c][i].source \in Times \union {NoSource}
               /\ \A j \in DOMAIN baselines[c] :
                    baselines[c][i].config = baselines[c][j].config => i = j
    <3>1. baselines[c] \in Seq(BaselineRows)
      BY DEF IInv, BaselineInv
    <3>2. baselines[c][i] \in BaselineRows
      BY <3>1
    <3> QED
      BY <3>2 DEF IInv, BaselineInv, BaselineRows, TimesOrNone, NoSource, Unknown
  <2>7. /\ \A draft \in drafts : draft.candidate \in Occurred /\ draft.evaluated <= now
        /\ asking \in Times \union {Unknown}
        /\ \A surface \in surfaces : surface.asked <= now /\ surface.observed <= now
    BY DEF IInv, DraftInv, CaptureInv, TimesOrNone, Occurred
  <2>3. ASSUME NEW c \in Candidates, samples[c] # NoSample
        PROVE  /\ samples[c].validity \in {"VALID", "INVALID_SAMPLE"}
               /\ samples[c].reference \in Sessions /\ samples[c].t1 \in Sessions
               /\ samples[c].primary \in BOOLEAN
    <3>1. FirstForward(known[c]) \in Sessions
      BY <2>3, MadeSample, Calendar DEF FirstForward, IsNext
    <3> QED
      BY <2>3, <3>1, MadeSample
  <2>4. ASSUME NEW c \in Candidates, NEW h \in Horizons
        PROVE  /\ measured[c][h].state \in
                    {"NONE", "INVALID_SAMPLE", "NOT_YET_MATURE", "MATURE_AVAILABLE",
                     "MATURE_MISSING_DATA", "CORPORATE_ACTION_CONTAMINATED"}
               /\ measured[c][h].state = "NONE" <=> samples[c].validity = "NONE"
               /\ measured[c][h].state = "INVALID_SAMPLE"
                    <=> samples[c].validity = "INVALID_SAMPLE"
    <3>1. samples[c] = NoSample <=> samples[c].validity = "NONE"
      BY <2>3 DEF NoSample
    <3> QED
      BY <3>1 DEF MoreInv, MeasuredInv, Mature, Immature
  <2>5. \A r \in Running : run[r].evaluated < now
    BY DEF MoreInv, OrderInv
  <2> QED
    BY <2>1, <2>2, <2>3, <2>4, <2>5, <2>6, <2>7 DEF TypeOK
<1> QED
  BY <1>1, Invariance, OrderInvariance, PTL

\* Of the candidates of a window of sessions, one at most counts in the primary
\* aggregate, however late a scan, a baseline or an overlapping execution commits
\* (_primary_representative_ids).
THEOREM OnePrimary == Spec => []OnePrimaryPerWindow
<1>1. IInv /\ MoreInv => OnePrimaryPerWindow
  <2> SUFFICES ASSUME IInv, MoreInv, NEW c \in Candidates, NEW d \in Candidates,
                      NEW h \in Horizons,
                      measured[c][h].state = "MATURE_AVAILABLE", measured[c][h].primary,
                      measured[d][h].state = "MATURE_AVAILABLE", measured[d][h].primary,
                      WindowKey(samples[c]) = WindowKey(samples[d])
               PROVE  c = d
    BY DEF OnePrimaryPerWindow
  <2>1. /\ samples[c] # NoSample /\ samples[c].primary /\ FirstOfWindow(c)
        /\ samples[d] # NoSample /\ samples[d].primary /\ FirstOfWindow(d)
    BY DEF MoreInv, MeasuredInv
  <2>2. known[c] <= known[d] /\ known[d] <= known[c]
    BY <2>1 DEF FirstOfWindow
  <2>3. /\ c \in Occurred /\ d \in Occurred
        /\ known[c] \in Nat /\ known[d] \in Nat
    BY <2>1, MadeSample
  <2>4. known[c] = known[d]
    BY <2>2, <2>3
  <2> QED
    BY <2>3, <2>4 DEF MoreInv, OrderInv
<1> QED
  BY <1>1, Invariance, OrderInvariance, PTL

\* A horizon that has closed stays closed for every execution that no commit has
\* overtaken: without overlapping executions, maturity is never taken back.
THEOREM MaturityFinal == Spec => MaturityIsFinal
<1> DEFINE Final == \A c \in Candidates, h \in Horizons :
             measured[c][h].state \notin Immature /\ measured'[c][h].state \in Immature
               => \E r \in Running : run[r].overtaken
<1>1. IInv /\ MoreInv /\ [Next]_vars => [Final]_vars
  <2> SUFFICES ASSUME IInv, MoreInv, Next, NEW c \in Candidates, NEW h \in Horizons,
                      measured[c][h].state \notin Immature, measured'[c][h].state \in Immature
               PROVE  \E r \in Running : run[r].overtaken
    BY DEF vars
  <2>1. PICK r \in Runners : Commit(r)
    BY DEF Next, PassHalfDay, ReceivePayload, MakeCandidate, CreateBaseline, CommitBaseline,
           LoseBaseline, AskSurface, ReceiveSurface, LoseSurface, CommitPayload,
           LosePayload, RecordAction, Begin, ReadInputs, RollBack
  <2> DEFINE e == run[r].evaluated
             seen == {d \in Occurred : known[d] < e}
             foundation == [d \in seen |-> Foundation(d, run[r].baselines[d], run[r].payloads)]
  <2>2. /\ r \in Running /\ c \in seen
        /\ measured'[c][h] = Proposal(c, h, foundation, seen, run[r])
        /\ foundation[c] = samples'[c] /\ samples'[c] = samples[c]
    <3>1. /\ r \in Running
          /\ \A d \in Candidates : measured'[d][h] =
               IF d \in seen THEN Proposal(d, h, foundation, seen, run[r]) ELSE measured[d][h]
          /\ \A d \in seen : d \in Candidates => samples'[d] = foundation[d]
      BY <2>1 DEF Commit
    <3>2. c \in seen
      BY <3>1
    <3>3. samples[c] # NoSample
      BY DEF MoreInv, MeasuredInv, Immature
    <3> QED
      BY <2>1, <3>1, <3>2, <3>3, CommitSamples
  <2>3. measured'[c][h].state = Maturity(samples[c], h, run[r])
    BY <2>2 DEF Proposal
  <2>4. /\ samples[c].validity # "INVALID_SAMPLE"
        /\ e < ClosesAt(TargetSession(samples[c], h))
    BY <2>3 DEF Maturity, Immature
  <2>5. HasClosed(c, h)
    BY <2>4 DEF MoreInv, MeasuredInv
  <2>6. /\ e \in Nat /\ ClosesAt(TargetSession(samples[c], h)) \in Nat
    BY <2>2, MadeSample, TargetIsSession
       DEF IInv, RunInv, Execution, MoreInv, MeasuredInv, Immature
  <2> QED
    BY <2>2, <2>4, <2>5, <2>6 DEF HasClosed
<1> QED
  BY <1>1, Invariance, OrderInvariance, PTL DEF Spec, MaturityIsFinal
===============================================================================
