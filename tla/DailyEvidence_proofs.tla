-------------------------- MODULE DailyEvidence_proofs --------------------------
(***************************************************************************)
(* Proofs about DailyEvidence, for any universe and any number of manual   *)
(* collections: the scheduled scan rests on its own day's evidence, an     *)
(* observed slot has its baselines, and coverage is append-only.           *)
(*                                                                         *)
(* The gate and the scan are two steps.  What the gate has read stays true *)
(* until the scan starts, and as long as its row exists, because coverage  *)
(* keeps its first writer and because no canonical archive runs after the  *)
(* close: that is what the strengthening says.                             *)
(***************************************************************************)
EXTENDS DailyEvidence, TLAPS

\* What the gate asks of the tickers.
DayIsCovered ==
  \A t \in Tickers : /\ radar[day][t] = "CANONICAL"
                     /\ activity[day][t] = "CANONICAL"
                     /\ oiRow[day][t] \in {"COMPLETE", "NO_NEW"}

\* A canonical pipeline is that of the morning, or that of a claimed evening slot which
\* has not come to its observation.
CanonicalPipe ==
  pipe.who = "CANONICAL" =>
    \/ ~evening /\ pipe.mode = "RADAR_OI" /\ pipe.job # "ACTIVITY"
    \/ /\ evening /\ pipe.mode = "ACTIVITY" /\ pipe.job = "ACTIVITY"
       /\ slot.activity = "CLAIMED" /\ observer = "idle" /\ scan = "NONE"

\* The observation belongs to a claimed evening slot, and is as far as its scan.
ObservationInv ==
  /\ observer # "idle" => evening /\ slot.activity = "CLAIMED"
  /\ observer \in {"collected", "admitted"} => scan = "NONE"
  /\ observer = "scanning" => scan = "RUNNING"
  /\ observer = "scanned" => scan = "COMPLETE"
  /\ slot.activity = "TODO" => observer = "idle" /\ scan = "NONE"
  /\ scan # "NONE" => evening

\* What the gate saw is still there.
GateInv == observer = "admitted" \/ scan # "NONE" => DayIsCovered

IInv == TypeOK /\ CanonicalPipe /\ ObservationInv /\ GateInv /\ ObservedSlotHasBaselines

-----------------------------------------------------------------------------
(* Types *)

PipeRows ==
  [who : Writers \union {"NONE"}, mode : Modes,
   job : {"IDLE", "OI", "RADAR", "ACTIVITY"}, left : SUBSET Tickers,
   failed : BOOLEAN, persisted : BOOLEAN,
   oi : {"NONE", "COMPLETE", "PARTIAL", "NO_NEW", "FAILED"}]

LEMMA NoPipeType == NoPipe \in PipeRows
  BY DEF NoPipe, PipeRows, Modes

LEMMA TargetsAreTickers == RadarTargets \subseteq Tickers
  BY DEF RadarTargets

\* The next subjob of a pipeline.
LEMMA NextJobType ==
  ASSUME NEW p \in PipeRows
  PROVE  /\ RadarNext(p) \in PipeRows /\ ActivityNext(p) \in PipeRows
         /\ \A status \in {"COMPLETE", "PARTIAL", "NO_NEW", "FAILED"} :
              AfterArchive(p, status) \in PipeRows
<1>1. ASSUME NEW q \in PipeRows
      PROVE  RadarNext(q) \in PipeRows /\ ActivityNext(q) \in PipeRows
  BY TargetsAreTickers DEF RadarNext, ActivityNext, PipeRows
<1>2. ASSUME NEW status \in {"COMPLETE", "PARTIAL", "NO_NEW", "FAILED"}
      PROVE  AfterArchive(p, status) \in PipeRows
  <2>1. [p EXCEPT !.oi = status] \in PipeRows
    BY DEF PipeRows
  <2> QED
    BY <1>1, <2>1 DEF AfterArchive
<1> QED
  BY <1>1, <1>2

LEMMA PipeType ==
  ASSUME NEW who \in Writers, NEW mode \in Modes
  PROVE  Pipe(who, mode) \in PipeRows
<1> DEFINE p == [NoPipe EXCEPT !.who = who, !.mode = mode]
<1>1. p \in PipeRows /\ [p EXCEPT !.job = "OI", !.left = Tickers] \in PipeRows
  BY DEF NoPipe, PipeRows, Writers
<1> HIDE DEF p
<1>2. /\ ActivityNext(p) \in PipeRows /\ RadarNext(p) \in PipeRows
      /\ AfterArchive(p, "FAILED") \in PipeRows
  BY <1>1, NextJobType
<1> QED
  BY <1>1, <1>2 DEF Pipe, p

\* A ticker of the day, in a table of evidence.
LEMMA TableType ==
  ASSUME NEW S, NEW table \in [Days -> [Tickers -> S]], NEW t \in Tickers, NEW v \in S
  PROVE  [table EXCEPT ![day][t] = v] \in [Days -> [Tickers -> S]]
<1>1. [table[day] EXCEPT ![t] = v] \in [Tickers -> S]
  BY DEF Days, day
<1> QED
  BY <1>1 DEF Days, day

\* A coverage subjob is done with a ticker.
LEMMA CoverageType ==
  ASSUME TypeOK, NEW t \in Tickers, NEW ok \in BOOLEAN,
         NEW table \in [Days -> [Tickers -> Writers \union {"NONE"}]]
  PROVE  /\ Covers(table, t) \in [Days -> [Tickers -> Writers \union {"NONE"}]]
         /\ TickerDone(table, t, ok) => pipe' \in PipeRows
<1>1. pipe \in PipeRows
  BY DEF TypeOK, PipeRows
<1>2. pipe.who \in Writers \union {"NONE"}
  BY <1>1 DEF PipeRows
<1>3. Covers(table, t) \in [Days -> [Tickers -> Writers \union {"NONE"}]]
  BY <1>2, TableType DEF Covers
<1>4. ASSUME TickerDone(table, t, ok) PROVE pipe' \in PipeRows
  BY <1>1, <1>4 DEF TickerDone, PipeRows
<1> QED
  BY <1>3, <1>4

\* Every step keeps the types.
LEMMA TypeStep == TypeOK /\ [Next]_vars => TypeOK'
<1> SUFFICES ASSUME TypeOK, [Next]_vars PROVE TypeOK'
  OBVIOUS
<1> USE DEF TypeOK, Days, day, Writers, SlotStatuses, ScanStatuses, evidence, scanning, collecting
<1>0. pipe \in PipeRows
  BY DEF PipeRows
<1>1. CASE StartRadarSlot
  <2>1. Pipe("CANONICAL", "RADAR_OI") \in PipeRows
    BY PipeType DEF Modes
  <2> QED
    BY <1>1, <2>1 DEF StartRadarSlot, PipeRows
<1>2. CASE StartActivitySlot
  <2>1. Pipe("CANONICAL", "ACTIVITY") \in PipeRows
    BY PipeType DEF Modes
  <2> QED
    BY <1>2, <2>1 DEF StartActivitySlot, PipeRows
<1>3. ASSUME NEW mode \in Modes, StartManual(mode) PROVE TypeOK'
  <2>1. Pipe("MANUAL", mode) \in PipeRows
    BY PipeType
  <2>2. manuals' \in 0..MaxManual
    BY <1>3, EvidenceAssumption DEF StartManual
  <2> QED
    BY <1>3, <2>1, <2>2 DEF StartManual, PipeRows
<1>4. CASE StartArchive \/ StandaloneStops
  BY <1>4, EvidenceAssumption DEF StartArchive, StandaloneStops
<1>5. CASE PipelineRaises \/ PipelineLost
  <2>1. slot' \in [radar : SlotStatuses, activity : SlotStatuses]
    BY <1>5 DEF PipelineRaises, PipelineLost
  <2> QED
    BY <1>5, <2>1, NoPipeType DEF PipelineRaises, PipelineLost, PipeRows
<1>6. ASSUME NEW t \in Tickers, NEW outcome \in {"COMPLETE", "PARTIAL", "ERROR"},
             ArchiveTicker(t, outcome) \/ StandaloneTicker(t, outcome)
      PROVE  TypeOK'
  <2>1. ASSUME NEW who \in Writers \union {"NONE"}, Archives(who, t, outcome)
        PROVE  surface' \in [Days -> [Tickers -> [by : Writers \union {"NONE"}, full : BOOLEAN]]]
    <3>1. [by |-> who, full |-> outcome = "COMPLETE"]
            \in [by : Writers \union {"NONE"}, full : BOOLEAN]
      OBVIOUS
    <3> QED
      BY <2>1, <3>1, TableType DEF Archives
  <2>2. CASE ArchiveTicker(t, outcome)
    <3> DEFINE status == IF Known(t) /\ outcome # "ERROR" THEN "NO_NEW" ELSE outcome
    <3>1. status \in {"NONE", "COMPLETE", "PARTIAL", "ERROR", "NO_NEW"}
      OBVIOUS
    <3>2. /\ oiRow' = IF pipe.who = "CANONICAL" THEN [oiRow EXCEPT ![day][t] = status] ELSE oiRow
          /\ pipe' = [pipe EXCEPT !.left = @ \ {t},
                                  !.failed = @ \/ status \in {"PARTIAL", "ERROR"},
                                  !.persisted = @ \/ status = "COMPLETE"]
          /\ Archives(pipe.who, t, outcome)
          /\ UNCHANGED <<evening, radar, activity, slot, archiver, observer, scanning, manuals>>
      BY <2>2 DEF ArchiveTicker
    <3> HIDE DEF status
    <3>3. oiRow' \in [Days -> [Tickers -> {"NONE", "COMPLETE", "PARTIAL", "ERROR", "NO_NEW"}]]
      BY <3>1, <3>2, TableType
    <3>4. pipe' \in PipeRows
      BY <1>0, <3>2 DEF PipeRows
    <3>5. pipe.who \in Writers \union {"NONE"}
      BY <1>0 DEF PipeRows
    <3>6. surface' \in [Days -> [Tickers -> [by : Writers \union {"NONE"}, full : BOOLEAN]]]
      BY <2>1, <3>2, <3>5
    <3> QED
      BY <3>2, <3>3, <3>4, <3>6 DEF PipeRows
  <2>3. CASE StandaloneTicker(t, outcome)
    BY <2>1, <2>3 DEF StandaloneTicker
  <2> QED
    BY <1>6, <2>2, <2>3
<1>7. ASSUME NEW t \in Tickers, NEW ok \in BOOLEAN, RadarTicker(t, ok) \/ ActivityTicker(t, ok)
      PROVE  TypeOK'
  <2>1. CASE RadarTicker(t, ok)
    <3>1. pipe' \in PipeRows
      BY <2>1, CoverageType DEF RadarTicker
    <3>2. radar' \in [Days -> [Tickers -> Writers \union {"NONE"}]]
      BY <2>1, CoverageType DEF RadarTicker
    <3> QED
      BY <2>1, <3>1, <3>2 DEF RadarTicker, PipeRows
  <2>2. CASE ActivityTicker(t, ok)
    <3>1. pipe' \in PipeRows
      BY <2>2, CoverageType DEF ActivityTicker
    <3>2. activity' \in [Days -> [Tickers -> Writers \union {"NONE"}]]
      BY <2>2, CoverageType DEF ActivityTicker
    <3> QED
      BY <2>2, <3>1, <3>2 DEF ActivityTicker, PipeRows
  <2> QED
    BY <1>7, <2>1, <2>2
<1>8. ASSUME NEW status \in {"COMPLETE", "PARTIAL", "NO_NEW", "FAILED"}, ArchiveEnds(status)
      PROVE  TypeOK'
  <2>1. AfterArchive(pipe, status) \in PipeRows
    BY <1>0, NextJobType
  <2> QED
    BY <1>8, <2>1 DEF ArchiveEnds, PipeRows
<1>9. ASSUME NEW status \in {"COMPLETE", "PARTIAL", "FAILED"}, RadarEnds(status)
      PROVE  TypeOK'
  BY <1>9 DEF RadarEnds, PipelineStatus, NoPipe, Modes
<1>10. ASSUME NEW status \in {"COMPLETE", "PARTIAL", "FAILED"}, ActivityEnds(status)
       PROVE  TypeOK'
  <2>1. RadarNext(pipe) \in PipeRows /\ NoPipe \in PipeRows
    BY <1>0, NextJobType, NoPipeType
  <2> QED
    BY <1>10, <2>1 DEF ActivityEnds, PipeRows
<1>11. ASSUME NEW status \in {"COMPLETE", "PARTIAL", "FAILED"}, ScanEnds(status)
       PROVE  TypeOK'
  BY <1>11 DEF ScanEnds, SettleObservation
<1>12. CASE CheckReadiness \/ StartScan
  BY <1>12 DEF CheckReadiness, StartScan, SettleObservation
<1>13. ASSUME NEW status \in {"COMPLETE", "SUCCESS_NO_CANDIDATE"}, ObservationEnds(status)
       PROVE  TypeOK'
  BY <1>13 DEF ObservationEnds, SettleObservation
<1>14. CASE ObservationRaises \/ ObserverLost
  BY <1>14 DEF ObservationRaises, ObserverLost, SettleObservation
<1>15. CASE StartManualScan \/ ManualScanEnds
  <2>1. manuals' \in 0..MaxManual
    BY <1>15, EvidenceAssumption DEF StartManualScan, ManualScanEnds
  <2> QED
    BY <1>15, <2>1 DEF StartManualScan, ManualScanEnds
<1>16. CASE SessionCloses \/ LastEvening \/ UNCHANGED vars
  BY <1>16 DEF SessionCloses, LastEvening, vars
<1> QED
  BY <1>1, <1>2, <1>3, <1>4, <1>5, <1>6, <1>7, <1>8, <1>9, <1>10, <1>11, <1>12, <1>13,
     <1>14, <1>15, <1>16 DEF Next

-----------------------------------------------------------------------------
(* Whose pipeline it is *)

\* A subjob after another leaves the pipeline to its owner, in its mode.
LEMMA NextJobOwner ==
  ASSUME NEW p \in PipeRows
  PROVE  /\ RadarNext(p).who = p.who /\ RadarNext(p).mode = p.mode
         /\ RadarNext(p).job = "RADAR"
         /\ ActivityNext(p).who = p.who /\ ActivityNext(p).mode = p.mode
         /\ ActivityNext(p).job = "ACTIVITY"
         /\ \A status \in {"COMPLETE", "PARTIAL", "NO_NEW", "FAILED"} :
              /\ AfterArchive(p, status).who = p.who
              /\ AfterArchive(p, status).mode = p.mode
              /\ p.mode # "ALL" => AfterArchive(p, status).job = "RADAR"
<1>1. ASSUME NEW q \in PipeRows
      PROVE  /\ RadarNext(q).who = q.who /\ RadarNext(q).mode = q.mode
             /\ RadarNext(q).job = "RADAR"
             /\ ActivityNext(q).who = q.who /\ ActivityNext(q).mode = q.mode
             /\ ActivityNext(q).job = "ACTIVITY"
  BY DEF RadarNext, ActivityNext, PipeRows
<1>2. ASSUME NEW status \in {"COMPLETE", "PARTIAL", "NO_NEW", "FAILED"}
      PROVE  /\ AfterArchive(p, status).who = p.who
             /\ AfterArchive(p, status).mode = p.mode
             /\ p.mode # "ALL" => AfterArchive(p, status).job = "RADAR"
  <2> DEFINE q == [p EXCEPT !.oi = status]
  <2>1. q \in PipeRows /\ q.who = p.who /\ q.mode = p.mode
    BY DEF PipeRows
  <2>2. AfterArchive(p, status) = IF p.mode = "ALL" /\ evening THEN ActivityNext(q)
                                                               ELSE RadarNext(q)
    BY DEF AfterArchive
  <2> QED
    BY <1>1, <2>1, <2>2
<1> QED
  BY <1>1, <1>2

LEMMA PipeOwner ==
  ASSUME NEW who \in Writers, NEW mode \in Modes
  PROVE  /\ Pipe(who, mode).who = who /\ Pipe(who, mode).mode = mode
         /\ mode = "ACTIVITY" => Pipe(who, mode).job = "ACTIVITY"
         /\ mode = "RADAR_OI" => Pipe(who, mode).job # "ACTIVITY"
<1> DEFINE p == [NoPipe EXCEPT !.who = who, !.mode = mode]
<1>1. p \in PipeRows /\ p.who = who /\ p.mode = mode
  BY DEF NoPipe, PipeRows, Writers
<1>2. /\ [p EXCEPT !.job = "OI", !.left = Tickers].who = who
      /\ [p EXCEPT !.job = "OI", !.left = Tickers].mode = mode
      /\ [p EXCEPT !.job = "OI", !.left = Tickers].job = "OI"
  BY DEF NoPipe
<1> HIDE DEF p
<1>3. /\ RadarNext(p).who = who /\ RadarNext(p).mode = mode /\ RadarNext(p).job = "RADAR"
      /\ ActivityNext(p).who = who /\ ActivityNext(p).mode = mode
      /\ ActivityNext(p).job = "ACTIVITY"
      /\ AfterArchive(p, "FAILED").who = who /\ AfterArchive(p, "FAILED").mode = mode
      /\ mode # "ALL" => AfterArchive(p, "FAILED").job = "RADAR"
  BY <1>1, NextJobOwner
<1> QED
  BY <1>2, <1>3 DEF Pipe, p

-----------------------------------------------------------------------------
(* The inductive invariant *)

LEMMA InitInv == Init => IInv
<1> SUFFICES ASSUME Init PROVE IInv
  OBVIOUS
<1>1. PICK covered \in SUBSET Tickers :
        /\ radar = Yesterday(covered, "CANONICAL", "NONE")
        /\ activity = Yesterday(covered, "CANONICAL", "NONE")
        /\ surface = Yesterday(covered, [by |-> "CANONICAL", full |-> TRUE],
                               [by |-> "NONE", full |-> FALSE])
        /\ oiRow = Yesterday(covered, "COMPLETE", "NONE")
  BY DEF Init
<1>2. /\ radar \in [Days -> [Tickers -> Writers \union {"NONE"}]]
      /\ activity \in [Days -> [Tickers -> Writers \union {"NONE"}]]
      /\ oiRow \in [Days -> [Tickers -> {"NONE", "COMPLETE", "PARTIAL", "ERROR", "NO_NEW"}]]
  BY <1>1 DEF Yesterday, Writers
<1>3. surface \in [Days -> [Tickers -> [by : Writers \union {"NONE"}, full : BOOLEAN]]]
  BY <1>1 DEF Yesterday, Writers
<1>4. slot \in [radar : SlotStatuses, activity : SlotStatuses] /\ manuals \in 0..MaxManual
  BY EvidenceAssumption DEF Init, SlotStatuses
<1>5. TypeOK
  BY <1>2, <1>3, <1>4, NoPipeType DEF Init, TypeOK, PipeRows, ScanStatuses
<1> QED
  BY <1>5 DEF Init, IInv, CanonicalPipe, ObservationInv, GateInv, ObservedSlotHasBaselines,
              NoPipe

\* A write of the collections keeps what the gate has seen: the tables of coverage keep
\* their first writer.
LEMMA CoverageKept ==
  ASSUME TypeOK, NEW t \in Tickers,
         NEW table \in [Days -> [Tickers -> Writers \union {"NONE"}]]
  PROVE  \A d \in Days, u \in Tickers :
           table[d][u] # "NONE" => Covers(table, t)[d][u] = table[d][u]
<1> SUFFICES ASSUME NEW d \in Days, NEW u \in Tickers, table[d][u] # "NONE"
             PROVE  Covers(table, t)[d][u] = table[d][u]
  OBVIOUS
<1>1. CASE d = day /\ u = t
  BY <1>1 DEF Covers
<1>2. CASE ~(d = day /\ u = t)
  <2>1. [table EXCEPT ![day][t] = pipe.who][d][u] = table[d][u]
    BY <1>2 DEF Days, day
  <2> QED
    BY <2>1 DEF Covers
<1> QED
  BY <1>1, <1>2

\* Coverage that is kept where it is, with the archive's rows of the day, keeps the day
\* covered.
LEMMA DayStaysCovered ==
  ASSUME DayIsCovered, UNCHANGED oiRow,
         \A t \in Tickers : /\ radar[day][t] # "NONE" => radar'[day][t] = radar[day][t]
                            /\ activity[day][t] # "NONE" => activity'[day][t] = activity[day][t]
  PROVE  DayIsCovered'
  BY DEF DayIsCovered, day


\* Every step preserves the strengthening.
LEMMA StepInv == IInv /\ [Next]_vars => IInv'
<1> SUFFICES ASSUME IInv, [Next]_vars PROVE IInv'
  OBVIOUS
<1> USE DEF evidence, scanning, collecting
<1>0. TypeOK' /\ pipe \in PipeRows
  BY TypeStep DEF IInv, TypeOK, PipeRows
<1> DEFINE Rest == CanonicalPipe /\ ObservationInv /\ GateInv /\ ObservedSlotHasBaselines
<1> SUFFICES Rest'
  BY <1>0 DEF IInv
\* A step that leaves the evidence, the observation and its slot.
<1>a. ASSUME UNCHANGED <<evening, evidence, slot, observer, scan, baselines>>, CanonicalPipe'
      PROVE  Rest'
  BY <1>a DEF IInv, ObservationInv, GateInv, DayIsCovered, ObservedSlotHasBaselines
<1>1. CASE StartRadarSlot
  <2>1. slot'.activity = slot.activity
    BY <1>1 DEF StartRadarSlot, IInv, TypeOK
  <2>2. Pipe("CANONICAL", "RADAR_OI").mode = "RADAR_OI"
        /\ Pipe("CANONICAL", "RADAR_OI").job # "ACTIVITY"
    BY PipeOwner DEF Modes, Writers
  <2>3. CanonicalPipe'
    BY <1>1, <2>1, <2>2 DEF StartRadarSlot, IInv, CanonicalPipe
  <2> QED
    BY <1>1, <2>1, <2>3
       DEF StartRadarSlot, IInv, ObservationInv, GateInv, DayIsCovered, ObservedSlotHasBaselines
<1>2. CASE StartActivitySlot
  <2>1. /\ Pipe("CANONICAL", "ACTIVITY").mode = "ACTIVITY"
        /\ Pipe("CANONICAL", "ACTIVITY").job = "ACTIVITY"
    BY PipeOwner DEF Modes, Writers
  <2>2. slot'.activity = IF pipe.who = "NONE" THEN "CLAIMED" ELSE "FAILED"
    BY <1>2 DEF StartActivitySlot, IInv, TypeOK
  <2>3. observer = "idle" /\ scan = "NONE"
    BY <1>2 DEF StartActivitySlot, IInv, ObservationInv
  <2>4. pipe'.who = "CANONICAL" => pipe.who = "NONE"
    BY <1>2 DEF StartActivitySlot, IInv, CanonicalPipe
  <2>5. CanonicalPipe'
    BY <1>2, <2>1, <2>2, <2>3, <2>4 DEF StartActivitySlot, CanonicalPipe
  <2> QED
    BY <1>2, <2>2, <2>3, <2>5
       DEF StartActivitySlot, ObservationInv, GateInv, ObservedSlotHasBaselines
<1>3. ASSUME NEW mode \in Modes, StartManual(mode) PROVE Rest'
  <2>1. Pipe("MANUAL", mode).who = "MANUAL"
    BY PipeOwner DEF Writers
  <2> QED
    BY <1>3, <1>a, <2>1 DEF StartManual, CanonicalPipe
<1>4. CASE StartArchive \/ StandaloneStops
  BY <1>4, <1>a DEF StartArchive, StandaloneStops, IInv, CanonicalPipe
<1>5. CASE PipelineRaises \/ PipelineLost
  <2>1. pipe'.who = "NONE"
    BY <1>5 DEF PipelineRaises, PipelineLost, NoPipe
  <2>2. \/ slot'.activity = slot.activity
        \/ observer = "idle" /\ scan = "NONE" /\ slot'.activity = "FAILED"
    BY <1>5 DEF PipelineRaises, PipelineLost, IInv, TypeOK, CanonicalPipe
  <2> QED
    BY <1>5, <2>1, <2>2 DEF PipelineRaises, PipelineLost, IInv, CanonicalPipe, ObservationInv,
                            GateInv, DayIsCovered, ObservedSlotHasBaselines
<1>6. ASSUME NEW t \in Tickers, NEW outcome \in {"COMPLETE", "PARTIAL", "ERROR"},
             ArchiveTicker(t, outcome)
      PROVE  Rest'
  <2>1. /\ pipe'.who = pipe.who /\ pipe'.mode = pipe.mode /\ pipe'.job = "OI"
        /\ pipe.job = "OI"
    BY <1>0, <1>6 DEF ArchiveTicker, PipeRows
  <2>2. evening => UNCHANGED oiRow
    BY <1>6, <2>1 DEF ArchiveTicker, IInv, CanonicalPipe
  <2> QED
    BY <1>6, <2>1, <2>2 DEF ArchiveTicker, IInv, CanonicalPipe, ObservationInv, GateInv,
                            DayIsCovered, ObservedSlotHasBaselines
<1>7. ASSUME NEW t \in Tickers, NEW outcome \in {"COMPLETE", "PARTIAL", "ERROR"},
             StandaloneTicker(t, outcome)
      PROVE  Rest'
  BY <1>7 DEF StandaloneTicker, IInv, CanonicalPipe, ObservationInv, GateInv, DayIsCovered,
              ObservedSlotHasBaselines
<1>8. ASSUME NEW t \in Tickers, NEW ok \in BOOLEAN, RadarTicker(t, ok) \/ ActivityTicker(t, ok)
      PROVE  Rest'
  <2>1. pipe'.who = pipe.who /\ pipe'.mode = pipe.mode /\ pipe'.job = pipe.job
    BY <1>0, <1>8 DEF RadarTicker, ActivityTicker, TickerDone, PipeRows
  <2>2. /\ UNCHANGED <<evening, oiRow, slot, observer, scan, baselines>>
        /\ radar' = radar \/ radar' = Covers(radar, t)
        /\ activity' = activity \/ activity' = Covers(activity, t)
    BY <1>8 DEF RadarTicker, ActivityTicker
  <2>3. DayIsCovered => DayIsCovered'
    <3>1. ASSUME NEW u \in Tickers
          PROVE  /\ radar[day][u] # "NONE" => radar'[day][u] = radar[day][u]
                 /\ activity[day][u] # "NONE" => activity'[day][u] = activity[day][u]
      <4>1. day \in Days /\ TypeOK
        BY DEF IInv, Days, day
      <4>2. /\ radar \in [Days -> [Tickers -> Writers \union {"NONE"}]]
            /\ activity \in [Days -> [Tickers -> Writers \union {"NONE"}]]
        BY <4>1 DEF TypeOK
      <4>3. radar[day][u] # "NONE" => Covers(radar, t)[day][u] = radar[day][u]
        BY <4>1, <4>2, CoverageKept
      <4>4. activity[day][u] # "NONE" => Covers(activity, t)[day][u] = activity[day][u]
        BY <4>1, <4>2, CoverageKept
      <4> QED
        BY <2>2, <4>3, <4>4
    <3> QED
      BY <2>2, <3>1, DayStaysCovered
  <2> QED
    BY <2>1, <2>2, <2>3 DEF IInv, CanonicalPipe, ObservationInv, GateInv,
                            ObservedSlotHasBaselines
<1>9. ASSUME NEW status \in {"COMPLETE", "PARTIAL", "NO_NEW", "FAILED"}, ArchiveEnds(status)
      PROVE  Rest'
  <2>1. /\ pipe'.who = pipe.who /\ pipe'.mode = pipe.mode /\ pipe.job = "OI"
        /\ pipe.mode # "ALL" => pipe'.job = "RADAR"
    BY <1>0, <1>9, NextJobOwner DEF ArchiveEnds
  <2>2. CanonicalPipe'
    BY <1>9, <2>1 DEF ArchiveEnds, IInv, CanonicalPipe
  <2> QED
    BY <1>9, <1>a, <2>2 DEF ArchiveEnds
<1>10. ASSUME NEW status \in {"COMPLETE", "PARTIAL", "FAILED"}, RadarEnds(status)
       PROVE  Rest'
  <2>1. pipe'.who = "NONE" /\ slot'.activity = slot.activity
    BY <1>10 DEF RadarEnds, NoPipe, IInv, TypeOK
  <2> QED
    BY <1>10, <2>1 DEF RadarEnds, IInv, CanonicalPipe, ObservationInv, GateInv, DayIsCovered,
                       ObservedSlotHasBaselines
<1>11. ASSUME NEW status \in {"COMPLETE", "PARTIAL", "FAILED"}, ActivityEnds(status)
       PROVE  Rest'
  <2>1. UNCHANGED <<evening, evidence, scan, baselines>>
    BY <1>11 DEF ActivityEnds
  <2>2. CASE pipe.who = "CANONICAL"
    <3>1. /\ evening /\ pipe.mode = "ACTIVITY" /\ slot.activity = "CLAIMED"
          /\ observer = "idle" /\ scan = "NONE"
      BY <1>11, <2>2 DEF ActivityEnds, IInv, CanonicalPipe
    <3>2. pipe'.who = "NONE"
      BY <1>11, <3>1 DEF ActivityEnds, NoPipe
    <3>3. IF status = "COMPLETE" THEN observer' = "collected" /\ slot'.activity = "CLAIMED"
          ELSE observer' = "idle" /\ slot'.activity = status
      BY <1>11, <2>2, <3>1 DEF ActivityEnds, IInv, TypeOK
    <3> QED
      BY <2>1, <3>1, <3>2, <3>3 DEF CanonicalPipe, ObservationInv, GateInv,
                                    ObservedSlotHasBaselines
  <2>3. CASE pipe.who # "CANONICAL"
    <3>1. pipe'.who # "CANONICAL"
      BY <1>0, <1>11, <2>3, NextJobOwner DEF ActivityEnds, NoPipe
    <3>2. UNCHANGED <<slot, observer>>
      BY <1>11, <2>3 DEF ActivityEnds
    <3> QED
      BY <1>a, <2>1, <3>1, <3>2 DEF CanonicalPipe
  <2> QED
    BY <2>2, <2>3
\* An observation and a canonical pipeline of the evening exclude one another.
<1>b. observer # "idle" => pipe.who # "CANONICAL"
  BY DEF IInv, CanonicalPipe, ObservationInv
<1>12. ASSUME NEW status \in {"COMPLETE", "PARTIAL", "FAILED"}, ScanEnds(status)
       PROVE  Rest'
  <2>1. IF status = "COMPLETE" THEN observer' = "scanned" /\ slot'.activity = "CLAIMED"
        ELSE observer' = "idle" /\ slot'.activity = status
    BY <1>12 DEF ScanEnds, SettleObservation, IInv, TypeOK, ObservationInv
  <2> QED
    BY <1>12, <1>b, <2>1 DEF ScanEnds, IInv, CanonicalPipe, ObservationInv, GateInv,
                             DayIsCovered, ObservedSlotHasBaselines
<1>13. CASE CheckReadiness
  <2>1. IF Ready THEN observer' = "admitted" /\ slot' = slot
        ELSE observer' = "idle" /\ slot'.activity = "HELD_NOT_READY"
    BY <1>13 DEF CheckReadiness, SettleObservation, IInv, TypeOK
  <2>2. Ready => DayIsCovered /\ scan = "NONE"
    BY DEF Ready, DayIsCovered
  <2> QED
    BY <1>13, <1>b, <2>1, <2>2 DEF CheckReadiness, IInv, CanonicalPipe, ObservationInv, GateInv,
                                   DayIsCovered, ObservedSlotHasBaselines
<1>14. CASE StartScan
  <2>1. IF ScanRunning THEN observer' = "idle" /\ slot'.activity = "FAILED" /\ scan' = scan
        ELSE observer' = "scanning" /\ slot' = slot /\ scan' = "RUNNING"
    BY <1>14 DEF StartScan, SettleObservation, IInv, TypeOK
  <2> QED
    BY <1>14, <1>b, <2>1 DEF StartScan, IInv, CanonicalPipe, ObservationInv, GateInv,
                             DayIsCovered, ObservedSlotHasBaselines
<1>15. ASSUME NEW status \in {"COMPLETE", "SUCCESS_NO_CANDIDATE"}, ObservationEnds(status)
       PROVE  Rest'
  <2>1. observer' = "idle" /\ slot'.activity = status
    BY <1>15 DEF ObservationEnds, SettleObservation, IInv, TypeOK
  <2> QED
    BY <1>15, <1>b, <2>1 DEF ObservationEnds, IInv, CanonicalPipe, ObservationInv, GateInv,
                             DayIsCovered, ObservedSlotHasBaselines
<1>16. CASE ObservationRaises \/ ObserverLost
  <2>1. /\ observer' = "idle" /\ observer # "idle"
        /\ slot'.activity \in {"CLAIMED", "FAILED"}
    BY <1>16 DEF ObservationRaises, ObserverLost, SettleObservation, IInv, TypeOK, ObservationInv
  <2> QED
    BY <1>16, <1>b, <2>1 DEF ObservationRaises, ObserverLost, IInv, CanonicalPipe,
                             ObservationInv, GateInv, DayIsCovered, ObservedSlotHasBaselines
<1>17. CASE StartManualScan \/ ManualScanEnds
  BY <1>17, <1>a DEF StartManualScan, ManualScanEnds, IInv, CanonicalPipe
<1>18. CASE SessionCloses
  BY <1>18 DEF SessionCloses, IInv, CanonicalPipe, ObservationInv, GateInv, DayIsCovered,
               ObservedSlotHasBaselines
<1>19. CASE LastEvening \/ UNCHANGED vars
  BY <1>19, <1>a DEF LastEvening, vars, IInv, CanonicalPipe
<1> QED
  BY <1>1, <1>2, <1>3, <1>4, <1>5, <1>6, <1>7, <1>8, <1>9, <1>10, <1>11, <1>12, <1>13, <1>14,
     <1>15, <1>16, <1>17, <1>18, <1>19 DEF Next

-----------------------------------------------------------------------------
(* The theorems *)

\* The strengthening holds of every behaviour, whatever the universe and the manual
\* collections and scans beside the canonical slots.
THEOREM Invariance == Spec => []IInv
<1> QED
  BY InitInv, StepInv, PTL DEF Spec

\* Every evidence table, slot, pipeline and scan keeps its type.
THEOREM TypeCorrect == Spec => []TypeOK
<1>1. IInv => TypeOK
  BY DEF IInv
<1> QED
  BY <1>1, Invariance, PTL

\* The scheduled scan of the day rests, as long as its row exists, on the coverage its own
\* day's canonical slots wrote for every ticker: the gate's verdict does not go stale.
THEOREM ScanOwnEvidence == Spec => []ScanHasOwnEvidence
<1>1. IInv => ScanHasOwnEvidence
  BY DEF IInv, GateInv, DayIsCovered, ScanHasOwnEvidence
<1> QED
  BY <1>1, Invariance, PTL

\* A slot settled with an observation has its complete scan and committed baselines,
\* wherever a process dies.
THEOREM ObservedHasBaselines == Spec => []ObservedSlotHasBaselines
<1>1. IInv => ObservedSlotHasBaselines
  BY DEF IInv
<1> QED
  BY <1>1, Invariance, PTL

\* No step takes covered evidence over: the first writer of a date's coverage, and what it
\* archived of the date's snapshots, stay.
THEOREM CoverageAppendOnly == Spec => CoverageIsAppendOnly
<1>1. ASSUME TypeOK, [Next]_vars, NEW d \in Days, NEW u \in Tickers
      PROVE  /\ radar[d][u] # "NONE" => radar'[d][u] = radar[d][u]
             /\ activity[d][u] # "NONE" => activity'[d][u] = activity[d][u]
             /\ surface[d][u].by # "NONE" => surface'[d][u] = surface[d][u]
  <2> USE DEF evidence
  <2>1. \/ radar' = radar
        \/ \E t \in Tickers : radar' = Covers(radar, t)
    BY <1>1 DEF Next, vars, StartRadarSlot, StartActivitySlot, StartManual, StartArchive,
      StandaloneStops, PipelineRaises, PipelineLost, ArchiveTicker, StandaloneTicker,
      RadarTicker, ActivityTicker, ArchiveEnds, RadarEnds, ActivityEnds, ScanEnds,
      CheckReadiness, StartScan, ObservationEnds, ObservationRaises, ObserverLost,
      StartManualScan, ManualScanEnds, SessionCloses, LastEvening
  <2>2. \/ activity' = activity
        \/ \E t \in Tickers : activity' = Covers(activity, t)
    BY <1>1 DEF Next, vars, StartRadarSlot, StartActivitySlot, StartManual, StartArchive,
      StandaloneStops, PipelineRaises, PipelineLost, ArchiveTicker, StandaloneTicker,
      RadarTicker, ActivityTicker, ArchiveEnds, RadarEnds, ActivityEnds, ScanEnds,
      CheckReadiness, StartScan, ObservationEnds, ObservationRaises, ObserverLost,
      StartManualScan, ManualScanEnds, SessionCloses, LastEvening
  <2>3. \/ surface' = surface
        \/ \E t \in Tickers, who \in Writers \union {"NONE"},
              outcome \in {"COMPLETE", "PARTIAL", "ERROR"} : Archives(who, t, outcome)
    <3>1. pipe.who \in Writers \union {"NONE"} /\ "MANUAL" \in Writers
      BY <1>1 DEF TypeOK, Writers
    <3>2. \/ surface' = surface
          \/ \E t \in Tickers, outcome \in {"COMPLETE", "PARTIAL", "ERROR"} :
               ArchiveTicker(t, outcome) \/ StandaloneTicker(t, outcome)
      BY <1>1 DEF Next, vars, StartRadarSlot, StartActivitySlot, StartManual, StartArchive,
        StandaloneStops, PipelineRaises, PipelineLost, RadarTicker, ActivityTicker,
        ArchiveEnds, RadarEnds, ActivityEnds, ScanEnds, CheckReadiness, StartScan,
        ObservationEnds, ObservationRaises, ObserverLost, StartManualScan, ManualScanEnds,
        SessionCloses, LastEvening
    <3>3. ASSUME NEW t \in Tickers, NEW outcome \in {"COMPLETE", "PARTIAL", "ERROR"},
                 ArchiveTicker(t, outcome) \/ StandaloneTicker(t, outcome)
          PROVE  Archives(pipe.who, t, outcome) \/ Archives("MANUAL", t, outcome)
      BY <3>3 DEF ArchiveTicker, StandaloneTicker
    <3> QED
      BY <3>1, <3>2, <3>3
  <2>4. ASSUME NEW t \in Tickers, NEW who \in Writers \union {"NONE"},
               NEW outcome \in {"COMPLETE", "PARTIAL", "ERROR"}, Archives(who, t, outcome),
               surface[d][u].by # "NONE"
        PROVE  surface'[d][u] = surface[d][u]
    <3>1. CASE d = day /\ u = t
      BY <2>4, <3>1 DEF Archives, Known
    <3>2. CASE ~(d = day /\ u = t)
      BY <1>1, <2>4, <3>2 DEF Archives, TypeOK, Days, day
    <3> QED
      BY <3>1, <3>2
  <2>5. /\ radar \in [Days -> [Tickers -> Writers \union {"NONE"}]]
        /\ activity \in [Days -> [Tickers -> Writers \union {"NONE"}]]
    BY <1>1 DEF TypeOK
  <2> QED
    BY <1>1, <2>1, <2>2, <2>3, <2>4, <2>5, CoverageKept
<1>2. TypeOK /\ [Next]_vars =>
        [\A d \in Days, t \in Tickers :
           /\ radar[d][t] # "NONE" => radar'[d][t] = radar[d][t]
           /\ activity[d][t] # "NONE" => activity'[d][t] = activity[d][t]
           /\ surface[d][t].by # "NONE" => surface'[d][t] = surface[d][t]]_vars
  BY <1>1
<1>3. Spec => [][Next]_vars
  BY PTL DEF Spec
<1>4. Spec => []TypeOK
  BY TypeCorrect
<1> QED
  BY <1>2, <1>3, <1>4, PTL DEF CoverageIsAppendOnly
===============================================================================
