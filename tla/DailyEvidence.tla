---------------------------- MODULE DailyEvidence -----------------------------
(***************************************************************************)
(* A market day after another: the canonical RADAR_OI slot of the morning  *)
(* and ACTIVITY_VNEXT slot of the evening, manual collections and scans    *)
(* beside them, the evidence they leave in the database, the readiness     *)
(* gate and the one vNext observation of the day.                          *)
(*                                                                         *)
(* The evidence of day d is keyed by its dates: d itself for Activity, and *)
(* the previous session, which the vendor has published by the morning of  *)
(* d, for Radar and Daily OI.  A canonical slot runs at most once          *)
(* (CanonicalSlots); an archived ticker is described by what               *)
(* DailyOiArchive leaves of it.                                            *)
(***************************************************************************)
EXTENDS Integers

CONSTANTS
  Tickers,     \* UNIVERSE
  MaxManual    \* bound: manual collections, and manual scans

ASSUME EvidenceAssumption == MaxManual \in Nat /\ Tickers # {}

VARIABLES
  evening,        \* whether the session of the day has closed
  radar,          \* radar[d][t]: who wrote the COMPLETE RADAR coverage row, or NONE
  activity,       \* activity[d][t]: the same for the ACTIVITY coverage row
  surface,        \* surface[d][t]: who wrote the OI snapshots, and if all chains are in
  oiRow,          \* oiRow[d][t]: the ticker row of the canonical archive run of day d
  slot,           \* status of the day's RADAR_OI and ACTIVITY_VNEXT slots
  pipe,           \* the pipeline that holds the mag7_daily_v13 lock
  archiver,       \* tickers left of a standalone archive, {} if none holds its lock
  observer,       \* where the day's canonical observation is
  scan,           \* status of the day's scheduled_daily ScanRun
  manualScan,     \* whether the latest dashboard or CLI ScanRun is RUNNING
  baselines,      \* the observation's baselines are committed
  manuals         \* history: manual collections and scans started

vars == <<evening, radar, activity, surface, oiRow, slot, pipe, archiver, observer,
          scan, manualScan, baselines, manuals>>
evidence == <<radar, activity, surface, oiRow>>
scanning == <<scan, manualScan, baselines>>
collecting == <<pipe, archiver>>

Days == 0..1           \* the day before, of which only the evidence is left, and the day
day == 1
Writers == {"CANONICAL", "MANUAL"}
SlotStatuses == {"TODO", "CLAIMED", "COMPLETE", "PARTIAL", "FAILED", "HELD_NOT_READY",
                 "SUCCESS_NO_CANDIDATE"}
ScanStatuses == {"NONE", "RUNNING", "COMPLETE", "PARTIAL", "FAILED"}

\* The modes of the daily pipeline, and the Radar-only backfill under the same lock.
Modes == {"ALL", "RADAR_OI", "ACTIVITY", "BACKFILL"}

NoPipe == [who |-> "NONE", mode |-> "ALL", job |-> "IDLE", left |-> {}, failed |-> FALSE,
           persisted |-> FALSE, oi |-> "NONE"]

TypeOK ==
  /\ evening \in BOOLEAN
  /\ radar \in [Days -> [Tickers -> Writers \union {"NONE"}]]
  /\ activity \in [Days -> [Tickers -> Writers \union {"NONE"}]]
  /\ surface \in [Days -> [Tickers -> [by : Writers \union {"NONE"}, full : BOOLEAN]]]
  /\ oiRow \in [Days -> [Tickers -> {"NONE", "COMPLETE", "PARTIAL", "ERROR", "NO_NEW"}]]
  /\ slot \in [radar : SlotStatuses, activity : SlotStatuses]
  /\ pipe \in [who : Writers \union {"NONE"}, mode : Modes,
               job : {"IDLE", "OI", "RADAR", "ACTIVITY"}, left : SUBSET Tickers,
               failed : BOOLEAN, persisted : BOOLEAN,
               oi : {"NONE", "COMPLETE", "PARTIAL", "NO_NEW", "FAILED"}]
  /\ archiver \in SUBSET Tickers
  /\ observer \in {"idle", "collected", "admitted", "scanning", "scanned"}
  /\ scan \in ScanStatuses
  /\ manualScan \in BOOLEAN
  /\ baselines \in BOOLEAN
  /\ manuals \in 0..MaxManual

\* The day before has covered some of the tickers.
Yesterday(covered, value, none) ==
  [d \in Days |-> [t \in Tickers |-> IF d = 0 /\ t \in covered THEN value ELSE none]]

Init ==
  /\ evening = FALSE
  /\ \E covered \in SUBSET Tickers :
       /\ radar = Yesterday(covered, "CANONICAL", "NONE")
       /\ activity = Yesterday(covered, "CANONICAL", "NONE")
       /\ surface = Yesterday(covered, [by |-> "CANONICAL", full |-> TRUE],
                              [by |-> "NONE", full |-> FALSE])
       /\ oiRow = Yesterday(covered, "COMPLETE", "NONE")
  /\ slot = [radar |-> "TODO", activity |-> "TODO"]
  /\ pipe = NoPipe
  /\ archiver = {}
  /\ observer = "idle"
  /\ scan = "NONE"
  /\ manualScan = FALSE
  /\ baselines = FALSE
  /\ manuals = 0

-----------------------------------------------------------------------------
(* Starting and ending a collection *)

\* _target_tickers: what the latest covered date misses, or everything.
RadarTargets ==
  LET covered == {d \in Days : \E t \in Tickers : radar[d][t] # "NONE"}
      latest == CHOOSE d \in covered : \A e \in covered : e <= d
      missing == {t \in Tickers : radar[latest][t] = "NONE"}
  IN IF covered = {} \/ missing = {} THEN Tickers ELSE missing

\* Radar comes last in every mode that has it.
RadarNext(p) == [p EXCEPT !.job = "RADAR", !.left = RadarTargets, !.failed = FALSE,
                          !.persisted = FALSE]

\* Activity, before the close, is skipped without a request.
ActivityNext(p) == [p EXCEPT !.job = "ACTIVITY", !.left = Tickers, !.failed = FALSE,
                             !.persisted = FALSE]

AfterArchive(p, status) ==
  LET q == [p EXCEPT !.oi = status]
  IN IF p.mode = "ALL" /\ evening THEN ActivityNext(q) ELSE RadarNext(q)

\* A standalone archive that holds the archive lock fails the pipeline's own.
Pipe(who, mode) ==
  LET p == [NoPipe EXCEPT !.who = who, !.mode = mode] IN
  IF mode = "ACTIVITY" THEN ActivityNext(p)
  ELSE IF mode = "BACKFILL" THEN RadarNext(p)
  ELSE IF archiver # {} THEN AfterArchive(p, "FAILED")
  ELSE [p EXCEPT !.job = "OI", !.left = Tickers]

\* The morning slot.  A pipeline lock held elsewhere fails the slot.
StartRadarSlot ==
  /\ ~evening /\ slot.radar = "TODO"
  /\ IF pipe.who = "NONE"
       THEN /\ slot' = [slot EXCEPT !.radar = "CLAIMED"]
            /\ pipe' = Pipe("CANONICAL", "RADAR_OI")
       ELSE /\ slot' = [slot EXCEPT !.radar = "FAILED"]
            /\ UNCHANGED pipe
  /\ UNCHANGED <<evening, evidence, archiver, observer, scanning, manuals>>

\* The slot after the close.
StartActivitySlot ==
  /\ evening /\ slot.activity = "TODO"
  /\ IF pipe.who = "NONE"
       THEN /\ slot' = [slot EXCEPT !.activity = "CLAIMED"]
            /\ pipe' = Pipe("CANONICAL", "ACTIVITY")
       ELSE /\ slot' = [slot EXCEPT !.activity = "FAILED"]
            /\ UNCHANGED pipe
  /\ UNCHANGED <<evening, evidence, archiver, observer, scanning, manuals>>

\* archive-mag7-daily and backfill-mag7-radar, from the CLI or a workflow dispatch.
StartManual(mode) ==
  /\ pipe.who = "NONE" /\ manuals < MaxManual
  /\ mode = "ACTIVITY" => evening
  /\ pipe' = Pipe("MANUAL", mode)
  /\ manuals' = manuals + 1
  /\ UNCHANGED <<evening, evidence, slot, archiver, observer, scanning>>

\* archive-mag7-oi: only the lock of the archive is asked for.
StartArchive ==
  /\ archiver = {} /\ pipe.job # "OI" /\ manuals < MaxManual
  /\ archiver' = Tickers
  /\ manuals' = manuals + 1
  /\ UNCHANGED <<evening, evidence, slot, pipe, observer, scanning>>

\* The pipeline raises, outside its isolated subjobs: a canonical slot fails.
PipelineRaises ==
  /\ pipe.who # "NONE"
  /\ slot' = IF pipe.who # "CANONICAL" THEN slot
             ELSE IF pipe.mode = "ACTIVITY"
               THEN [slot EXCEPT !.activity = "FAILED"]
               ELSE [slot EXCEPT !.radar = "FAILED"]
  /\ pipe' = NoPipe
  /\ UNCHANGED <<evening, evidence, archiver, observer, scanning, manuals>>

\* The process of the pipeline dies: its lock is released, a canonical slot stays CLAIMED.
PipelineLost ==
  /\ pipe.who # "NONE"
  /\ pipe' = NoPipe
  /\ UNCHANGED <<evening, evidence, slot, archiver, observer, scanning, manuals>>

-----------------------------------------------------------------------------
(* Daily OI and Radar *)

Known(t) == surface[day][t].by # "NONE"

\* One ticker of an archive: its surface may fail, with nothing committed; the date's
\* snapshots are reused whoever wrote them; else it is archived in full, or in part, with
\* snapshots committed and its row in any unaccepted state (a lost process leaves that too).
Archives(who, t, outcome) ==
  surface' = IF Known(t) \/ outcome = "ERROR" THEN surface
             ELSE [surface EXCEPT ![day][t] = [by |-> who, full |-> outcome = "COMPLETE"]]

ArchiveTicker(t, outcome) ==
  /\ pipe.job = "OI" /\ t \in pipe.left
  /\ Archives(pipe.who, t, outcome)
  /\ LET status == IF Known(t) /\ outcome # "ERROR" THEN "NO_NEW" ELSE outcome
     IN /\ oiRow' = IF pipe.who = "CANONICAL"
                      THEN [oiRow EXCEPT ![day][t] = status] ELSE oiRow
        /\ pipe' = [pipe EXCEPT !.left = @ \ {t},
                                !.failed = @ \/ status \in {"PARTIAL", "ERROR"},
                                !.persisted = @ \/ status = "COMPLETE"]
  /\ UNCHANGED <<evening, radar, activity, slot, archiver, observer, scanning, manuals>>

StandaloneTicker(t, outcome) ==
  /\ t \in archiver
  /\ Archives("MANUAL", t, outcome)
  /\ archiver' = archiver \ {t}
  /\ UNCHANGED <<evening, radar, activity, oiRow, slot, pipe, observer, scanning, manuals>>

\* The standalone archive fails, is stopped by its budget, or dies.
StandaloneStops ==
  /\ archiver # {}
  /\ archiver' = {}
  /\ UNCHANGED <<evening, evidence, slot, pipe, observer, scanning, manuals>>

\* DailyOiArchiver._finish.
ArchiveStatus ==
  IF pipe.failed THEN "PARTIAL" ELSE IF pipe.persisted THEN "COMPLETE" ELSE "NO_NEW"

\* The archive is over, or failed, and the pipeline goes on.
ArchiveEnds(status) ==
  /\ pipe.job = "OI"
  /\ status = "FAILED" \/ (pipe.left = {} /\ status = ArchiveStatus)
  /\ pipe' = AfterArchive(pipe, status)
  /\ UNCHANGED <<evening, evidence, slot, archiver, observer, scanning, manuals>>

\* Variant: a collection rewrites the coverage it finds.
CoversAgain(table, t) == [table EXCEPT ![day][t] = pipe.who]

\* One ticker of a coverage table: the first writer of the date keeps it.
Covers(table, t) ==
  IF table[day][t] = "NONE" THEN [table EXCEPT ![day][t] = pipe.who] ELSE table

\* A ticker done: collected, skipped (its date is covered), or failed.
TickerDone(table, t, ok) ==
  pipe' = [pipe EXCEPT !.left = @ \ {t},
                       !.failed = @ \/ ~ok,
                       !.persisted = @ \/ (ok /\ table[day][t] = "NONE")]

RadarTicker(t, ok) ==
  /\ pipe.job = "RADAR" /\ t \in pipe.left
  /\ radar' = IF ok THEN Covers(radar, t) ELSE radar
  /\ TickerDone(radar, t, ok)
  /\ UNCHANGED <<evening, activity, surface, oiRow, slot, archiver, observer, scanning, manuals>>

\* What a coverage subjob answers; one that raises is rolled back and FAILED.
CoverageStatus(status) ==
  \/ status = "FAILED"
  \/ /\ pipe.left = {}
     /\ status = IF ~pipe.failed THEN "COMPLETE"
                 ELSE IF pipe.persisted THEN "PARTIAL" ELSE "FAILED"

\* Variant: the pipeline answers with its archive's status.
PipelineStatusOfArchive(radarStatus) == pipe.oi

\* daily_pipeline_status: an archive without new data is not among the complete ones.
PipelineStatus(radarStatus) ==
  LET subjobs == {pipe.oi, radarStatus} IN
  IF subjobs = {"COMPLETE"} THEN "COMPLETE"
  ELSE IF subjobs = {"FAILED"} THEN "FAILED" ELSE "PARTIAL"

RadarEnds(status) ==
  /\ pipe.job = "RADAR" /\ CoverageStatus(status)
  /\ slot' = IF pipe.who = "CANONICAL"
               THEN [slot EXCEPT !.radar = PipelineStatus(status)] ELSE slot
  /\ pipe' = NoPipe
  /\ UNCHANGED <<evening, evidence, archiver, observer, scanning, manuals>>

-----------------------------------------------------------------------------
(* Activity *)

\* A ticker that some run has covered is skipped without a request.
ActivityTicker(t, ok) ==
  /\ pipe.job = "ACTIVITY" /\ t \in pipe.left
  /\ activity[day][t] # "NONE" => ok
  /\ activity' = IF ok THEN Covers(activity, t) ELSE activity
  /\ TickerDone(activity, t, ok)
  /\ UNCHANGED <<evening, radar, surface, oiRow, slot, archiver, observer, scanning, manuals>>

\* An incomplete canonical collection settles the slot; a complete one is observed.
ActivityEnds(status) ==
  /\ pipe.job = "ACTIVITY" /\ CoverageStatus(status)
  /\ pipe' = IF pipe.mode = "ALL" THEN RadarNext(pipe) ELSE NoPipe
  /\ IF pipe.who = "CANONICAL" /\ status = "COMPLETE"
       THEN observer' = "collected" ELSE UNCHANGED observer
  /\ slot' = IF pipe.who = "CANONICAL" /\ status # "COMPLETE"
               THEN [slot EXCEPT !.activity = status] ELSE slot
  /\ UNCHANGED <<evening, evidence, archiver, scanning, manuals>>

-----------------------------------------------------------------------------
(* Readiness and the observation *)

\* Variant: evidence of any run counts.
ReadyFromAnyRun ==
  \A t \in Tickers : /\ activity[day][t] # "NONE"
                     /\ radar[day][t] # "NONE"
                     /\ oiRow[day][t] \in {"COMPLETE", "NO_NEW"}

\* load_daily_observation_readiness for a canonical slot.
Ready ==
  /\ \A t \in Tickers : /\ activity[day][t] = "CANONICAL"
                        /\ radar[day][t] = "CANONICAL"
                        /\ oiRow[day][t] \in {"COMPLETE", "NO_NEW"}
  /\ scan = "NONE"

SettleObservation(status) ==
  /\ slot' = [slot EXCEPT !.activity = status]
  /\ observer' = "idle"

\* Fail closed, or go on to the scanner.
CheckReadiness ==
  /\ observer = "collected"
  /\ IF Ready THEN observer' = "admitted" /\ UNCHANGED slot
              ELSE SettleObservation("HELD_NOT_READY")
  /\ UNCHANGED <<evening, evidence, collecting, scanning, manuals>>

ScanRunning == manualScan \/ scan = "RUNNING"

\* The scan lock and the RUNNING rows: another scan, live or dead, fails the slot.
StartScan ==
  /\ observer = "admitted"
  /\ IF ScanRunning
       THEN SettleObservation("FAILED") /\ UNCHANGED scan
       ELSE /\ scan' = "RUNNING"
            /\ observer' = "scanning"
            /\ UNCHANGED slot
  /\ UNCHANGED <<evening, evidence, collecting, manualScan, baselines, manuals>>

\* Terminal status and candidates in one commit; only a COMPLETE scan is observed.
ScanEnds(status) ==
  /\ observer = "scanning"
  /\ scan' = status
  /\ IF status = "COMPLETE" THEN observer' = "scanned" /\ UNCHANGED slot
                            ELSE SettleObservation(status)
  /\ UNCHANGED <<evening, evidence, collecting, manualScan, baselines, manuals>>

\* Variant: the slot is settled before the baselines are committed.
ObservationEndsEarly(status) ==
  /\ observer = "scanned"
  /\ SettleObservation(status)
  /\ UNCHANGED <<evening, evidence, collecting, scanning, manuals>>

\* The baselines' commit, and the slot's verdict, which is committed after it: whoever sees
\* the verdict sees the baselines in the code as well.
ObservationEnds(status) ==
  /\ observer = "scanned"
  /\ baselines' = TRUE
  /\ SettleObservation(status)
  /\ UNCHANGED <<evening, evidence, collecting, scan, manualScan, manuals>>

\* The gate, the scan's own failure handling, or the baselines raise: the slot fails, and
\* the scan is left as it is, RUNNING too.
ObservationRaises ==
  /\ observer # "idle"
  /\ SettleObservation("FAILED")
  /\ UNCHANGED <<evening, evidence, collecting, scanning, manuals>>

\* The process of the observation dies: a scan it had begun stays RUNNING.
ObserverLost ==
  /\ observer # "idle"
  /\ observer' = "idle"
  /\ UNCHANGED <<evening, evidence, slot, collecting, scanning, manuals>>

\* A scan from the dashboard or the CLI.
StartManualScan ==
  /\ ~ScanRunning /\ manuals < MaxManual
  /\ manualScan' = TRUE
  /\ manuals' = manuals + 1
  /\ UNCHANGED <<evening, evidence, slot, collecting, observer, scan, baselines>>

ManualScanEnds ==
  /\ manualScan
  /\ manualScan' = FALSE
  /\ UNCHANGED <<evening, evidence, slot, collecting, observer, scan, baselines, manuals>>

-----------------------------------------------------------------------------

\* A morning run is over by then: a manual one still running is one that starts later.
SessionCloses ==
  /\ ~evening /\ pipe.who = "NONE" /\ archiver = {}
  /\ evening' = TRUE
  /\ UNCHANGED <<evidence, slot, collecting, observer, scanning, manuals>>

\* Collections do not outlive their day (a canonical delivery is cut off after 30
\* minutes), and the day ends the model: this is not a deadlock.
LastEvening ==
  /\ evening /\ pipe.who = "NONE" /\ archiver = {}
  /\ observer = "idle" /\ slot.activity # "TODO"
  /\ UNCHANGED vars

Next ==
  \/ StartRadarSlot \/ StartActivitySlot
  \/ \E mode \in Modes : StartManual(mode)
  \/ StartArchive \/ StandaloneStops
  \/ PipelineRaises \/ PipelineLost
  \/ \E t \in Tickers : \/ \E outcome \in {"COMPLETE", "PARTIAL", "ERROR"} :
                             ArchiveTicker(t, outcome) \/ StandaloneTicker(t, outcome)
                        \/ \E ok \in BOOLEAN : RadarTicker(t, ok) \/ ActivityTicker(t, ok)
  \/ \E status \in {"COMPLETE", "PARTIAL", "NO_NEW", "FAILED"} : ArchiveEnds(status)
  \/ \E status \in {"COMPLETE", "PARTIAL", "FAILED"} :
       RadarEnds(status) \/ ActivityEnds(status) \/ ScanEnds(status)
  \/ CheckReadiness \/ StartScan
  \/ \E status \in {"COMPLETE", "SUCCESS_NO_CANDIDATE"} : ObservationEnds(status)
  \/ ObservationRaises \/ ObserverLost
  \/ StartManualScan \/ ManualScanEnds
  \/ SessionCloses \/ LastEvening

Spec == Init /\ [][Next]_vars
-----------------------------------------------------------------------------
(* What the day's evidence guarantees *)

\* The scheduled scan rests on the coverage that the canonical slots of that very day
\* wrote, for every ticker: whatever manual collections covered first, and
\* whatever other days left behind, never opens the gate.
ScanHasOwnEvidence ==
  scan # "NONE" =>
    \A t \in Tickers : /\ radar[day][t] = "CANONICAL"
                       /\ activity[day][t] = "CANONICAL"
                       /\ oiRow[day][t] \in {"COMPLETE", "NO_NEW"}

\* An ACTIVITY_VNEXT slot that reports an observation has its complete scan and its
\* committed baselines; a process that dies in between leaves the slot CLAIMED.
ObservedSlotHasBaselines ==
  slot.activity \in {"COMPLETE", "SUCCESS_NO_CANDIDATE"} =>
    scan = "COMPLETE" /\ baselines

\* A date that is covered stays covered by the run that covered it first: no later
\* collection, canonical or manual, takes the evidence over.
CoverageIsAppendOnly ==
  [][\A d \in Days, t \in Tickers :
       /\ radar[d][t] # "NONE" => radar'[d][t] = radar[d][t]
       /\ activity[d][t] # "NONE" => activity'[d][t] = activity[d][t]
       /\ surface[d][t].by # "NONE" => surface'[d][t] = surface[d][t]]_vars

\* The resilience report says that readiness stays fail-closed while a ticker's archive
\* is incomplete.  Refuted: a manual archive that left chains out is reused by the
\* canonical run as NO_NEW, which the gate accepts.
ScannedArchiveIsFull ==
  scan # "NONE" => \A t \in Tickers : surface[day][t].full

\* The scan specification says that the Radar job runs across the required MAG7
\* coverage and reports COMPLETE truthfully.  Refuted: after a partial day, the next
\* run collects only what that earlier date misses.
RadarCompleteMeansCovered ==
  slot.radar = "COMPLETE" => \A t \in Tickers : radar[day][t] # "NONE"
===============================================================================
