------------------------ MODULE DailyOiArchive_proofs ------------------------
(***************************************************************************)
(* Proofs about DailyOiArchive, for any universe, surfaces, number of      *)
(* runs, budget, retries and polls: the rows agree with the chains,        *)
(* COMPLETE hides nothing, a finished run accounts for everything, the     *)
(* budget is overshot by at most one request, and a replay rewrites        *)
(* nothing.                                                                *)
(*                                                                         *)
(* What is inductive relates what the archiver keeps in memory to what it  *)
(* has committed: the expiries still to request are the PENDING chains of  *)
(* its ticker, the incomplete ones those that were deferred or refused,    *)
(* and the rows tell the tickers behind it from those ahead.               *)
(***************************************************************************)
EXTENDS DailyOiArchive, FiniteSetTheorems, TLAPS

\* Statuses of a ticker the archiver has left without a budget stop.
Settled == {"COMPLETE", "PARTIAL_INCOMPLETE_CHAIN", "VENDOR_ERROR", "NO_NEW_VENDOR_OI_SNAPSHOT"}

\* Tickers that the run in progress has not opened.
Ahead(t) ==
  \/ job.phase = "surface" /\ t >= job.ticker
  \/ job.phase \in {"chains", "recovery"} /\ t > job.ticker

\* Runs: the one in progress is RUNNING, and one that has not started has written nothing.
RunInv ==
  /\ job.phase # "idle" => job.run \in Runs /\ run[job.run] = "RUNNING"
  /\ \A t \in Tickers : owner[t] # 0 => run[owner[t]] # "NONE"
  /\ \A r \in Runs : run[r] = "NONE" => \A t \in Tickers : row[r][t] = EmptyRow

\* The walk over the universe: what the rows of the run in progress say.
WalkInv == job.phase # "idle" =>
  /\ \A t \in Tickers : Ahead(t) => row[job.run][t] = EmptyRow
  /\ \A t \in Tickers : t < job.ticker => row[job.run][t].status \in Settled
  /\ job.phase \in {"chains", "recovery"} => row[job.run][job.ticker].status = "RUNNING"
  /\ job.phase = "stopping" => job.limited
  /\ job.phase = "finishing" => \A t \in Tickers :
       /\ row[job.run][t].status # "NONE"
       /\ job.limited \/ row[job.run][t].status \in Settled

\* An expiry of the ticker in progress is where its chain's status says in the memory m.
KnownAs(x, status, m) ==
  /\ x \in m.todo <=> status = "PENDING"
  /\ x \in m.incomplete <=> status \in {"DEFERRED", "REFUSED"}
  /\ x \in m.deferred => status = "DEFERRED"
  /\ status = "ACTIVE_CHAIN_UNAVAILABLE" => m.activeGone
  /\ status # "BUDGET_NOT_ATTEMPTED"

\* No chains without an owner.
OwnerInv == \A t \in Tickers : owner[t] = 0 => \A x \in Expiries : chain[t][x] = "NONE"

\* What the archiver has in memory: those of the ticker in progress.
MemoryInv ==
  /\ job.phase = "surface" =>
       job.deferred = {} /\ job.incomplete = {} /\ job.activeGone = FALSE
  /\ job.phase \in {"chains", "recovery"} =>
       /\ owner[job.ticker] \in {0, job.run}
       /\ \A x \in Expiries : KnownAs(x, chain[job.ticker][x], job)
  /\ job.phase = "recovery" => job.todo = {}

\* The chains of a ticker left behind are not PENDING, unless the vendor aborted it.
PendingInv == job.phase # "idle" =>
  \A t \in Tickers :
    /\ owner[t] = job.run
    /\ row[job.run][t].status # "VENDOR_ERROR"
    /\ ~(job.phase = "chains" /\ t = job.ticker)
    => \A x \in Expiries : chain[t][x] # "PENDING"

ChainsInv == OwnerInv /\ MemoryInv /\ PendingInv

IInv ==
  /\ TypeOK /\ BudgetRespected
  /\ RunInv /\ WalkInv /\ ChainsInv
  /\ RowsMatchChains /\ CompleteMeansCovered /\ OmissionsAreExplicit
-----------------------------------------------------------------------------
(* The universe, and counting expiries *)

\* The expiries are finitely many, and so many at most are in a scope or have a status.
LEMMA Universe ==
  /\ IsFiniteSet(Expiries) /\ Cardinality(Expiries) \in Nat
  /\ \A S \in SUBSET Expiries :
       IsFiniteSet(S) /\ Cardinality(S) \in 0..Cardinality(Expiries)
  /\ \A t \in Tickers : \A n \in 0..SurfaceSize[t] : 1..n \subseteq Expiries
  /\ 1 \in Tickers /\ TickerCount \in Tickers
<1> DEFINE scope == [t \in Tickers |-> 1..SurfaceSize[t]]
           scopes == {1..SurfaceSize[t] : t \in Tickers}
<1>1. IsFiniteSet(Tickers) /\ TickerCount \in Nat \ {0}
  BY FS_Interval, ArchiveAssumption DEF Tickers
<1>2. scope \in Surjection(Tickers, scopes)
  BY DEF Surjection
<1>3. IsFiniteSet(scopes)
  BY <1>1, <1>2, FS_Surjection
<1>4. ASSUME NEW S \in scopes PROVE IsFiniteSet(S)
  BY <1>4, FS_Interval, ArchiveAssumption DEF Tickers
<1>5. IsFiniteSet(Expiries)
  BY <1>3, <1>4, FS_UNION DEF Expiries
<1>6. ASSUME NEW S \in SUBSET Expiries
      PROVE  IsFiniteSet(S) /\ Cardinality(S) \in 0..Cardinality(Expiries)
  BY <1>5, FS_Subset, FS_CardinalityType
<1>7. ASSUME NEW t \in Tickers, NEW n \in 0..SurfaceSize[t] PROVE 1..n \subseteq Expiries
  <2>1. SurfaceSize[t] \in Nat /\ n \in Nat /\ n <= SurfaceSize[t]
    BY ArchiveAssumption DEF Tickers
  <2>2. 1..n \subseteq 1..SurfaceSize[t]
    BY <2>1
  <2> QED
    BY <2>2 DEF Expiries
<1> QED
  BY <1>1, <1>5, <1>6, <1>7, FS_CardinalityType DEF Tickers

\* The expiries of a ticker with a complete chain, and with one counted as incomplete.
Done(t) == {x \in Expiries : chain[t][x] = "COMPLETE"}
Counted(t) == {x \in Expiries : chain[t][x] \in IncompleteChain}

LEMMA Counting ==
  ASSUME NEW S \in SUBSET Expiries, NEW x \in Expiries
  PROVE  /\ x \notin S => /\ Cardinality(S \union {x}) = Cardinality(S) + 1
                          /\ Cardinality(S) + 1 \in 0..Cardinality(Expiries)
         /\ x \in S => /\ Cardinality(S \ {x}) = Cardinality(S) - 1
                       /\ Cardinality(S) - 1 \in 0..Cardinality(Expiries)
<1>1. IsFiniteSet(S) /\ S \union {x} \subseteq Expiries /\ S \ {x} \subseteq Expiries
  BY Universe
<1>2. /\ Cardinality(S \union {x}) \in 0..Cardinality(Expiries)
      /\ Cardinality(S \ {x}) \in 0..Cardinality(Expiries)
  BY <1>1, Universe
<1>3. Cardinality(S \union {x}) = IF x \in S THEN Cardinality(S) ELSE Cardinality(S) + 1
  BY <1>1, FS_AddElement
<1>4. Cardinality(S \ {x}) = IF x \in S THEN Cardinality(S) - 1 ELSE Cardinality(S)
  BY <1>1, FS_RemoveElement
<1> QED
  BY <1>2, <1>3, <1>4

\* The row of the ticker in progress has counted its chains.
LEMMA RowCounts ==
  ASSUME TypeOK, RowsMatchChains, NEW t \in Tickers, owner[t] # 0
  PROVE  /\ row[owner[t]][t].complete = Cardinality(Done(t))
         /\ row[owner[t]][t].incomplete = Cardinality(Counted(t))
         /\ Done(t) \subseteq Expiries /\ Counted(t) \subseteq Expiries
  BY DEF RowsMatchChains, Done, Counted

-----------------------------------------------------------------------------
(* Types *)

Rows == [status : RowStatuses, complete : 0..Cardinality(Expiries),
         incomplete : 0..Cardinality(Expiries)]
Jobs == [phase : {"idle", "surface", "chains", "recovery", "stopping", "finishing"},
         run : 0..MaxRuns, ticker : Tickers, todo : SUBSET Expiries,
         polls : 0..MaxPolls, deferred : SUBSET Expiries,
         incomplete : SUBSET Expiries, activeGone : BOOLEAN,
         attempts : Nat, recoveries : Nat, limited : BOOLEAN]

\* The two ways the row of a ticker in the run in progress changes.
LEMMA RowTypes ==
  ASSUME TypeOK, job.run \in Runs
  PROVE  /\ \A t \in Tickers, status \in RowStatuses :
              SetRow(t, status) =>
                /\ row' \in [Runs -> [Tickers -> Rows]]
                /\ row'[job.run][t] = [row[job.run][t] EXCEPT !.status = status]
                /\ \A r \in Runs, u \in Tickers :
                     r # job.run \/ u # t => row'[r][u] = row[r][u]
         /\ \A t \in Tickers, new \in Rows :
              row' = [row EXCEPT ![job.run][t] = new] =>
                /\ row' \in [Runs -> [Tickers -> Rows]]
                /\ row'[job.run][t] = new
                /\ \A r \in Runs, u \in Tickers :
                     r # job.run \/ u # t => row'[r][u] = row[r][u]
<1>1. row \in [Runs -> [Tickers -> Rows]]
  BY DEF TypeOK, Rows
<1>2. ASSUME NEW t \in Tickers, NEW new \in Rows, row' = [row EXCEPT ![job.run][t] = new]
      PROVE  /\ row' \in [Runs -> [Tickers -> Rows]]
             /\ row'[job.run][t] = new
             /\ \A r \in Runs, u \in Tickers :
                  r # job.run \/ u # t => row'[r][u] = row[r][u]
  BY <1>1, <1>2
<1>3. ASSUME NEW t \in Tickers, NEW status \in RowStatuses, SetRow(t, status)
      PROVE  /\ row' = [row EXCEPT ![job.run][t] = [row[job.run][t] EXCEPT !.status = status]]
             /\ [row[job.run][t] EXCEPT !.status = status] \in Rows
  <2>1. row[job.run][t] \in Rows
    BY <1>1
  <2>2. [row[job.run][t] EXCEPT !.status = status] \in Rows
    BY <2>1 DEF Rows
  <2>3. row' = [row EXCEPT ![job.run][t] = [row[job.run][t] EXCEPT !.status = status]]
    BY <1>1, <1>3 DEF SetRow
  <2> QED
    BY <2>2, <2>3
<1> QED
  BY <1>2, <1>3

LEMMA TypeStep ==
  TypeOK /\ BudgetRespected /\ RunInv /\ ChainsInv /\ RowsMatchChains /\ [Next]_vars
    => TypeOK' /\ BudgetRespected'
<1> SUFFICES ASSUME TypeOK, BudgetRespected, RunInv, ChainsInv, RowsMatchChains, [Next]_vars
             PROVE  TypeOK' /\ BudgetRespected'
  OBVIOUS
<1>0. /\ job \in Jobs /\ row \in [Runs -> [Tickers -> Rows]]
      /\ run \in [Runs -> RunStatuses] /\ chain \in [Tickers -> [Expiries -> ChainStatuses]]
      /\ owner \in [Tickers -> 0..MaxRuns] /\ content \in [Tickers -> [Expiries -> Nat]]
      /\ job.ticker \in Tickers
  BY DEF TypeOK, Jobs, Rows
<1>a. ASSUME job' \in Jobs, row' \in [Runs -> [Tickers -> Rows]],
             run' \in [Runs -> RunStatuses], chain' \in [Tickers -> [Expiries -> ChainStatuses]],
             owner' \in [Tickers -> 0..MaxRuns], content' \in [Tickers -> [Expiries -> Nat]],
             job'.attempts <= MaxAttempts + MaxRetries
      PROVE  TypeOK' /\ BudgetRespected'
  BY <1>a DEF TypeOK, BudgetRespected, Jobs, Rows
<1>b. /\ Idle \in Jobs /\ MaxRetries \in Nat /\ MaxAttempts \in Nat
      /\ Idle.attempts = 0
  BY Universe, ArchiveAssumption DEF Idle, Jobs
<1>c. ASSUME NEW cost \in Costs, HasRoom
      PROVE  job.attempts + cost \in Nat /\ job.attempts + cost <= MaxAttempts + MaxRetries
  BY <1>0, <1>b, <1>c DEF Costs, HasRoom, Jobs
<1>d. job.phase # "idle" => job.run \in Runs
  BY DEF RunInv
<1>e. ASSUME NEW t \in Tickers, NEW cost \in Nat, NextTicker(t, cost)
      PROVE  job' \in Jobs /\ job'.attempts = job.attempts + cost
  <2>1. t # TickerCount => t + 1 \in Tickers
    BY ArchiveAssumption DEF Tickers
  <2>2. job.attempts + cost \in Nat /\ 0 \in 0..MaxPolls
    BY <1>0, ArchiveAssumption DEF Jobs
  <2> QED
    BY <1>0, <1>e, <2>1, <2>2 DEF NextTicker, Jobs
<1>1. ASSUME NEW r \in Runs, StartRun(r) PROVE job' \in Jobs /\ job'.attempts = 0
  <2>1. r \in 0..MaxRuns /\ job' = [Idle EXCEPT !.phase = "surface", !.run = r]
    BY <1>1, ArchiveAssumption DEF StartRun, Runs
  <2> QED
    BY <1>b, <2>1 DEF Jobs
<1>2. ASSUME NEW r \in Runs, StartRun(r) PROVE TypeOK' /\ BudgetRespected'
  <2>1. run' \in [Runs -> RunStatuses]
    BY <1>0, <1>2 DEF StartRun, RunStatuses
  <2>2. job' \in Jobs /\ job'.attempts <= MaxAttempts + MaxRetries
    BY <1>1, <1>2, <1>b
  <2> QED
    BY <1>0, <1>2, <1>a, <2>1, <2>2 DEF StartRun
<1>3. ASSUME UNCHANGED <<run, row, chain, owner, content>>, job' \in Jobs,
             job'.attempts = job.attempts
      PROVE  TypeOK' /\ BudgetRespected'
  BY <1>0, <1>3, <1>a DEF BudgetRespected
<1>4. ASSUME SurfaceBudgetStop \/ NormalPassEnds \/ RecoveryBudgetStop
      PROVE  TypeOK' /\ BudgetRespected'
  <2>1. job' \in Jobs /\ job'.attempts = job.attempts
    BY <1>0, <1>4 DEF SurfaceBudgetStop, NormalPassEnds, RecoveryBudgetStop, Jobs
  <2> QED
    BY <1>3, <1>4, <2>1 DEF SurfaceBudgetStop, NormalPassEnds, RecoveryBudgetStop
<1>5. ASSUME NEW x \in Expiries, RecoveryCapReached(x) PROVE TypeOK' /\ BudgetRespected'
  <2>1. job' \in Jobs /\ job'.attempts = job.attempts
    BY <1>0, <1>5 DEF RecoveryCapReached, Jobs
  <2> QED
    BY <1>3, <1>5, <2>1 DEF RecoveryCapReached
<1>6. ASSUME NEW t \in Tickers, NEW cost \in Costs, SurfaceFails(t, cost) \/ NoNewSurface(t, cost)
      PROVE  TypeOK' /\ BudgetRespected'
  <2>1. /\ HasRoom /\ NextTicker(t, cost) /\ UNCHANGED <<run, chain, owner, content>>
        /\ \E status \in RowStatuses : SetRow(t, status)
        /\ job.run \in Runs
    BY <1>6, <1>d DEF SurfaceFails, NoNewSurface, RowStatuses
  <2>2. cost \in Nat
    BY <1>b DEF Costs
  <2>3. row' \in [Runs -> [Tickers -> Rows]]
    BY <2>1, RowTypes
  <2> QED
    BY <1>0, <1>a, <1>c, <1>e, <2>1, <2>2, <2>3
<1>7. ASSUME NEW t \in Tickers, NEW cost \in Costs, NEW n \in 0..SurfaceSize[t],
             OpenTicker(t, cost, 1..n)
      PROVE  TypeOK' /\ BudgetRespected'
  <2>1. 1..n \subseteq Expiries /\ job.run \in Runs /\ job.run \in 0..MaxRuns
    BY <1>0, <1>7, <1>d, Universe DEF OpenTicker, Jobs
  <2>2. job' \in Jobs /\ job'.attempts = job.attempts + cost
    BY <1>0, <1>7, <1>c, <2>1 DEF OpenTicker, Jobs
  <2>3. row' \in [Runs -> [Tickers -> Rows]]
    BY <1>7, <2>1, RowTypes DEF OpenTicker, RowStatuses
  <2>4. chain' \in [Tickers -> [Expiries -> ChainStatuses]]
    <3>1. [x \in Expiries |-> IF x \in 1..n THEN "PENDING" ELSE "NONE"]
            \in [Expiries -> ChainStatuses]
      BY DEF ChainStatuses
    <3> QED
      BY <1>0, <1>7, <3>1 DEF OpenTicker
  <2>5. owner' \in [Tickers -> 0..MaxRuns]
    BY <1>0, <1>7, <2>1, ArchiveAssumption DEF OpenTicker
  <2> QED
    BY <1>0, <1>7, <1>a, <1>c, <2>2, <2>3, <2>4, <2>5 DEF OpenTicker
<1>8. ASSUME NEW x \in Expiries, NEW cost \in Costs, ChainMaterializing(x, cost)
      PROVE  TypeOK' /\ BudgetRespected'
  <2>1. job.polls + 1 \in 0..MaxPolls /\ job.attempts + cost \in Nat
        /\ job.attempts + cost <= MaxAttempts + MaxRetries
    BY <1>0, <1>8, <1>c, ArchiveAssumption DEF ChainMaterializing, Requesting, Jobs
  <2>2. job' \in Jobs /\ job'.attempts = job.attempts + cost
    BY <1>0, <1>8, <2>1 DEF ChainMaterializing, Jobs
  <2> QED
    BY <1>0, <1>8, <1>a, <2>1, <2>2 DEF ChainMaterializing
\* Queues stay queues of expiries.
<1>l. ASSUME NEW x \in Expiries
      PROVE  /\ job.todo \ {x} \in SUBSET Expiries /\ job.deferred \ {x} \in SUBSET Expiries
             /\ job.incomplete \ {x} \in SUBSET Expiries
             /\ job.incomplete \union {x} \in SUBSET Expiries
             /\ job.deferred \union {x} \in SUBSET Expiries
             /\ 0 \in 0..MaxPolls /\ job.recoveries + 1 \in Nat
  BY <1>0, ArchiveAssumption DEF Jobs
\* A chain of the ticker in progress gets a status.
<1>f. ASSUME NEW x \in Expiries, NEW status \in ChainStatuses,
             chain' = [chain EXCEPT ![job.ticker][x] = status]
      PROVE  chain' \in [Tickers -> [Expiries -> ChainStatuses]]
  BY <1>0, <1>f
<1>g. ASSUME NEW x \in Expiries, PersistChain(x)
      PROVE  /\ chain' \in [Tickers -> [Expiries -> ChainStatuses]]
             /\ content' \in [Tickers -> [Expiries -> Nat]]
  <2>1. content[job.ticker][x] + 1 \in Nat
    BY <1>0
  <2> QED
    BY <1>0, <1>g, <1>f, <2>1 DEF PersistChain, ChainStatuses
\* Its row counts one more.
<1>h. ASSUME NEW x \in Expiries, job.phase \in {"chains", "recovery"},
             chain[job.ticker][x] # "NONE"
      PROVE  /\ owner[job.ticker] = job.run /\ job.run # 0 /\ job.run \in Runs
             /\ row[job.run][job.ticker] \in Rows
             /\ row[job.run][job.ticker].complete = Cardinality(Done(job.ticker))
             /\ row[job.run][job.ticker].incomplete = Cardinality(Counted(job.ticker))
  <2>1. owner[job.ticker] = job.run /\ job.run # 0 /\ job.run \in Runs
    BY <1>0, <1>d, <1>h DEF ChainsInv, OwnerInv, MemoryInv, Runs
  <2> QED
    BY <1>0, <2>1, RowCounts
<1>i. ASSUME NEW x \in Expiries, job.phase \in {"chains", "recovery"},
             chain[job.ticker][x] = "PENDING"
      PROVE  /\ row[job.run][job.ticker].complete + 1 \in 0..Cardinality(Expiries)
             /\ row[job.run][job.ticker].incomplete + 1 \in 0..Cardinality(Expiries)
  <2>1. x \notin Done(job.ticker) /\ x \notin Counted(job.ticker)
    BY <1>i DEF Done, Counted, IncompleteChain, Unavailable
  <2>2. Done(job.ticker) \subseteq Expiries /\ Counted(job.ticker) \subseteq Expiries
    BY DEF Done, Counted
  <2> QED
    BY <1>h, <1>i, <2>1, <2>2, Counting
<1>j. ASSUME NEW x \in Expiries, Requesting(x)
      PROVE  chain[job.ticker][x] = "PENDING" /\ job.phase = "chains" /\ HasRoom
  BY <1>j DEF Requesting, First, ChainsInv, OwnerInv, MemoryInv, KnownAs
<1>9. ASSUME NEW x \in Expiries, NEW cost \in Costs, ChainComplete(x, cost)
      PROVE  TypeOK' /\ BudgetRespected'
  <2>1. /\ row[job.run][job.ticker].complete + 1 \in 0..Cardinality(Expiries)
        /\ row[job.run][job.ticker] \in Rows /\ job.run \in Runs
    BY <1>9, <1>h, <1>i, <1>j DEF ChainComplete
  <2>2. row' \in [Runs -> [Tickers -> Rows]]
    <3> DEFINE new == [row[job.run][job.ticker] EXCEPT !.complete = @ + 1]
    <3>1. new \in Rows
      BY <2>1 DEF Rows
    <3>2. row' = [row EXCEPT ![job.run][job.ticker] = new]
      BY <1>0, <1>9, <2>1 DEF ChainComplete
    <3> QED
      BY <1>0, <2>1, <3>1, <3>2, RowTypes
  <2>3. job' \in Jobs /\ job'.attempts = job.attempts + cost
    <3>1. job.attempts + cost \in Nat
      BY <1>9, <1>c, <1>j DEF ChainComplete
    <3> QED
      BY <1>0, <1>9, <1>l, <3>1 DEF ChainComplete, Jobs
  <2> QED
    BY <1>0, <1>9, <1>a, <1>c, <1>g, <1>j, <2>2, <2>3 DEF ChainComplete
<1>10. ASSUME NEW x \in Expiries, NEW cost \in Costs,
              \/ \E reason \in {"DEFERRED", "REFUSED"} : ChainIncomplete(x, cost, reason)
              \/ \E reason \in Unavailable : ChainUnavailable(x, cost, reason)
       PROVE  TypeOK' /\ BudgetRespected'
  <2>0. /\ Requesting(x) /\ UNCHANGED <<run, owner, content>>
        /\ row' = [row EXCEPT ![job.run][job.ticker].incomplete = @ + 1]
        /\ \E reason \in ChainStatuses : chain' = [chain EXCEPT ![job.ticker][x] = reason]
    BY <1>10 DEF ChainIncomplete, ChainUnavailable, ChainStatuses, IncompleteChain
  <2>1. /\ row[job.run][job.ticker].incomplete + 1 \in 0..Cardinality(Expiries)
        /\ row[job.run][job.ticker] \in Rows /\ job.run \in Runs
    BY <1>h, <1>i, <1>j, <2>0
  <2>2. row' \in [Runs -> [Tickers -> Rows]]
    <3> DEFINE new == [row[job.run][job.ticker] EXCEPT !.incomplete = @ + 1]
    <3>1. new \in Rows
      BY <2>1 DEF Rows
    <3>2. row' = [row EXCEPT ![job.run][job.ticker] = new]
      BY <1>0, <2>0, <2>1
    <3> QED
      BY <1>0, <2>1, <3>1, <3>2, RowTypes
  <2>3. job' \in Jobs /\ job'.attempts = job.attempts + cost
    <3>1. job.attempts + cost \in Nat
      BY <1>c, <1>j, <2>0
    <3>2. CASE \E reason \in {"DEFERRED", "REFUSED"} : ChainIncomplete(x, cost, reason)
      <4>1. PICK reason \in {"DEFERRED", "REFUSED"} : ChainIncomplete(x, cost, reason)
        BY <3>2
      <4> QED
        BY <1>0, <1>l, <3>1, <4>1 DEF ChainIncomplete, Jobs
    <3>3. CASE \E reason \in Unavailable : ChainUnavailable(x, cost, reason)
      <4>1. PICK reason \in Unavailable : ChainUnavailable(x, cost, reason)
        BY <3>3
      <4>2. (job.activeGone \/ reason = "ACTIVE_CHAIN_UNAVAILABLE") \in BOOLEAN
        BY <1>0 DEF Jobs
      <4> QED
        BY <1>0, <1>l, <3>1, <4>1, <4>2 DEF ChainUnavailable, Jobs
    <3> QED
      BY <1>10, <3>2, <3>3
  <2> QED
    BY <1>0, <1>a, <1>c, <1>f, <1>j, <2>0, <2>2, <2>3
<1>11. ASSUME NEW x \in Expiries, NEW cost \in Costs, ChainVendorError(x, cost)
       PROVE  TypeOK' /\ BudgetRespected'
  <2>1. row' \in [Runs -> [Tickers -> Rows]]
    BY <1>0, <1>d, <1>11, RowTypes DEF ChainVendorError, Requesting, RowStatuses
  <2>2. cost \in Nat
    BY <1>b DEF Costs
  <2> QED
    BY <1>0, <1>11, <1>a, <1>c, <1>e, <1>j, <2>1, <2>2 DEF ChainVendorError
<1>12. CASE ChainBudgetStop
  <2>1. row' \in [Runs -> [Tickers -> Rows]]
    BY <1>0, <1>d, <1>12, RowTypes DEF ChainBudgetStop, RowStatuses
  <2>2. job' \in Jobs /\ job'.attempts = job.attempts
    BY <1>0, <1>12 DEF ChainBudgetStop, Jobs
  <2>3. chain' \in [Tickers -> [Expiries -> ChainStatuses]]
    BY <1>0, <1>12 DEF ChainBudgetStop, ChainStatuses
  <2> QED
    BY <1>0, <1>12, <1>a, <2>1, <2>2, <2>3 DEF ChainBudgetStop, BudgetRespected
<1>k. ASSUME NEW x \in Expiries, NEW cost \in Costs, NEW recovered \in BOOLEAN,
             Recovering(x, cost, recovered)
      PROVE  /\ job' \in Jobs /\ job'.attempts = job.attempts + cost /\ HasRoom
             /\ chain[job.ticker][x] = "DEFERRED" /\ job.phase = "recovery"
  <2>1. chain[job.ticker][x] = "DEFERRED" /\ job.phase = "recovery" /\ HasRoom
    BY <1>k DEF Recovering, First, ChainsInv, OwnerInv, MemoryInv, KnownAs
  <2>2. job' \in Jobs /\ job'.attempts = job.attempts + cost
    <3>1. job.attempts + cost \in Nat
      BY <1>c, <2>1
    <3> QED
      BY <1>0, <1>k, <1>l, <3>1 DEF Recovering, Jobs
  <2> QED
    BY <2>1, <2>2
<1>13. ASSUME NEW x \in Expiries, NEW cost \in Costs,
              RecoveryVendorError(x, cost) \/ RecoveryRefused(x, cost)
       PROVE  TypeOK' /\ BudgetRespected'
  <2>1. chain' \in [Tickers -> [Expiries -> ChainStatuses]]
    BY <1>0, <1>13, <1>f DEF RecoveryVendorError, RecoveryRefused, ChainStatuses, IncompleteChain
  <2> QED
    BY <1>0, <1>13, <1>a, <1>c, <1>k, <2>1 DEF RecoveryVendorError, RecoveryRefused
<1>14. ASSUME NEW x \in Expiries, NEW cost \in Costs, RecoverySucceeds(x, cost)
       PROVE  TypeOK' /\ BudgetRespected'
  <2>1. chain[job.ticker][x] = "DEFERRED" /\ job.phase = "recovery"
    BY <1>14, <1>k DEF RecoverySucceeds
  <2>2. /\ row[job.run][job.ticker] \in Rows /\ job.run \in Runs
        /\ row[job.run][job.ticker].complete = Cardinality(Done(job.ticker))
        /\ row[job.run][job.ticker].incomplete = Cardinality(Counted(job.ticker))
    BY <1>h, <2>1
  <2>3. /\ x \notin Done(job.ticker) /\ x \in Counted(job.ticker)
        /\ Done(job.ticker) \subseteq Expiries /\ Counted(job.ticker) \subseteq Expiries
    BY <2>1 DEF Done, Counted, IncompleteChain
  <2>4. /\ row[job.run][job.ticker].complete + 1 \in 0..Cardinality(Expiries)
        /\ row[job.run][job.ticker].incomplete - 1 \in 0..Cardinality(Expiries)
    BY <2>2, <2>3, Counting
  <2>5. row' \in [Runs -> [Tickers -> Rows]]
    <3> DEFINE new == [status |-> row[job.run][job.ticker].status,
                       complete |-> row[job.run][job.ticker].complete + 1,
                       incomplete |-> row[job.run][job.ticker].incomplete - 1]
    <3>1. new \in Rows
      BY <2>2, <2>4 DEF Rows
    <3>2. row' = [row EXCEPT ![job.run][job.ticker] = new]
      BY <1>0, <1>14, <2>2 DEF RecoverySucceeds
    <3> QED
      BY <1>0, <2>2, <3>1, <3>2, RowTypes
  <2> QED
    BY <1>0, <1>14, <1>a, <1>c, <1>g, <1>k, <2>5 DEF RecoverySucceeds
<1>15. CASE FinishTicker
  <2>1. row' \in [Runs -> [Tickers -> Rows]]
    BY <1>0, <1>d, <1>15, RowTypes DEF FinishTicker, RowStatuses
  <2>2. job' \in Jobs /\ job'.attempts = job.attempts + 0
    BY <1>0, <1>15, <1>e DEF FinishTicker
  <2>3. job.attempts + 0 = job.attempts
    BY <1>0 DEF Jobs
  <2> QED
    BY <1>0, <1>15, <1>a, <2>1, <2>2, <2>3 DEF FinishTicker, BudgetRespected
<1>16. CASE MarkUnattempted
  <2>1. job' \in Jobs /\ job'.attempts = job.attempts
    BY <1>0, <1>16 DEF MarkUnattempted, Jobs
  <2>2. row' \in [Runs -> [Tickers -> Rows]]
    <3>1. \A t \in Tickers : /\ row[job.run][t] \in Rows
                             /\ [row[job.run][t] EXCEPT !.status = "BUDGET_NOT_ATTEMPTED"] \in Rows
      <4>1. job.run \in Runs
        BY <1>d, <1>16 DEF MarkUnattempted
      <4>2. \A r \in Rows : [r EXCEPT !.status = "BUDGET_NOT_ATTEMPTED"] \in Rows
        BY DEF Rows, RowStatuses
      <4> QED
        BY <1>0, <4>1, <4>2
    <3> QED
      BY <1>0, <1>16, <3>1 DEF MarkUnattempted
  <2> QED
    BY <1>0, <1>16, <1>a, <2>1, <2>2 DEF MarkUnattempted, BudgetRespected
<1>17. CASE FinishRun \/ RunFails \/ RunLost
  <2>1. run' \in [Runs -> RunStatuses] /\ job' = Idle /\ UNCHANGED <<row, chain, owner, content>>
    BY <1>0, <1>17 DEF FinishRun, RunFails, RunLost, EndRun, FinishedStatus, RunStatuses,
                       FinishedStatuses
  <2> QED
    BY <1>0, <1>a, <1>b, <2>1
<1>18. CASE AllRunsUsed \/ UNCHANGED vars
  BY <1>0, <1>3, <1>18 DEF AllRunsUsed, vars
<1> QED
  BY <1>2, <1>4, <1>5, <1>6, <1>7, <1>8, <1>9, <1>10, <1>11, <1>12, <1>13, <1>14, <1>15, <1>16,
     <1>17, <1>18 DEF Next, Step

-----------------------------------------------------------------------------
(* A run works on what is its own *)

\* Until it ends, a run writes its own rows, the snapshots that are its own or nobody's,
\* and reopens no complete chain.
OwnWork ==
  /\ job.phase # "idle" /\ job'.phase # "idle" /\ job'.run = job.run /\ run' = run
  /\ \A r \in Runs \ {job.run} : row'[r] = row[r]
  /\ \A t \in Tickers :
       \/ owner'[t] = owner[t] /\ chain'[t] = chain[t] /\ content'[t] = content[t]
       \/ t = job.ticker /\ owner[t] \in {0, job.run} /\ owner'[t] \in {0, job.run}
  /\ \A t \in Tickers, x \in Expiries : chain[t][x] = "COMPLETE" => chain'[t][x] = "COMPLETE"

LEMMA WorkStep ==
  ASSUME TypeOK, RunInv, ChainsInv, Step PROVE OwnWork \/ FinishRun
<1>0. /\ job \in Jobs /\ row \in [Runs -> [Tickers -> Rows]]
      /\ chain \in [Tickers -> [Expiries -> ChainStatuses]]
      /\ owner \in [Tickers -> 0..MaxRuns] /\ content \in [Tickers -> [Expiries -> Nat]]
      /\ job.ticker \in Tickers
  BY DEF TypeOK, Jobs, Rows
<1>a. ASSUME job.phase # "idle", job'.phase # "idle", job'.run = job.run,
             UNCHANGED <<run, chain, owner, content>>,
             \A r \in Runs \ {job.run} : row'[r] = row[r]
      PROVE  OwnWork
  BY <1>a DEF OwnWork
<1>b. ASSUME NEW t \in Tickers, NEW cost, NextTicker(t, cost)
      PROVE  job'.phase # "idle" /\ job'.run = job.run
  BY <1>0, <1>b DEF NextTicker, Jobs
<1>c. ASSUME NEW t \in Tickers, NEW status, SetRow(t, status)
      PROVE  \A r \in Runs \ {job.run} : row'[r] = row[r]
  BY <1>0, <1>c DEF SetRow
<1>1. ASSUME SurfaceBudgetStop \/ NormalPassEnds \/ RecoveryBudgetStop
      PROVE  OwnWork
  <2>1. job.phase # "idle" /\ job'.phase # "idle" /\ job'.run = job.run
    BY <1>0, <1>1 DEF SurfaceBudgetStop, NormalPassEnds, RecoveryBudgetStop, Jobs
  <2> QED
    BY <1>1, <1>a, <2>1 DEF SurfaceBudgetStop, NormalPassEnds, RecoveryBudgetStop
<1>2. ASSUME NEW x \in Expiries,
             \/ RecoveryCapReached(x)
             \/ \E cost \in Costs : ChainMaterializing(x, cost) \/ RecoveryVendorError(x, cost)
      PROVE  OwnWork
  <2>1. job.phase # "idle" /\ job'.phase # "idle" /\ job'.run = job.run
    BY <1>0, <1>2 DEF RecoveryCapReached, ChainMaterializing, Requesting, RecoveryVendorError,
                      Recovering, Jobs
  <2> QED
    BY <1>2, <1>a, <2>1 DEF RecoveryCapReached, ChainMaterializing, RecoveryVendorError
<1>3. ASSUME NEW t \in Tickers, NEW cost, SurfaceFails(t, cost) \/ NoNewSurface(t, cost)
      PROVE  OwnWork
  BY <1>3, <1>a, <1>b, <1>c DEF SurfaceFails, NoNewSurface
<1>4. ASSUME NEW t \in Tickers, NEW cost, NEW scope, OpenTicker(t, cost, scope) PROVE OwnWork
  <2>1. /\ job.phase # "idle" /\ job'.phase # "idle" /\ job'.run = job.run
        /\ t = job.ticker /\ owner[t] = 0
    BY <1>0, <1>4 DEF OpenTicker, Jobs
  <2>2. \A u \in Tickers \ {t} : owner'[u] = owner[u] /\ chain'[u] = chain[u]
    BY <1>0, <1>4 DEF OpenTicker
  <2>3. owner'[t] \in {0, job.run}
    BY <1>0, <1>4 DEF OpenTicker
  <2>4. \A x \in Expiries : chain[t][x] # "COMPLETE"
    BY <2>1 DEF ChainsInv, OwnerInv, MemoryInv
  <2> QED
    BY <1>4, <1>c, <2>1, <2>2, <2>3, <2>4 DEF OwnWork, OpenTicker
\* A request, and its outcome.
<1>d. ASSUME NEW x \in Expiries, Requesting(x) \/ (job.phase = "recovery" /\ First(x, job.deferred))
      PROVE  /\ chain[job.ticker][x] \in {"PENDING", "DEFERRED"}
             /\ job.phase \in {"chains", "recovery"} /\ owner[job.ticker] \in {0, job.run}
  BY <1>d DEF Requesting, First, ChainsInv, OwnerInv, MemoryInv, KnownAs
<1>e. ASSUME NEW x \in Expiries, NEW status, chain' = [chain EXCEPT ![job.ticker][x] = status],
             Requesting(x) \/ (job.phase = "recovery" /\ First(x, job.deferred)),
             job'.phase = job.phase, job'.run = job.run, UNCHANGED <<run, owner>>,
             \/ content' = content
             \/ content' = [content EXCEPT ![job.ticker][x] = @ + 1],
             \/ row' = row
             \/ \E new : row' = [row EXCEPT ![job.run][job.ticker] = new]
      PROVE  OwnWork
  <2>1. \A u \in Tickers \ {job.ticker} : content'[u] = content[u] /\ chain'[u] = chain[u]
    BY <1>0, <1>e
  <2>2. \A y \in Expiries \ {x} : chain'[job.ticker][y] = chain[job.ticker][y]
    BY <1>0, <1>e
  <2>3. \A r \in Runs \ {job.run} : row'[r] = row[r]
    BY <1>0, <1>e
  <2> QED
    BY <1>d, <1>e, <2>1, <2>2, <2>3 DEF OwnWork
<1>5. ASSUME NEW x \in Expiries, NEW cost \in Costs,
             \/ ChainComplete(x, cost)
             \/ \E reason \in {"DEFERRED", "REFUSED"} : ChainIncomplete(x, cost, reason)
             \/ \E reason \in Unavailable : ChainUnavailable(x, cost, reason)
      PROVE  OwnWork
  <2>1. /\ Requesting(x) /\ UNCHANGED <<run, owner>>
        /\ job'.phase = job.phase /\ job'.run = job.run
    BY <1>0, <1>5 DEF ChainComplete, ChainIncomplete, ChainUnavailable, Jobs
  <2>2. \E status : chain' = [chain EXCEPT ![job.ticker][x] = status]
    BY <1>5 DEF ChainComplete, ChainIncomplete, ChainUnavailable, PersistChain
  <2>3. content' = content \/ content' = [content EXCEPT ![job.ticker][x] = @ + 1]
    BY <1>5 DEF ChainComplete, ChainIncomplete, ChainUnavailable, PersistChain
  <2>4. \E new : row' = [row EXCEPT ![job.run][job.ticker] = new]
    BY <1>0, <1>5 DEF ChainComplete, ChainIncomplete, ChainUnavailable
  <2> QED
    BY <1>e, <2>1, <2>2, <2>3, <2>4
<1>6. ASSUME NEW x \in Expiries, NEW cost \in Costs, ChainVendorError(x, cost) PROVE OwnWork
  BY <1>0, <1>6, <1>a, <1>b, <1>c DEF ChainVendorError, Requesting
<1>7. CASE ChainBudgetStop
  <2>1. /\ job.phase = "chains" /\ job'.phase # "idle" /\ job'.run = job.run
    BY <1>0, <1>7 DEF ChainBudgetStop, Jobs
  <2>2. owner[job.ticker] \in {0, job.run}
    BY <2>1 DEF ChainsInv, OwnerInv, MemoryInv
  <2>3. \A t \in Tickers : t # job.ticker => chain'[t] = chain[t]
    BY <1>0, <1>7 DEF ChainBudgetStop
  <2>4. \A x \in Expiries : chain[job.ticker][x] = "COMPLETE" => chain'[job.ticker][x] = "COMPLETE"
    BY <1>0, <1>7 DEF ChainBudgetStop
  <2> QED
    BY <1>0, <1>7, <1>c, <2>1, <2>2, <2>3, <2>4 DEF ChainBudgetStop, OwnWork
<1>8. ASSUME NEW x \in Expiries, NEW cost \in Costs,
             RecoveryRefused(x, cost) \/ RecoverySucceeds(x, cost)
      PROVE  OwnWork
  <2>1. /\ job.phase = "recovery" /\ First(x, job.deferred) /\ UNCHANGED <<run, owner>>
        /\ job'.phase = job.phase /\ job'.run = job.run
    BY <1>0, <1>8 DEF RecoveryRefused, RecoverySucceeds, Recovering, Jobs
  <2>2. \E status : chain' = [chain EXCEPT ![job.ticker][x] = status]
    BY <1>8 DEF RecoveryRefused, RecoverySucceeds, PersistChain
  <2>3. content' = content \/ content' = [content EXCEPT ![job.ticker][x] = @ + 1]
    BY <1>8 DEF RecoveryRefused, RecoverySucceeds, PersistChain
  <2>4. row' = row \/ \E new : row' = [row EXCEPT ![job.run][job.ticker] = new]
    BY <1>0, <1>8 DEF RecoveryRefused, RecoverySucceeds
  <2> QED
    BY <1>e, <2>1, <2>2, <2>3, <2>4
<1>9. CASE FinishTicker
  BY <1>0, <1>9, <1>a, <1>b, <1>c DEF FinishTicker
<1>10. CASE MarkUnattempted
  <2>1. /\ job.phase # "idle" /\ job'.phase # "idle" /\ job'.run = job.run
        /\ \A r \in Runs \ {job.run} : row'[r] = row[r]
    BY <1>0, <1>10 DEF MarkUnattempted, Jobs
  <2> QED
    BY <1>10, <1>a, <2>1 DEF MarkUnattempted
<1> QED
  BY <1>1, <1>2, <1>3, <1>4, <1>5, <1>6, <1>7, <1>8, <1>9, <1>10 DEF Step

LEMMA RunStep == TypeOK /\ RunInv /\ ChainsInv /\ [Next]_vars => RunInv'
<1> SUFFICES ASSUME TypeOK, RunInv, ChainsInv, [Next]_vars PROVE RunInv'
  OBVIOUS
<1>0. run \in [Runs -> RunStatuses] /\ 0 \notin Runs /\ owner \in [Tickers -> 0..MaxRuns]
  BY DEF TypeOK, Runs
<1>1. CASE OwnWork
  <2>1. ASSUME NEW t \in Tickers, owner'[t] # 0 PROVE run'[owner'[t]] # "NONE"
    BY <1>1, <2>1 DEF OwnWork, RunInv
  <2>2. ASSUME NEW r \in Runs, run'[r] = "NONE", NEW t \in Tickers PROVE row'[r][t] = EmptyRow
    BY <1>1, <2>2 DEF OwnWork, RunInv
  <2> QED
    BY <1>1, <2>1, <2>2 DEF OwnWork, RunInv
<1>2. ASSUME NEW r \in Runs, StartRun(r) PROVE RunInv'
  <2>1. job'.run = r /\ run' = [run EXCEPT ![r] = "RUNNING"] /\ UNCHANGED <<row, owner>>
    BY <1>2 DEF StartRun, Idle
  <2> QED
    BY <1>0, <2>1 DEF RunInv, Runs
<1>3. CASE FinishRun \/ RunFails \/ RunLost
  <2>1. /\ job'.phase = "idle" /\ UNCHANGED <<row, owner>>
        /\ \/ run' = run
           \/ \E status \in RunStatuses \ {"NONE"} : run' = [run EXCEPT ![job.run] = status]
    BY <1>3 DEF FinishRun, RunFails, RunLost, EndRun, Idle, FinishedStatus, RunStatuses,
                FinishedStatuses
  <2>2. \A r \in Runs : run'[r] = "NONE" => run[r] = "NONE"
    BY <1>0, <2>1
  <2>3. \A r \in Runs : run[r] # "NONE" => run'[r] # "NONE"
    BY <1>0, <2>1
  <2>4. \A t \in Tickers : owner[t] # 0 => owner[t] \in Runs
    BY <1>0 DEF Runs
  <2> QED
    BY <2>1, <2>2, <2>3, <2>4 DEF RunInv
<1>4. CASE AllRunsUsed \/ UNCHANGED vars
  BY <1>4 DEF AllRunsUsed, vars, RunInv
<1> QED
  BY <1>1, <1>2, <1>3, <1>4, WorkStep DEF Next

-----------------------------------------------------------------------------
(* The memory of the archiver and the chains *)

LEMMA OwnerStep == TypeOK /\ RunInv /\ ChainsInv /\ [Next]_vars => OwnerInv'
<1> SUFFICES ASSUME TypeOK, RunInv, ChainsInv, [Next]_vars,
                    NEW t \in Tickers, owner'[t] = 0, NEW x \in Expiries
             PROVE  chain'[t][x] = "NONE"
  BY DEF OwnerInv
<1>0. /\ chain \in [Tickers -> [Expiries -> ChainStatuses]]
      /\ owner \in [Tickers -> 0..MaxRuns] /\ job.ticker \in Tickers
  BY DEF TypeOK
<1>1. CASE UNCHANGED <<owner, chain>>
  BY <1>1 DEF ChainsInv, OwnerInv
<1>2. ASSUME NEW u \in Tickers, NEW cost \in Costs, NEW scope, OpenTicker(u, cost, scope)
      PROVE  chain'[t][x] = "NONE"
  <2>1. CASE t = u
    <3>1. job.run # 0
      BY <1>2 DEF OpenTicker, RunInv, Runs
    <3>2. scope = {}
      BY <1>0, <1>2, <2>1, <3>1 DEF OpenTicker
    <3> QED
      BY <1>0, <1>2, <2>1, <3>2 DEF OpenTicker
  <2>2. CASE t # u
    BY <1>0, <1>2, <2>2 DEF OpenTicker, ChainsInv, OwnerInv
  <2> QED
    BY <2>1, <2>2
<1>3. ASSUME owner' = owner, NEW y \in Expiries, NEW status,
             chain' = [chain EXCEPT ![job.ticker][y] = status],
             chain[job.ticker][y] # "NONE"
      PROVE  chain'[t][x] = "NONE"
  BY <1>0, <1>3 DEF ChainsInv, OwnerInv
<1>4. ASSUME NEW y \in Expiries, NEW cost \in Costs,
             \/ ChainComplete(y, cost)
             \/ \E reason \in {"DEFERRED", "REFUSED"} : ChainIncomplete(y, cost, reason)
             \/ \E reason \in Unavailable : ChainUnavailable(y, cost, reason)
             \/ RecoveryRefused(y, cost) \/ RecoverySucceeds(y, cost)
      PROVE  chain'[t][x] = "NONE"
  <2>1. /\ owner' = owner
        /\ \E status : chain' = [chain EXCEPT ![job.ticker][y] = status]
        /\ Requesting(y) \/ (job.phase = "recovery" /\ First(y, job.deferred))
    BY <1>4 DEF ChainComplete, ChainIncomplete, ChainUnavailable, RecoveryRefused,
                RecoverySucceeds, Recovering, PersistChain
  <2>2. chain[job.ticker][y] # "NONE"
    BY <2>1 DEF Requesting, First, ChainsInv, MemoryInv, KnownAs
  <2> QED
    BY <1>3, <2>1, <2>2
<1>5. CASE ChainBudgetStop
  BY <1>0, <1>5 DEF ChainBudgetStop, ChainsInv, OwnerInv
<1>6. ASSUME \/ \E r \in Runs : StartRun(r)
             \/ SurfaceBudgetStop \/ NormalPassEnds \/ RecoveryBudgetStop
             \/ FinishTicker \/ MarkUnattempted \/ FinishRun \/ RunFails \/ RunLost
             \/ AllRunsUsed \/ UNCHANGED vars
             \/ \E u \in Tickers, cost \in Costs : SurfaceFails(u, cost) \/ NoNewSurface(u, cost)
             \/ \E y \in Expiries : \/ RecoveryCapReached(y)
                                    \/ \E cost \in Costs : \/ ChainMaterializing(y, cost)
                                                           \/ ChainVendorError(y, cost)
                                                           \/ RecoveryVendorError(y, cost)
      PROVE  UNCHANGED <<owner, chain>>
  BY <1>6 DEF StartRun, SurfaceBudgetStop, NormalPassEnds, RecoveryBudgetStop, FinishTicker,
       MarkUnattempted, FinishRun, RunFails, RunLost, EndRun, AllRunsUsed, vars, SurfaceFails,
       NoNewSurface, RecoveryCapReached, ChainMaterializing, ChainVendorError,
       RecoveryVendorError
<1> QED
  BY <1>1, <1>2, <1>4, <1>5, <1>6 DEF Next, Step

LEMMA MemoryStep == TypeOK /\ RunInv /\ WalkInv /\ ChainsInv /\ [Next]_vars => MemoryInv'
<1> SUFFICES ASSUME TypeOK, RunInv, WalkInv, ChainsInv, [Next]_vars PROVE MemoryInv'
  OBVIOUS
<1>0. /\ job \in Jobs /\ chain \in [Tickers -> [Expiries -> ChainStatuses]]
      /\ owner \in [Tickers -> 0..MaxRuns] /\ job.ticker \in Tickers
  BY DEF TypeOK, Jobs
<1>a. ASSUME job'.phase \in {"idle", "stopping", "finishing"} PROVE MemoryInv'
  BY <1>a DEF MemoryInv
<1>b. ASSUME NEW t \in Tickers, NEW cost, NextTicker(t, cost) PROVE MemoryInv'
  <2>1. /\ job'.phase \in {"surface", "finishing"}
        /\ job'.deferred = {} /\ job'.incomplete = {} /\ job'.activeGone = FALSE
    BY <1>0, <1>b DEF NextTicker, Jobs
  <2> QED
    BY <2>1 DEF MemoryInv
<1>1. ASSUME NEW r \in Runs, StartRun(r) PROVE MemoryInv'
  BY <1>1 DEF StartRun, Idle, MemoryInv
<1>2. CASE SurfaceBudgetStop \/ ChainBudgetStop \/ RecoveryBudgetStop
  <2>1. job'.phase = "stopping"
    BY <1>0, <1>2 DEF SurfaceBudgetStop, ChainBudgetStop, RecoveryBudgetStop, Jobs
  <2> QED
    BY <1>a, <2>1
<1>3. ASSUME NEW t \in Tickers, NEW cost \in Costs, SurfaceFails(t, cost) \/ NoNewSurface(t, cost)
      PROVE  MemoryInv'
  BY <1>3, <1>b DEF SurfaceFails, NoNewSurface
<1>4. ASSUME NEW t \in Tickers, NEW cost \in Costs, NEW scope, OpenTicker(t, cost, scope)
      PROVE  MemoryInv'
  <2>1. /\ job'.phase = "chains" /\ job'.todo = scope /\ job'.deferred = {}
        /\ job'.incomplete = {} /\ job'.activeGone = FALSE
        /\ job'.ticker = t /\ job'.run = job.run
    BY <1>0, <1>4 DEF OpenTicker, ChainsInv, MemoryInv, Jobs
  <2>2. \A x \in Expiries : chain'[t][x] = IF x \in scope THEN "PENDING" ELSE "NONE"
    BY <1>0, <1>4 DEF OpenTicker
  <2>3. owner'[t] \in {0, job.run}
    BY <1>0, <1>4 DEF OpenTicker
  <2>4. \A x \in Expiries : KnownAs(x, chain'[t][x], job')
    BY <2>1, <2>2 DEF KnownAs
  <2> QED
    BY <2>1, <2>3, <2>4 DEF MemoryInv
\* One expiry gets another status, and what is known of the others stays.
<1> DEFINE Moved(x, status) ==
      /\ job.phase \in {"chains", "recovery"}
      /\ job'.phase = job.phase /\ job'.run = job.run /\ job'.ticker = job.ticker
      /\ owner' = owner /\ chain' = [chain EXCEPT ![job.ticker][x] = status]
      /\ KnownAs(x, status, job')
      /\ job'.todo = job.todo \ {x}
      /\ \A y \in Expiries \ {x} : /\ y \in job'.incomplete <=> y \in job.incomplete
                                   /\ y \in job'.deferred <=> y \in job.deferred
      /\ job.activeGone => job'.activeGone
<1>c. ASSUME NEW x \in Expiries, NEW status, Moved(x, status) PROVE MemoryInv'
  <2>1. chain'[job.ticker][x] = status
    BY <1>0, <1>c
  <2>2. ASSUME NEW y \in Expiries, y # x PROVE KnownAs(y, chain'[job.ticker][y], job')
    <3>1. chain'[job.ticker][y] = chain[job.ticker][y]
      BY <1>0, <1>c, <2>2
    <3>2. KnownAs(y, chain[job.ticker][y], job)
      BY <1>c DEF ChainsInv, MemoryInv
    <3>3. /\ y \in job'.incomplete <=> y \in job.incomplete
          /\ y \in job'.deferred <=> y \in job.deferred
          /\ y \in job'.todo <=> y \in job.todo
          /\ job.activeGone => job'.activeGone
      BY <1>c, <2>2
    <3> QED
      BY <3>1, <3>2, <3>3 DEF KnownAs
  <2>3. job.phase = "recovery" => job'.todo = {}
    BY <1>c DEF ChainsInv, MemoryInv
  <2> QED
    BY <1>c, <2>1, <2>2, <2>3 DEF ChainsInv, MemoryInv
<1> HIDE DEF Moved
<1>5. ASSUME NEW x \in Expiries, NEW cost \in Costs, ChainMaterializing(x, cost) PROVE MemoryInv'
  <2>1. /\ job'.phase = "chains" /\ job'.run = job.run /\ job'.ticker = job.ticker
        /\ job'.todo = job.todo /\ job'.incomplete = job.incomplete
        /\ job'.deferred = job.deferred /\ job'.activeGone = job.activeGone
        /\ UNCHANGED <<owner, chain>> /\ job.phase = "chains"
    BY <1>0, <1>5 DEF ChainMaterializing, Requesting, Jobs
  <2> QED
    BY <2>1 DEF ChainsInv, MemoryInv, KnownAs
<1>6. ASSUME NEW x \in Expiries, NEW cost \in Costs, ChainComplete(x, cost) PROVE MemoryInv'
  <2>1. /\ job.phase = "chains" /\ job'.phase = job.phase /\ job'.run = job.run
        /\ job'.ticker = job.ticker /\ job'.todo = job.todo \ {x}
        /\ job'.incomplete = job.incomplete
        /\ job'.deferred = job.deferred /\ job'.activeGone = job.activeGone
        /\ owner' = owner /\ chain' = [chain EXCEPT ![job.ticker][x] = "COMPLETE"]
    BY <1>0, <1>6 DEF ChainComplete, PersistChain, Requesting, Jobs
  <2>2. x \notin job.incomplete /\ x \notin job.deferred
    BY <1>6, <2>1 DEF ChainComplete, Requesting, First, ChainsInv, MemoryInv, KnownAs
  <2>3. Moved(x, "COMPLETE")
    BY <2>1, <2>2 DEF KnownAs, Moved
  <2> QED
    BY <1>c, <2>3
<1>7. ASSUME NEW x \in Expiries, NEW cost \in Costs, NEW reason \in {"DEFERRED", "REFUSED"},
             ChainIncomplete(x, cost, reason)
      PROVE  MemoryInv'
  <2>1. /\ job.phase = "chains" /\ job'.phase = job.phase /\ job'.run = job.run
        /\ job'.ticker = job.ticker /\ job'.todo = job.todo \ {x}
        /\ job'.incomplete = job.incomplete \union {x}
        /\ job'.deferred = IF reason = "DEFERRED" THEN job.deferred \union {x} ELSE job.deferred
        /\ job'.activeGone = job.activeGone
        /\ owner' = owner /\ chain' = [chain EXCEPT ![job.ticker][x] = reason]
    BY <1>0, <1>7 DEF ChainIncomplete, Requesting, Jobs
  <2>2. x \notin job.deferred
    BY <1>7, <2>1 DEF ChainIncomplete, Requesting, First, ChainsInv, MemoryInv, KnownAs
  <2>3. Moved(x, reason)
    BY <2>1, <2>2 DEF KnownAs, Moved
  <2> QED
    BY <1>c, <2>3
<1>8. ASSUME NEW x \in Expiries, NEW cost \in Costs, NEW reason \in Unavailable,
             ChainUnavailable(x, cost, reason)
      PROVE  MemoryInv'
  <2>1. /\ job.phase = "chains" /\ job'.phase = job.phase /\ job'.run = job.run
        /\ job'.ticker = job.ticker /\ job'.todo = job.todo \ {x}
        /\ job'.incomplete = job.incomplete /\ job'.deferred = job.deferred
        /\ job'.activeGone = (job.activeGone \/ reason = "ACTIVE_CHAIN_UNAVAILABLE")
        /\ owner' = owner /\ chain' = [chain EXCEPT ![job.ticker][x] = reason]
    BY <1>0, <1>8 DEF ChainUnavailable, Requesting, Jobs
  <2>2. x \notin job.incomplete /\ x \notin job.deferred
    BY <1>8, <2>1 DEF ChainUnavailable, Requesting, First, ChainsInv, MemoryInv, KnownAs
  <2>3. Moved(x, reason)
    BY <2>1, <2>2 DEF KnownAs, Moved, Unavailable
  <2> QED
    BY <1>c, <2>3
<1>9. ASSUME NEW x \in Expiries, NEW cost \in Costs, ChainVendorError(x, cost) PROVE MemoryInv'
  BY <1>0, <1>9, <1>b DEF ChainVendorError
<1>10. CASE NormalPassEnds
  <2>1. /\ job'.phase = "recovery" /\ job'.run = job.run /\ job'.ticker = job.ticker
        /\ job'.todo = job.todo /\ job'.incomplete = job.incomplete
        /\ job'.deferred = job.deferred /\ job'.activeGone = job.activeGone
        /\ UNCHANGED <<owner, chain>> /\ job.phase = "chains" /\ job.todo = {}
    BY <1>0, <1>10 DEF NormalPassEnds, Jobs
  <2> QED
    BY <2>1 DEF ChainsInv, MemoryInv, KnownAs
<1>d. ASSUME NEW x \in Expiries, NEW cost, NEW recovered \in BOOLEAN, Recovering(x, cost, recovered)
      PROVE  /\ job.phase = "recovery" /\ job'.phase = job.phase /\ job'.run = job.run
             /\ job'.ticker = job.ticker /\ job'.todo = job.todo
             /\ job'.incomplete = IF recovered THEN job.incomplete \ {x} ELSE job.incomplete
             /\ job'.deferred = job.deferred \ {x} /\ job'.activeGone = job.activeGone
             /\ job.todo = {} /\ chain[job.ticker][x] = "DEFERRED" /\ x \in job.incomplete
  <2>1. /\ job.phase = "recovery" /\ job'.phase = job.phase /\ job'.run = job.run
        /\ job'.ticker = job.ticker /\ job'.todo = job.todo
        /\ job'.incomplete = IF recovered THEN job.incomplete \ {x} ELSE job.incomplete
        /\ job'.deferred = job.deferred \ {x} /\ job'.activeGone = job.activeGone
    BY <1>0, <1>d DEF Recovering, Jobs
  <2>2. job.todo = {} /\ chain[job.ticker][x] = "DEFERRED" /\ x \in job.incomplete
    BY <1>d, <2>1 DEF Recovering, First, ChainsInv, MemoryInv, KnownAs
  <2> QED
    BY <2>1, <2>2
<1>11. ASSUME NEW x \in Expiries, NEW cost \in Costs, RecoveryVendorError(x, cost)
       PROVE  MemoryInv'
  <2>1. Recovering(x, cost, FALSE) /\ UNCHANGED <<owner, chain>>
    BY <1>11 DEF RecoveryVendorError
  <2>2. /\ job.phase = "recovery" /\ job'.phase = job.phase /\ job'.run = job.run
        /\ job'.ticker = job.ticker /\ job'.todo = job.todo
        /\ job'.incomplete = job.incomplete /\ job'.deferred = job.deferred \ {x}
        /\ job'.activeGone = job.activeGone
    BY <1>d, <2>1
  <2> QED
    BY <2>1, <2>2 DEF ChainsInv, MemoryInv, KnownAs
<1>12. ASSUME NEW x \in Expiries, NEW cost \in Costs, RecoveryRefused(x, cost) PROVE MemoryInv'
  <2>1. /\ Recovering(x, cost, FALSE) /\ owner' = owner
        /\ chain' = [chain EXCEPT ![job.ticker][x] = "REFUSED"]
    BY <1>12 DEF RecoveryRefused
  <2>2. /\ job.phase = "recovery" /\ job'.phase = job.phase /\ job'.run = job.run
        /\ job'.ticker = job.ticker /\ job'.todo = job.todo
        /\ job'.incomplete = job.incomplete /\ job'.deferred = job.deferred \ {x}
        /\ job'.activeGone = job.activeGone /\ job.todo = {} /\ x \in job.incomplete
    BY <1>d, <2>1
  <2>3. Moved(x, "REFUSED")
    BY <2>1, <2>2 DEF KnownAs, Moved
  <2> QED
    BY <1>c, <2>3
<1>13. ASSUME NEW x \in Expiries, NEW cost \in Costs, RecoverySucceeds(x, cost) PROVE MemoryInv'
  <2>1. /\ Recovering(x, cost, TRUE) /\ owner' = owner
        /\ chain' = [chain EXCEPT ![job.ticker][x] = "COMPLETE"]
    BY <1>13 DEF RecoverySucceeds, PersistChain
  <2>2. /\ job.phase = "recovery" /\ job'.phase = job.phase /\ job'.run = job.run
        /\ job'.ticker = job.ticker /\ job'.todo = job.todo
        /\ job'.incomplete = job.incomplete \ {x} /\ job'.deferred = job.deferred \ {x}
        /\ job'.activeGone = job.activeGone /\ job.todo = {} /\ x \in job.incomplete
    BY <1>d, <2>1
  <2>3. Moved(x, "COMPLETE")
    BY <2>1, <2>2 DEF KnownAs, Moved
  <2> QED
    BY <1>c, <2>3
<1>14. ASSUME NEW x \in Expiries, RecoveryCapReached(x) PROVE MemoryInv'
  <2>1. /\ job.phase = "recovery" /\ job'.phase = job.phase /\ job'.run = job.run
        /\ job'.ticker = job.ticker /\ job'.todo = job.todo /\ job'.incomplete = job.incomplete
        /\ job'.deferred = job.deferred \ {x} /\ job'.activeGone = job.activeGone
        /\ UNCHANGED <<owner, chain>>
    BY <1>0, <1>14 DEF RecoveryCapReached, Jobs
  <2> QED
    BY <2>1 DEF ChainsInv, MemoryInv, KnownAs
<1>15. CASE FinishTicker
  BY <1>0, <1>15, <1>b DEF FinishTicker
<1>16. CASE MarkUnattempted \/ FinishRun \/ RunFails \/ RunLost
  <2>1. job'.phase \in {"idle", "finishing"}
    BY <1>0, <1>16 DEF MarkUnattempted, FinishRun, RunFails, RunLost, EndRun, Idle, Jobs
  <2> QED
    BY <1>a, <2>1
<1>17. CASE AllRunsUsed \/ UNCHANGED vars
  BY <1>17 DEF AllRunsUsed, vars, ChainsInv, MemoryInv, KnownAs
<1> QED
  BY <1>1, <1>2, <1>3, <1>4, <1>5, <1>6, <1>7, <1>8, <1>9, <1>10, <1>11, <1>12, <1>13, <1>14,
     <1>15, <1>16, <1>17 DEF Next, Step

\* The rows of a run: its ticker in progress, and in the end those it has not reached.
LEMMA OtherRows ==
  ASSUME TypeOK, RunInv, Step, job.run \in Runs
  PROVE  \/ MarkUnattempted
         \/ \A t \in Tickers \ {job.ticker} : row'[job.run][t] = row[job.run][t]
<1>0. /\ row \in [Runs -> [Tickers -> Rows]] /\ job.ticker \in Tickers /\ job.run \in Runs
      /\ row[job.run] \in [Tickers -> Rows]
  BY DEF TypeOK, Rows
<1>1. ASSUME \/ row' = row
             \/ \E status : SetRow(job.ticker, status)
             \/ \E new : row' = [row EXCEPT ![job.run][job.ticker] = new]
      PROVE  \A t \in Tickers \ {job.ticker} : row'[job.run][t] = row[job.run][t]
  <2>1. ASSUME NEW status, SetRow(job.ticker, status), NEW t \in Tickers \ {job.ticker}
        PROVE  row'[job.run][t] = row[job.run][t]
    BY <1>0, <2>1 DEF SetRow
  <2>2. ASSUME NEW new, row' = [row EXCEPT ![job.run][job.ticker] = new],
               NEW t \in Tickers \ {job.ticker}
        PROVE  row'[job.run][t] = row[job.run][t]
    BY <1>0, <2>2
  <2> QED
    BY <1>1, <2>1, <2>2
<1>2. CASE SurfaceBudgetStop \/ NormalPassEnds \/ RecoveryBudgetStop \/ FinishRun
  BY <1>1, <1>2 DEF SurfaceBudgetStop, NormalPassEnds, RecoveryBudgetStop, FinishRun, EndRun
<1>3. CASE \E t \in Tickers, cost \in Costs :
             \/ SurfaceFails(t, cost) \/ NoNewSurface(t, cost)
             \/ \E n \in 0..SurfaceSize[t] : OpenTicker(t, cost, 1..n)
  BY <1>1, <1>3 DEF SurfaceFails, NoNewSurface, OpenTicker
<1>4. CASE \E x \in Expiries : RecoveryCapReached(x)
  BY <1>1, <1>4 DEF RecoveryCapReached
<1>5. CASE \E x \in Expiries, cost \in Costs :
             \/ ChainMaterializing(x, cost) \/ RecoveryVendorError(x, cost)
             \/ RecoveryRefused(x, cost) \/ ChainVendorError(x, cost)
  BY <1>1, <1>5 DEF ChainMaterializing, RecoveryVendorError, RecoveryRefused, ChainVendorError
<1>6. CASE \E x \in Expiries, cost \in Costs :
             \/ ChainComplete(x, cost) \/ RecoverySucceeds(x, cost)
             \/ \E reason \in {"DEFERRED", "REFUSED"} : ChainIncomplete(x, cost, reason)
             \/ \E reason \in Unavailable : ChainUnavailable(x, cost, reason)
  <2>1. \E new : row' = [row EXCEPT ![job.run][job.ticker] = new]
    BY <1>0, <1>6 DEF ChainComplete, RecoverySucceeds, ChainIncomplete, ChainUnavailable
  <2> QED
    BY <1>1, <2>1
<1>7. CASE ChainBudgetStop \/ FinishTicker
  BY <1>1, <1>7 DEF ChainBudgetStop, FinishTicker
<1> QED
  BY <1>2, <1>3, <1>4, <1>5, <1>6, <1>7 DEF Step

\* The tickers a run has not reached, or was refused the room for.
LEMMA Unattempted ==
  ASSUME TypeOK, RunInv, MarkUnattempted, NEW t \in Tickers
  PROVE  /\ row'[job.run][t] \in Rows
         /\ \/ row'[job.run][t] = row[job.run][t]
            \/ /\ t >= job.ticker /\ row[job.run][t].status = "NONE"
               /\ row'[job.run][t].status = "BUDGET_NOT_ATTEMPTED"
               /\ row'[job.run][t].complete = row[job.run][t].complete
               /\ row'[job.run][t].incomplete = row[job.run][t].incomplete
         /\ t >= job.ticker => row'[job.run][t].status # "NONE"
<1>1. /\ row \in [Runs -> [Tickers -> Rows]] /\ job.run \in Runs
      /\ row[job.run][t] \in Rows
  BY DEF TypeOK, RunInv, MarkUnattempted, Rows
<1>2. row'[job.run][t] = IF t >= job.ticker /\ row[job.run][t].status = "NONE"
                           THEN [row[job.run][t] EXCEPT !.status = "BUDGET_NOT_ATTEMPTED"]
                           ELSE row[job.run][t]
  BY <1>1 DEF MarkUnattempted
<1> QED
  BY <1>1, <1>2 DEF Rows, RowStatuses

\* What a ticker leaves behind when the walk goes on.
LEMMA NextTickerMoves ==
  ASSUME TypeOK, NEW cost, NextTicker(job.ticker, cost)
  PROVE  /\ job'.run = job.run /\ job'.limited = job.limited
         /\ \/ job'.phase = "finishing" /\ job'.ticker = job.ticker /\ job.ticker = TickerCount
            \/ job'.phase = "surface" /\ job'.ticker = job.ticker + 1
<1>1. job \in Jobs
  BY DEF TypeOK, Jobs
<1> QED
  BY <1>1 DEF NextTicker, Jobs

LEMMA PendingStep ==
  TypeOK /\ RunInv /\ WalkInv /\ ChainsInv /\ [Next]_vars => PendingInv'
<1> SUFFICES ASSUME TypeOK, RunInv, WalkInv, ChainsInv, [Next]_vars PROVE PendingInv'
  OBVIOUS
<1>0. /\ job \in Jobs /\ chain \in [Tickers -> [Expiries -> ChainStatuses]]
      /\ job.ticker \in Tickers /\ row \in [Runs -> [Tickers -> Rows]]
      /\ MemoryInv'
  BY MemoryStep DEF TypeOK, Jobs, Rows
\* What matters of a step is what it does to the ticker in progress.
<1> DEFINE Behind ==
      /\ owner'[job.ticker] = job.run
      /\ row'[job.run][job.ticker].status # "VENDOR_ERROR"
      /\ ~(job'.phase = "chains" /\ job'.ticker = job.ticker)
      => \A x \in Expiries : chain'[job.ticker][x] # "PENDING"
<1>a. ASSUME Step, ~FinishRun, Behind PROVE PendingInv'
  <2>1. OwnWork
    BY <1>a, WorkStep
  <2>2. ASSUME NEW t \in Tickers \ {job.ticker}, row[job.run][t].status = "VENDOR_ERROR"
        PROVE  row'[job.run][t].status = "VENDOR_ERROR"
    BY <1>a, <2>1, <2>2, OtherRows, Unattempted DEF OwnWork, RunInv
  <2>3. ASSUME NEW t \in Tickers \ {job.ticker}, owner'[t] = job.run,
               row'[job.run][t].status # "VENDOR_ERROR"
        PROVE  \A x \in Expiries : chain'[t][x] # "PENDING"
    <3>1. owner[t] = owner'[t] /\ chain'[t] = chain[t] /\ job.phase # "idle"
      BY <2>1 DEF OwnWork
    <3> QED
      BY <2>2, <2>3, <3>1 DEF ChainsInv, PendingInv
  <2>4. job'.run = job.run
    BY <2>1 DEF OwnWork
  <2>5. ASSUME NEW t \in Tickers, owner'[t] = job.run,
               row'[job.run][t].status # "VENDOR_ERROR",
               ~(job'.phase = "chains" /\ t = job'.ticker)
        PROVE  \A x \in Expiries : chain'[t][x] # "PENDING"
    BY <1>a, <2>3, <2>5
  <2> QED
    BY <2>4, <2>5 DEF PendingInv
<1>b. ASSUME job'.ticker = job.ticker, job'.phase \in {"chains", "recovery"} PROVE Behind
  BY <1>0, <1>b DEF MemoryInv, KnownAs
<1>c. ASSUME UNCHANGED <<owner, chain>>, job.phase \notin {"idle", "chains"},
             row[job.run][job.ticker].status = "VENDOR_ERROR" =>
               row'[job.run][job.ticker].status = "VENDOR_ERROR"
      PROVE  Behind
  BY <1>0, <1>c DEF ChainsInv, PendingInv
<1> HIDE DEF Behind
<1>1. ASSUME NEW x \in Expiries, NEW cost \in Costs,
             \/ ChainMaterializing(x, cost) \/ ChainComplete(x, cost)
             \/ \E reason \in {"DEFERRED", "REFUSED"} : ChainIncomplete(x, cost, reason)
             \/ \E reason \in Unavailable : ChainUnavailable(x, cost, reason)
             \/ RecoveryVendorError(x, cost) \/ RecoveryRefused(x, cost)
             \/ RecoverySucceeds(x, cost)
      PROVE  Behind
  <2>1. job'.ticker = job.ticker /\ job'.phase \in {"chains", "recovery"}
    BY <1>0, <1>1 DEF ChainMaterializing, ChainComplete, ChainIncomplete, ChainUnavailable,
         Requesting, RecoveryVendorError, RecoveryRefused, RecoverySucceeds, Recovering, Jobs
  <2> QED
    BY <1>b, <2>1
<1>2. ASSUME \/ NormalPassEnds
             \/ \E x \in Expiries : RecoveryCapReached(x)
             \/ \E t \in Tickers, cost \in Costs : \E n \in 0..SurfaceSize[t] :
                  OpenTicker(t, cost, 1..n)
      PROVE  Behind
  <2>1. job'.ticker = job.ticker /\ job'.phase \in {"chains", "recovery"}
    BY <1>0, <1>2 DEF NormalPassEnds, RecoveryCapReached, OpenTicker, Jobs
  <2> QED
    BY <1>b, <2>1
<1>3. ASSUME \/ \E t \in Tickers, cost \in Costs : SurfaceFails(t, cost)
             \/ \E x \in Expiries, cost \in Costs : ChainVendorError(x, cost)
      PROVE  Behind
  <2>1. SetRow(job.ticker, "VENDOR_ERROR") /\ job.run \in Runs
    BY <1>3 DEF SurfaceFails, ChainVendorError, Requesting, RunInv
  <2>2. row'[job.run][job.ticker].status = "VENDOR_ERROR"
    BY <1>0, <2>1 DEF SetRow, Rows
  <2> QED
    BY <2>2 DEF Behind
<1>4. ASSUME NEW t \in Tickers, NEW cost \in Costs, NoNewSurface(t, cost) PROVE Behind
  <2>1. /\ UNCHANGED <<owner, chain>> /\ job.phase = "surface"
        /\ row[job.run][job.ticker].status = "NONE"
    BY <1>0, <1>4 DEF NoNewSurface, WalkInv, Ahead, EmptyRow, Tickers
  <2> QED
    BY <1>c, <2>1
<1>5. ASSUME FinishTicker PROVE Behind
  <2>1. /\ UNCHANGED <<owner, chain>> /\ job.phase = "recovery"
        /\ row[job.run][job.ticker].status = "RUNNING"
    BY <1>5 DEF FinishTicker, WalkInv
  <2> QED
    BY <1>c, <2>1
<1>6. ASSUME SurfaceBudgetStop \/ RecoveryBudgetStop PROVE Behind
  <2>1. UNCHANGED <<row, owner, chain>> /\ job.phase \in {"surface", "recovery"}
    BY <1>6 DEF SurfaceBudgetStop, RecoveryBudgetStop
  <2> QED
    BY <1>c, <2>1
<1>7. ASSUME ChainBudgetStop PROVE Behind
  <2>1. \A x \in Expiries : chain[job.ticker][x] = "PENDING" => x \in job.todo
    BY <1>7 DEF ChainBudgetStop, ChainsInv, MemoryInv, KnownAs
  <2>2. \A x \in Expiries : chain'[job.ticker][x] # "PENDING"
    BY <1>0, <1>7, <2>1 DEF ChainBudgetStop
  <2> QED
    BY <2>2 DEF Behind
<1>8. ASSUME MarkUnattempted PROVE Behind
  <2>1. UNCHANGED <<owner, chain>> /\ job.phase = "stopping"
    BY <1>8 DEF MarkUnattempted
  <2>2. row[job.run][job.ticker].status = "VENDOR_ERROR" =>
          row'[job.run][job.ticker].status = "VENDOR_ERROR"
    BY <1>0, <1>8, Unattempted
  <2> QED
    BY <1>c, <2>1, <2>2
<1>9. ASSUME NEW r \in Runs, StartRun(r) PROVE PendingInv'
  <2>1. job'.run = r /\ run[r] = "NONE" /\ owner' = owner /\ r # 0
    BY <1>9 DEF StartRun, Idle, Runs
  <2>2. \A t \in Tickers : owner[t] # r
    BY <2>1 DEF RunInv
  <2> QED
    BY <2>1, <2>2 DEF PendingInv
<1>10. CASE FinishRun \/ RunFails \/ RunLost
  BY <1>10 DEF FinishRun, RunFails, RunLost, EndRun, Idle, PendingInv
<1>11. CASE AllRunsUsed \/ UNCHANGED vars
  BY <1>11 DEF AllRunsUsed, vars, ChainsInv, PendingInv
<1>12. Step => FinishRun \/ Behind
  BY <1>1, <1>2, <1>3, <1>4, <1>5, <1>6, <1>7, <1>8 DEF Step
<1> QED
  BY <1>a, <1>9, <1>10, <1>11, <1>12 DEF Next

-----------------------------------------------------------------------------
(* The walk over the universe *)

LEMMA WalkStep == TypeOK /\ RunInv /\ WalkInv /\ ChainsInv /\ [Next]_vars => WalkInv'
<1> SUFFICES ASSUME TypeOK, RunInv, WalkInv, ChainsInv, [Next]_vars PROVE WalkInv'
  OBVIOUS
<1>0. /\ job \in Jobs /\ job.ticker \in Tickers /\ row \in [Runs -> [Tickers -> Rows]]
      /\ job.phase # "idle" => job.run \in Runs
      /\ job.ticker \in Nat
  BY DEF TypeOK, Jobs, Rows, RunInv, Tickers
<1>d. \A t \in Tickers : t \in Nat /\ t <= TickerCount
  BY DEF Tickers
\* The ticker in progress is settled, and the walk goes on.
<1>a. ASSUME NEW cost, NextTicker(job.ticker, cost), job.phase \in {"surface", "chains", "recovery"},
             NEW status \in Settled, SetRow(job.ticker, status)
      PROVE  WalkInv'
  <2>1. row'[job.run][job.ticker].status = status
    BY <1>0, <1>a DEF SetRow, Rows
  <2>2. \A t \in Tickers \ {job.ticker} : row'[job.run][t] = row[job.run][t]
    BY <1>0, <1>a DEF SetRow
  <2>3. \A t \in Tickers : t <= job.ticker => row'[job.run][t].status \in Settled
    <3>1. ASSUME NEW t \in Tickers, t <= job.ticker, t # job.ticker PROVE t < job.ticker
      BY <1>0, <1>d, <3>1
    <3>2. \A t \in Tickers : t < job.ticker => row[job.run][t].status \in Settled
      BY <1>a DEF WalkInv
    <3> QED
      BY <1>a, <2>1, <2>2, <3>1, <3>2
  <2>4. \A t \in Tickers : t > job.ticker => row'[job.run][t] = EmptyRow
    <3>1. ASSUME NEW t \in Tickers, t > job.ticker PROVE t >= job.ticker /\ t # job.ticker
      BY <1>0, <1>d, <3>1
    <3>2. \A t \in Tickers : t > job.ticker => row[job.run][t] = EmptyRow
      BY <1>a, <3>1 DEF WalkInv, Ahead
    <3> QED
      BY <2>2, <3>1, <3>2
  <2>5. CASE job'.phase = "finishing" /\ job'.run = job.run /\ job.ticker = TickerCount
             /\ job'.ticker = job.ticker
    <3>1. \A t \in Tickers : row'[job.run][t].status \in Settled
      BY <1>d, <2>3, <2>5
    <3> QED
      BY <2>5, <3>1 DEF WalkInv, Ahead, Settled
  <2>6. CASE job'.phase = "surface" /\ job'.run = job.run /\ job'.ticker = job.ticker + 1
    <3>1. \A t \in Tickers : t >= job.ticker + 1 => t > job.ticker
      BY <1>0, <1>d
    <3>2. \A t \in Tickers : t < job.ticker + 1 => t <= job.ticker
      BY <1>0, <1>d
    <3> QED
      BY <2>3, <2>4, <2>6, <3>1, <3>2 DEF WalkInv, Ahead
  <2> QED
    BY <1>a, <2>5, <2>6, NextTickerMoves
\* The ticker in progress is being worked on.
<1>b. ASSUME job.phase \in {"surface", "chains", "recovery"}, job'.phase \in {"chains", "recovery"},
             job'.run = job.run, job'.ticker = job.ticker,
             \A t \in Tickers \ {job.ticker} : row'[job.run][t] = row[job.run][t],
             row'[job.run][job.ticker].status = "RUNNING"
      PROVE  WalkInv'
  <2>1. ASSUME NEW t \in Tickers, t > job.ticker
        PROVE  row'[job.run][t] = EmptyRow
    <3>1. t >= job.ticker /\ t # job.ticker
      BY <1>0, <1>d, <2>1
    <3> QED
      BY <1>b, <2>1, <3>1 DEF WalkInv, Ahead
  <2>2. ASSUME NEW t \in Tickers, t < job.ticker
        PROVE  row'[job.run][t].status \in Settled
    <3>1. t # job.ticker
      BY <1>0, <1>d, <2>2
    <3> QED
      BY <1>b, <2>2, <3>1 DEF WalkInv
  <2> QED
    BY <1>b, <2>1, <2>2 DEF WalkInv, Ahead
\* The budget stops it.
<1>c. ASSUME job.phase # "idle", job'.phase = "stopping", job'.limited,
             job'.run = job.run, job'.ticker = job.ticker,
             \A t \in Tickers \ {job.ticker} : row'[job.run][t] = row[job.run][t]
      PROVE  WalkInv'
  BY <1>0, <1>c DEF WalkInv, Ahead
<1>1. ASSUME NEW r \in Runs, StartRun(r) PROVE WalkInv'
  <2>1. /\ job'.phase = "surface" /\ job'.run = r /\ job'.ticker = 1 /\ row' = row
        /\ run[r] = "NONE"
    BY <1>1 DEF StartRun, Idle
  <2>2. \A t \in Tickers : row[r][t] = EmptyRow /\ ~(t < 1)
    BY <2>1 DEF RunInv, Tickers
  <2> QED
    BY <2>1, <2>2 DEF WalkInv, Ahead
<1>2. ASSUME SurfaceBudgetStop \/ RecoveryBudgetStop \/ ChainBudgetStop PROVE WalkInv'
  <2>1. /\ job.phase # "idle" /\ job'.phase = "stopping" /\ job'.limited
        /\ job'.run = job.run /\ job'.ticker = job.ticker
    BY <1>0, <1>2 DEF SurfaceBudgetStop, RecoveryBudgetStop, ChainBudgetStop, Jobs
  <2>2. \A t \in Tickers \ {job.ticker} : row'[job.run][t] = row[job.run][t]
    BY <1>0, <1>2 DEF SurfaceBudgetStop, RecoveryBudgetStop, ChainBudgetStop, SetRow
  <2> QED
    BY <1>c, <2>1, <2>2
<1>3. ASSUME NEW t \in Tickers, NEW cost \in Costs, SurfaceFails(t, cost) \/ NoNewSurface(t, cost)
      PROVE  WalkInv'
  <2>1. /\ job.phase = "surface" /\ NextTicker(job.ticker, cost)
        /\ SetRow(job.ticker, "VENDOR_ERROR") \/ SetRow(job.ticker, "NO_NEW_VENDOR_OI_SNAPSHOT")
    BY <1>3 DEF SurfaceFails, NoNewSurface
  <2> QED
    BY <1>a, <2>1 DEF Settled
<1>4. ASSUME NEW t \in Tickers, NEW cost \in Costs, NEW scope, OpenTicker(t, cost, scope)
      PROVE  WalkInv'
  <2>1. /\ job.phase = "surface" /\ job'.phase = "chains" /\ job'.run = job.run
        /\ job'.ticker = job.ticker /\ SetRow(job.ticker, "RUNNING")
    BY <1>0, <1>4 DEF OpenTicker, Jobs
  <2>2. /\ row'[job.run][job.ticker].status = "RUNNING"
        /\ \A u \in Tickers \ {job.ticker} : row'[job.run][u] = row[job.run][u]
    BY <1>0, <2>1 DEF SetRow, Rows
  <2> QED
    BY <1>b, <2>1, <2>2
<1>5. ASSUME row' = row, job.phase \in {"chains", "recovery"}, job'.phase \in {"chains", "recovery"},
             job'.run = job.run, job'.ticker = job.ticker
      PROVE  WalkInv'
  BY <1>0, <1>5 DEF WalkInv, Ahead
<1>6. ASSUME \/ NormalPassEnds
             \/ \E x \in Expiries : \/ RecoveryCapReached(x)
                                    \/ \E cost \in Costs : \/ ChainMaterializing(x, cost)
                                                           \/ RecoveryVendorError(x, cost)
                                                           \/ RecoveryRefused(x, cost)
      PROVE  WalkInv'
  <2>1. /\ row' = row /\ job.phase \in {"chains", "recovery"}
        /\ job'.phase \in {"chains", "recovery"} /\ job'.run = job.run
        /\ job'.ticker = job.ticker
    BY <1>0, <1>6 DEF NormalPassEnds, RecoveryCapReached, ChainMaterializing, Requesting,
         RecoveryVendorError, RecoveryRefused, Recovering, Jobs
  <2> QED
    BY <1>5, <2>1
<1>7. ASSUME NEW x \in Expiries, NEW cost \in Costs,
             \/ ChainComplete(x, cost) \/ RecoverySucceeds(x, cost)
             \/ \E reason \in {"DEFERRED", "REFUSED"} : ChainIncomplete(x, cost, reason)
             \/ \E reason \in Unavailable : ChainUnavailable(x, cost, reason)
      PROVE  WalkInv'
  <2>1. /\ job.phase \in {"chains", "recovery"} /\ job'.phase = job.phase
        /\ job'.run = job.run /\ job'.ticker = job.ticker
    BY <1>0, <1>7 DEF ChainComplete, RecoverySucceeds, ChainIncomplete, ChainUnavailable,
                      Requesting, Recovering, Jobs
  <2>2. row[job.run][job.ticker].status = "RUNNING" /\ row[job.run][job.ticker] \in Rows
    BY <1>0, <2>1 DEF WalkInv
  <2>3. \E new : /\ row' = [row EXCEPT ![job.run][job.ticker] = new]
                 /\ new.status = row[job.run][job.ticker].status
    <3>1. CASE ChainComplete(x, cost)
      <4> DEFINE new == [row[job.run][job.ticker] EXCEPT !.complete = @ + 1]
      <4>1. row' = [row EXCEPT ![job.run][job.ticker] = new]
        BY <1>0, <2>1, <3>1 DEF ChainComplete
      <4>2. new.status = row[job.run][job.ticker].status
        BY <2>2 DEF Rows
      <4> QED
        BY <4>1, <4>2
    <3>2. CASE RecoverySucceeds(x, cost)
      <4> DEFINE new == [status |-> row[job.run][job.ticker].status,
                         complete |-> row[job.run][job.ticker].complete + 1,
                         incomplete |-> row[job.run][job.ticker].incomplete - 1]
      <4>1. row' = [row EXCEPT ![job.run][job.ticker] = new]
        BY <1>0, <2>1, <3>2 DEF RecoverySucceeds
      <4>2. new.status = row[job.run][job.ticker].status
        BY <2>2 DEF Rows
      <4> QED
        BY <4>1, <4>2
    <3>3. CASE \/ \E reason \in {"DEFERRED", "REFUSED"} : ChainIncomplete(x, cost, reason)
               \/ \E reason \in Unavailable : ChainUnavailable(x, cost, reason)
      <4> DEFINE new == [row[job.run][job.ticker] EXCEPT !.incomplete = @ + 1]
      <4>1. row' = [row EXCEPT ![job.run][job.ticker] = new]
        BY <1>0, <2>1, <3>3 DEF ChainIncomplete, ChainUnavailable
      <4>2. new.status = row[job.run][job.ticker].status
        BY <2>2 DEF Rows
      <4> QED
        BY <4>1, <4>2
    <3> QED
      BY <1>7, <3>1, <3>2, <3>3
  <2>4. /\ row'[job.run][job.ticker].status = "RUNNING"
        /\ \A u \in Tickers \ {job.ticker} : row'[job.run][u] = row[job.run][u]
    BY <1>0, <2>1, <2>2, <2>3
  <2> QED
    BY <1>b, <2>1, <2>4
<1>8. ASSUME NEW x \in Expiries, NEW cost \in Costs, ChainVendorError(x, cost) PROVE WalkInv'
  BY <1>8, <1>a DEF ChainVendorError, Requesting, Settled
<1>9. ASSUME FinishTicker PROVE WalkInv'
  BY <1>9, <1>a DEF FinishTicker, Settled
<1>10. ASSUME MarkUnattempted PROVE WalkInv'
  <2>1. /\ job.phase = "stopping" /\ job'.phase = "finishing" /\ job'.run = job.run
        /\ job'.ticker = job.ticker /\ job'.limited = job.limited /\ job.limited
    BY <1>0, <1>10 DEF MarkUnattempted, WalkInv, Jobs
  <2>2. ASSUME NEW t \in Tickers
        PROVE  /\ row'[job.run][t].status # "NONE"
               /\ t < job.ticker => row'[job.run][t].status \in Settled
    <3>1. t < job.ticker => row[job.run][t].status \in Settled
      BY <2>1 DEF WalkInv
    <3>2. /\ t >= job.ticker => row'[job.run][t].status # "NONE"
          /\ row'[job.run][t] = row[job.run][t] \/ t >= job.ticker
      BY <1>10, Unattempted
    <3>3. t < job.ticker \/ t >= job.ticker
      BY <1>0, <1>d
    <3>4. t < job.ticker => ~(t >= job.ticker)
      BY <1>0, <1>d
    <3> QED
      BY <3>1, <3>2, <3>3, <3>4 DEF Settled
  <2> QED
    BY <2>1, <2>2 DEF WalkInv, Ahead
<1>11. CASE FinishRun \/ RunFails \/ RunLost
  BY <1>11 DEF FinishRun, RunFails, RunLost, EndRun, Idle, WalkInv
<1>12. CASE AllRunsUsed \/ UNCHANGED vars
  BY <1>12 DEF AllRunsUsed, vars, WalkInv, Ahead
<1>13. Step => WalkInv'
  BY <1>2, <1>3, <1>4, <1>6, <1>7, <1>8, <1>9, <1>10, <1>11 DEF Step
<1> QED
  BY <1>1, <1>11, <1>12, <1>13 DEF Next

-----------------------------------------------------------------------------
(* Rows and chains *)

RowMatches(t) ==
  /\ owner[t] # 0 => /\ row[owner[t]][t].complete = Cardinality(Done(t))
                     /\ row[owner[t]][t].incomplete = Cardinality(Counted(t))
  /\ \A x \in Expiries : content[t][x] = IF chain[t][x] = "COMPLETE" THEN 1 ELSE 0

LEMMA RowsStep ==
  TypeOK /\ RunInv /\ WalkInv /\ ChainsInv /\ RowsMatchChains /\ [Next]_vars => RowsMatchChains'
<1> SUFFICES ASSUME TypeOK, RunInv, WalkInv, ChainsInv, RowsMatchChains, [Next]_vars
             PROVE  RowsMatchChains'
  OBVIOUS
<1>0. /\ job \in Jobs /\ job.ticker \in Tickers /\ row \in [Runs -> [Tickers -> Rows]]
      /\ chain \in [Tickers -> [Expiries -> ChainStatuses]]
      /\ owner \in [Tickers -> 0..MaxRuns] /\ content \in [Tickers -> [Expiries -> Nat]]
      /\ job.phase # "idle" => job.run \in Runs /\ job.run # 0
  BY DEF TypeOK, Jobs, Rows, RunInv, Runs
<1>a. RowsMatchChains <=> \A t \in Tickers : RowMatches(t)
  BY DEF RowsMatchChains, RowMatches, Done, Counted
<1>b. (\A t \in Tickers : RowMatches(t)') => RowsMatchChains'
  BY DEF RowsMatchChains, RowMatches, Done, Counted
<1> DEFINE T == job.ticker
           Counters(r, t) == <<r[job.run][t].complete, r[job.run][t].incomplete>>
\* What matters of a step is what it does to the ticker in progress.
<1>c. ASSUME Step, ~FinishRun, NEW u \in Tickers, u = job.ticker, RowMatches(u)'
      PROVE  RowsMatchChains'
  <2>1. OwnWork
    BY <1>c, WorkStep
  <2>2. ASSUME NEW t \in Tickers \ {u} PROVE RowMatches(t)'
    <3>1. /\ owner'[t] = owner[t] /\ chain'[t] = chain[t] /\ content'[t] = content[t]
      BY <1>c, <2>1, <2>2 DEF OwnWork
    <3>2. job.run \in Runs
      BY <1>0, <2>1 DEF OwnWork
    <3>3. ASSUME owner[t] # 0
          PROVE  /\ row'[owner[t]][t].complete = row[owner[t]][t].complete
                 /\ row'[owner[t]][t].incomplete = row[owner[t]][t].incomplete
      <4>1. CASE owner[t] = job.run
        BY <1>c, <2>2, <3>2, <4>1, OtherRows, Unattempted
      <4>2. CASE owner[t] # job.run
        <5>1. owner[t] \in Runs
          BY <1>0, <3>3 DEF Runs
        <5> QED
          BY <2>1, <4>2, <5>1 DEF OwnWork
      <4> QED
        BY <4>1, <4>2
    <3>4. RowMatches(t) /\ Done(t)' = Done(t) /\ Counted(t)' = Counted(t)
      BY <1>a, <3>1 DEF Done, Counted
    <3> QED
      BY <3>1, <3>3, <3>4 DEF RowMatches
  <2> QED
    BY <1>b, <1>c, <2>2
\* A step that leaves the chains and the counters of its ticker.
<1>d. ASSUME NEW u \in Tickers, u = job.ticker, job.phase # "idle",
             owner'[u] = owner[u], content'[u] = content[u],
             Done(u)' = Done(u), Counted(u)' = Counted(u),
             row'[job.run][u].complete = row[job.run][u].complete,
             row'[job.run][u].incomplete = row[job.run][u].incomplete,
             \A r \in Runs \ {job.run} : row'[r] = row[r]
      PROVE  RowMatches(u)'
  <2>1. RowMatches(u)
    BY <1>a
  <2>2. \A x \in Expiries : chain'[u][x] = "COMPLETE" <=> chain[u][x] = "COMPLETE"
    BY <1>d DEF Done
  <2>3. owner[u] # 0 => owner[u] \in Runs
    BY <1>0 DEF Runs
  <2>4. owner[u] # 0 => /\ row'[owner[u]][u].complete = row[owner[u]][u].complete
                        /\ row'[owner[u]][u].incomplete = row[owner[u]][u].incomplete
    BY <1>d, <2>3
  <2> QED
    BY <1>d, <2>1, <2>2, <2>4 DEF RowMatches
\* A step that writes nothing but a status of a row.
<1>e. ASSUME NEW u \in Tickers, u = job.ticker, job.phase # "idle",
             UNCHANGED <<owner, content, chain>>,
             row' = row \/ \E status : SetRow(u, status)
      PROVE  RowMatches(u)'
  <2>1. /\ row'[job.run][u].complete = row[job.run][u].complete
        /\ row'[job.run][u].incomplete = row[job.run][u].incomplete
        /\ \A r \in Runs \ {job.run} : row'[r] = row[r]
    <3>1. job.run \in Runs /\ row[job.run][u] \in Rows
      BY <1>0, <1>e
    <3>2. CASE row' = row
      BY <3>2
    <3>3. CASE \E status : SetRow(u, status)
      <4>1. PICK status : SetRow(u, status)
        BY <3>3
      <4>2. row'[job.run][u] = [row[job.run][u] EXCEPT !.status = status]
        BY <1>0, <3>1, <4>1 DEF SetRow
      <4>3. \A r \in Runs \ {job.run} : row'[r] = row[r]
        BY <1>0, <3>1, <4>1 DEF SetRow
      <4> QED
        BY <3>1, <4>2, <4>3 DEF Rows
    <3> QED
      BY <1>e, <3>2, <3>3
  <2>2. Done(u)' = Done(u) /\ Counted(u)' = Counted(u)
    BY <1>e DEF Done, Counted
  <2> QED
    BY <1>d, <1>e, <2>1, <2>2
<1>1. ASSUME NEW u \in Tickers, u = job.ticker,
             \/ SurfaceBudgetStop \/ NormalPassEnds \/ RecoveryBudgetStop \/ FinishTicker
             \/ \E cost \in Costs : SurfaceFails(u, cost) \/ NoNewSurface(u, cost)
             \/ \E x \in Expiries : \/ RecoveryCapReached(x)
                                    \/ \E cost \in Costs : \/ ChainMaterializing(x, cost)
                                                           \/ ChainVendorError(x, cost)
                                                           \/ RecoveryVendorError(x, cost)
      PROVE  RowMatches(u)'
  <2>1. /\ job.phase # "idle" /\ UNCHANGED <<owner, content, chain>>
        /\ row' = row \/ \E status : SetRow(u, status)
    BY <1>1 DEF SurfaceBudgetStop, NormalPassEnds, RecoveryBudgetStop, FinishTicker, SurfaceFails,
         NoNewSurface, RecoveryCapReached, ChainMaterializing, ChainVendorError, Requesting,
         RecoveryVendorError, Recovering
  <2> QED
    BY <1>1, <1>e, <2>1
<1>2. ASSUME NEW u \in Tickers, u = job.ticker, NEW cost \in Costs, NEW scope,
             OpenTicker(u, cost, scope)
      PROVE  RowMatches(u)'
  <2>1. row[job.run][u] = EmptyRow /\ owner[u] = 0 /\ job.run \in Runs
    BY <1>0, <1>2 DEF OpenTicker, WalkInv, Ahead, Tickers
  <2>2. row'[job.run][u].complete = 0 /\ row'[job.run][u].incomplete = 0
    BY <1>0, <1>2, <2>1 DEF OpenTicker, SetRow, EmptyRow
  <2>3. \A x \in Expiries : chain'[u][x] \in {"PENDING", "NONE"} /\ chain[u][x] = "NONE"
    BY <1>0, <1>2, <2>1 DEF OpenTicker, ChainsInv, OwnerInv
  <2>4. Done(u)' = {} /\ Counted(u)' = {}
    BY <2>3 DEF Done, Counted, IncompleteChain, Unavailable
  <2>5. owner'[u] \in {0, job.run}
    BY <1>0, <1>2 DEF OpenTicker
  <2>6. \A x \in Expiries : content'[u][x] = 0
    BY <1>a, <1>2, <2>3 DEF OpenTicker, RowMatches
  <2> QED
    BY <2>2, <2>3, <2>4, <2>5, <2>6, FS_EmptySet DEF RowMatches
\* An outcome of one expiry x of ticker u, with what it does to the counters.
<1> DEFINE Outcome(u, x, status, done, gone) ==
      /\ job.phase # "idle" /\ owner' = owner
      /\ chain' = [chain EXCEPT ![u][x] = status]
      /\ content'[u] = IF status = "COMPLETE" THEN [content[u] EXCEPT ![x] = @ + 1] ELSE content[u]
      /\ row'[job.run][u].complete = row[job.run][u].complete + done
      /\ row'[job.run][u].incomplete = row[job.run][u].incomplete + gone
      /\ owner[u] = job.run
<1>f. ASSUME NEW u \in Tickers, NEW x \in Expiries, NEW status, NEW done \in Int, NEW gone \in Int,
             Outcome(u, x, status, done, gone), chain[u][x] # "COMPLETE",
             Cardinality(Done(u)') = Cardinality(Done(u)) + done,
             Cardinality(Counted(u)') = Cardinality(Counted(u)) + gone
      PROVE  RowMatches(u)'
  <2>1. RowMatches(u) /\ owner[u] # 0
    BY <1>0, <1>a, <1>f
  <2>2. content[u] \in [Expiries -> Nat] /\ content[u][x] = 0
    BY <1>0, <1>f, <2>1 DEF RowMatches
  <2>3. \A y \in Expiries : chain'[u][y] = IF y = x THEN status ELSE chain[u][y]
    BY <1>0, <1>f
  <2>4. \A y \in Expiries : content'[u][y] = IF chain'[u][y] = "COMPLETE" THEN 1 ELSE 0
    <3>1. CASE status = "COMPLETE"
      <4>1. content'[u] = [content[u] EXCEPT ![x] = content[u][x] + 1]
        BY <1>f, <3>1
      <4> QED
        BY <2>1, <2>2, <2>3, <3>1, <4>1 DEF RowMatches
    <3>2. CASE status # "COMPLETE"
      BY <1>f, <2>1, <2>3, <3>2 DEF RowMatches
    <3> QED
      BY <3>1, <3>2
  <2> QED
    BY <1>f, <2>1, <2>4 DEF RowMatches
<1>g. ASSUME NEW u \in Tickers, NEW x \in Expiries, NEW status,
             chain' = [chain EXCEPT ![u][x] = status]
      PROVE  /\ status = "COMPLETE" => Done(u)' = Done(u) \union {x}
             /\ status # "COMPLETE" => Done(u)' = Done(u) \ {x}
             /\ status \in IncompleteChain => Counted(u)' = Counted(u) \union {x}
             /\ status \notin IncompleteChain => Counted(u)' = Counted(u) \ {x}
             /\ Done(u) \subseteq Expiries /\ Counted(u) \subseteq Expiries
             /\ x \in Done(u) <=> chain[u][x] = "COMPLETE"
             /\ x \in Counted(u) <=> chain[u][x] \in IncompleteChain
  <2>1. \A y \in Expiries : chain'[u][y] = IF y = x THEN status ELSE chain[u][y]
    BY <1>0, <1>g
  <2> QED
    BY <2>1 DEF Done, Counted
<1>h. ASSUME NEW u \in Tickers, u = job.ticker, NEW x \in Expiries, NEW status,
             job.phase \in {"chains", "recovery"}, chain[u][x] = status, status # "NONE"
      PROVE  owner[u] = job.run
  BY <1>h DEF ChainsInv, OwnerInv, MemoryInv
<1> HIDE DEF Outcome
<1>i. \A S \in SUBSET Expiries : Cardinality(S) \in Int
  BY Universe
<1>3. ASSUME NEW u \in Tickers, u = job.ticker, NEW x \in Expiries, NEW cost \in Costs,
             ChainComplete(x, cost)
      PROVE  RowMatches(u)'
  <2>1. /\ chain[u][x] = "PENDING" /\ job.phase = "chains" /\ job.run \in Runs
    BY <1>0, <1>3 DEF ChainComplete, Requesting, First, ChainsInv, MemoryInv, KnownAs
  <2>2. chain' = [chain EXCEPT ![u][x] = "COMPLETE"]
    BY <1>3 DEF ChainComplete, PersistChain
  <2>3. /\ row'[job.run][u].complete = row[job.run][u].complete + 1
        /\ row'[job.run][u].incomplete = row[job.run][u].incomplete
    <3>1. row' = [row EXCEPT ![job.run][u].complete = @ + 1] /\ row[job.run][u] \in Rows
      BY <1>0, <1>3, <2>1 DEF ChainComplete
    <3>2. row'[job.run][u] = [row[job.run][u] EXCEPT !.complete = @ + 1]
      BY <1>0, <2>1, <3>1
    <3> QED
      BY <3>1, <3>2 DEF Rows
  <2>4. content'[u] = [content[u] EXCEPT ![x] = @ + 1] /\ owner' = owner
    BY <1>0, <1>3 DEF ChainComplete, PersistChain
  <2>5. Outcome(u, x, "COMPLETE", 1, 0)
    <3>1. row[job.run][u].incomplete \in Nat
      BY <1>0, <2>1, Universe DEF Rows
    <3>2. row'[job.run][u].incomplete = row[job.run][u].incomplete + 0
      BY <2>3, <3>1
    <3>3. owner[u] = job.run
      BY <1>3, <1>h, <2>1
    <3> QED
      BY <2>1, <2>2, <2>3, <2>4, <3>2, <3>3 DEF Outcome
  <2>6. /\ Cardinality(Done(u)') = Cardinality(Done(u)) + 1
        /\ Cardinality(Counted(u)') = Cardinality(Counted(u)) + 0
    <3>1. x \notin Done(u) /\ x \notin Counted(u)
      BY <2>1 DEF Done, Counted, IncompleteChain, Unavailable
    <3>2. "COMPLETE" \notin IncompleteChain
      BY DEF IncompleteChain, Unavailable
    <3>3. /\ Done(u)' = Done(u) \union {x} /\ Counted(u)' = Counted(u) \ {x}
          /\ Done(u) \subseteq Expiries /\ Counted(u) \subseteq Expiries
      BY <1>g, <2>2, <3>2
    <3>4. Counted(u)' = Counted(u)
      BY <3>1, <3>3
    <3>5. Cardinality(Counted(u)) \in Int
      BY <1>i, <3>3
    <3>6. Cardinality(Done(u) \union {x}) = Cardinality(Done(u)) + 1
      BY <3>1, <3>3, Counting
    <3> QED
      BY <3>3, <3>4, <3>5, <3>6
  <2> QED
    BY <1>f, <2>1, <2>5, <2>6
<1>4. ASSUME NEW u \in Tickers, u = job.ticker, NEW x \in Expiries, NEW cost \in Costs,
             \/ \E reason \in {"DEFERRED", "REFUSED"} : ChainIncomplete(x, cost, reason)
             \/ \E reason \in Unavailable : ChainUnavailable(x, cost, reason)
      PROVE  RowMatches(u)'
  <2>1. PICK reason \in IncompleteChain :
          /\ Requesting(x) /\ UNCHANGED <<run, owner, content>>
          /\ chain' = [chain EXCEPT ![job.ticker][x] = reason]
          /\ row' = [row EXCEPT ![job.run][job.ticker].incomplete = @ + 1]
    BY <1>4 DEF ChainIncomplete, ChainUnavailable, IncompleteChain
  <2>2. /\ chain[u][x] = "PENDING" /\ job.phase = "chains" /\ job.run \in Runs
    BY <1>0, <1>4, <2>1 DEF Requesting, First, ChainsInv, MemoryInv, KnownAs
  <2>3. /\ row'[job.run][u].complete = row[job.run][u].complete
        /\ row'[job.run][u].incomplete = row[job.run][u].incomplete + 1
    BY <1>0, <1>4, <2>1, <2>2 DEF Rows
  <2>4. row[job.run][u].complete \in Nat /\ reason # "COMPLETE"
    BY <1>0, <2>2, Universe DEF Rows, IncompleteChain, Unavailable
  <2>5. Outcome(u, x, reason, 0, 1)
    BY <1>4, <1>h, <2>1, <2>2, <2>3, <2>4 DEF Outcome
  <2>6. /\ Cardinality(Done(u)') = Cardinality(Done(u)) + 0
        /\ Cardinality(Counted(u)') = Cardinality(Counted(u)) + 1
    <3>1. chain' = [chain EXCEPT ![u][x] = reason]
      BY <1>4, <2>1
    <3>2. x \notin Counted(u) /\ x \notin Done(u)
      BY <2>2 DEF Counted, Done, IncompleteChain, Unavailable
    <3>3. Done(u) \subseteq Expiries /\ Counted(u) \subseteq Expiries
      BY <1>g, <3>1
    <3>4. Done(u)' = Done(u)
      <4>1. \A y \in Expiries : chain'[u][y] = IF y = x THEN reason ELSE chain[u][y]
        BY <1>0, <3>1
      <4>2. \A y \in Expiries : chain'[u][y] = "COMPLETE" <=> chain[u][y] = "COMPLETE"
        BY <2>2, <2>4, <4>1
      <4> QED
        BY <4>2 DEF Done
    <3>5. Counted(u)' = Counted(u) \union {x}
      BY <1>g, <2>1, <3>1
    <3>6. Cardinality(Done(u)) \in Int
      BY <1>i, <3>3
    <3>7. Cardinality(Counted(u) \union {x}) = Cardinality(Counted(u)) + 1
      BY <3>2, <3>3, Counting
    <3> QED
      BY <3>4, <3>5, <3>6, <3>7
  <2> QED
    BY <1>f, <2>2, <2>5, <2>6
<1>5. ASSUME NEW u \in Tickers, u = job.ticker, NEW x \in Expiries, NEW cost \in Costs,
             RecoverySucceeds(x, cost)
      PROVE  RowMatches(u)'
  <2>1. /\ chain[u][x] = "DEFERRED" /\ job.phase = "recovery" /\ job.run \in Runs
    BY <1>0, <1>5 DEF RecoverySucceeds, Recovering, First, ChainsInv, MemoryInv, KnownAs
  <2>2. chain' = [chain EXCEPT ![u][x] = "COMPLETE"]
    BY <1>5 DEF RecoverySucceeds, PersistChain
  <2>3. /\ row'[job.run][u].complete = row[job.run][u].complete + 1
        /\ row'[job.run][u].incomplete = row[job.run][u].incomplete - 1
    BY <1>0, <1>5, <2>1 DEF RecoverySucceeds
  <2>4. content'[u] = [content[u] EXCEPT ![x] = @ + 1] /\ owner' = owner
    BY <1>0, <1>5 DEF RecoverySucceeds, PersistChain
  <2>5. Outcome(u, x, "COMPLETE", 1, -1)
    <3>1. row[job.run][u].incomplete \in Nat
      BY <1>0, <2>1, Universe DEF Rows
    <3>2. row'[job.run][u].incomplete = row[job.run][u].incomplete + (-1)
      BY <2>3, <3>1
    <3>3. owner[u] = job.run
      BY <1>5, <1>h, <2>1
    <3> QED
      BY <2>1, <2>2, <2>3, <2>4, <3>2, <3>3 DEF Outcome
  <2>6. /\ Cardinality(Done(u)') = Cardinality(Done(u)) + 1
        /\ Cardinality(Counted(u)') = Cardinality(Counted(u)) + (-1)
    <3>1. x \in Counted(u) /\ x \notin Done(u)
      BY <2>1 DEF Counted, Done, IncompleteChain
    <3>2. "COMPLETE" \notin IncompleteChain
      BY DEF IncompleteChain, Unavailable
    <3>3. /\ Done(u)' = Done(u) \union {x} /\ Counted(u)' = Counted(u) \ {x}
          /\ Done(u) \subseteq Expiries /\ Counted(u) \subseteq Expiries
      BY <1>g, <2>2, <3>2
    <3> QED
      BY <1>i, <3>1, <3>3, Counting
  <2> QED
    BY <1>f, <2>1, <2>5, <2>6
<1>6. ASSUME NEW u \in Tickers, u = job.ticker, NEW x \in Expiries, NEW cost \in Costs,
             RecoveryRefused(x, cost)
      PROVE  RowMatches(u)'
  <2>1. /\ chain[u][x] = "DEFERRED" /\ job.phase = "recovery"
        /\ chain' = [chain EXCEPT ![u][x] = "REFUSED"] /\ UNCHANGED <<row, owner, content>>
    BY <1>6 DEF RecoveryRefused, Recovering, First, ChainsInv, MemoryInv, KnownAs
  <2>2. Done(u)' = Done(u) /\ Counted(u)' = Counted(u)
    <3>1. x \in Counted(u) /\ x \notin Done(u)
      BY <2>1 DEF Counted, Done, IncompleteChain
    <3>2. "REFUSED" \in IncompleteChain
      BY DEF IncompleteChain
    <3>3. chain' = [chain EXCEPT ![u][x] = "REFUSED"] /\ "REFUSED" # "COMPLETE"
      BY <1>6, <2>1
    <3>4. Done(u)' = Done(u) \ {x}
      BY <1>g, <3>3
    <3>5. Counted(u)' = Counted(u) \union {x}
      BY <1>g, <3>2, <3>3
    <3> QED
      BY <3>1, <3>4, <3>5
  <2> QED
    BY <1>6, <1>d, <2>1, <2>2
<1>7. ASSUME NEW u \in Tickers, u = job.ticker, ChainBudgetStop PROVE RowMatches(u)'
  <2>1. /\ job.phase = "chains" /\ UNCHANGED <<owner, content>>
        /\ SetRow(u, "PARTIAL_ARCHIVE_BUDGET_LIMIT") /\ job.run \in Runs
    BY <1>0, <1>7 DEF ChainBudgetStop
  <2>2. /\ row'[job.run][u].complete = row[job.run][u].complete
        /\ row'[job.run][u].incomplete = row[job.run][u].incomplete
        /\ \A r \in Runs \ {job.run} : row'[r] = row[r]
    BY <1>0, <2>1 DEF SetRow, Rows
  <2>3. \A x \in Expiries : \/ chain'[u][x] = chain[u][x]
                            \/ chain[u][x] = "PENDING" /\ chain'[u][x] = "BUDGET_NOT_ATTEMPTED"
    BY <1>0, <1>7 DEF ChainBudgetStop
  <2>4. Done(u)' = Done(u) /\ Counted(u)' = Counted(u)
    BY <2>3 DEF Done, Counted, IncompleteChain, Unavailable
  <2> QED
    BY <1>7, <1>d, <2>1, <2>2, <2>4
<1>8. ASSUME NEW u \in Tickers, u = job.ticker, MarkUnattempted PROVE RowMatches(u)'
  <2>1. /\ job.phase = "stopping" /\ UNCHANGED <<owner, content, chain>>
        /\ \A r \in Runs \ {job.run} : row'[r] = row[r]
    BY <1>0, <1>8 DEF MarkUnattempted
  <2>2. /\ row'[job.run][u].complete = row[job.run][u].complete
        /\ row'[job.run][u].incomplete = row[job.run][u].incomplete
    BY <1>8, Unattempted
  <2>3. Done(u)' = Done(u) /\ Counted(u)' = Counted(u)
    BY <2>1 DEF Done, Counted
  <2> QED
    BY <1>8, <1>d, <2>1, <2>2, <2>3
<1>9. ASSUME UNCHANGED <<row, chain, owner, content>> PROVE RowsMatchChains'
  BY <1>9 DEF RowsMatchChains
<1>10. CASE \/ \E r \in Runs : StartRun(r)
            \/ FinishRun \/ RunFails \/ RunLost \/ AllRunsUsed \/ UNCHANGED vars
  BY <1>9, <1>10 DEF StartRun, FinishRun, RunFails, RunLost, EndRun, AllRunsUsed, vars
<1>11. ASSUME NEW u \in Tickers, u = job.ticker, Step, ~FinishRun PROVE RowMatches(u)'
  <2>1. \A t \in Tickers, cost \in Costs :
          /\ SurfaceFails(t, cost) \/ NoNewSurface(t, cost) => t = u
          /\ \A scope : OpenTicker(t, cost, scope) => t = u
    BY <1>11 DEF SurfaceFails, NoNewSurface, OpenTicker
  <2> QED
    BY <1>11, <1>1, <1>2, <1>3, <1>4, <1>5, <1>6, <1>7, <1>8, <2>1 DEF Step
<1> QED
  BY <1>0, <1>c, <1>10, <1>11 DEF Next

-----------------------------------------------------------------------------
(* COMPLETE, and what a finished run leaves *)

\* The row of the ticker in progress becomes COMPLETE at the end of its recovery only.
LEMMA OnlyFinishCompletes ==
  ASSUME TypeOK, RunInv, WalkInv, ChainsInv, WalkInv', Step, ~FinishRun, ~FinishTicker
  PROVE  \/ row'[job.run][job.ticker].status # "COMPLETE"
         \/ /\ owner'[job.ticker] = owner[job.ticker] /\ chain'[job.ticker] = chain[job.ticker]
            /\ row'[job.run][job.ticker].status = row[job.run][job.ticker].status
<1> DEFINE Claim == \/ row'[job.run][job.ticker].status # "COMPLETE"
                    \/ /\ owner'[job.ticker] = owner[job.ticker]
                       /\ chain'[job.ticker] = chain[job.ticker]
                       /\ row'[job.run][job.ticker].status = row[job.run][job.ticker].status
<1>0. /\ job \in Jobs /\ job.ticker \in Tickers /\ row \in [Runs -> [Tickers -> Rows]]
      /\ job.phase # "idle" => job.run \in Runs
  BY DEF TypeOK, Jobs, Rows, RunInv
<1>1. ASSUME \/ SurfaceBudgetStop \/ RecoveryBudgetStop \/ NormalPassEnds
             \/ \E x \in Expiries : \/ RecoveryCapReached(x)
                                    \/ \E cost \in Costs : \/ ChainMaterializing(x, cost)
                                                           \/ RecoveryVendorError(x, cost)
      PROVE  Claim
  BY <1>1 DEF SurfaceBudgetStop, RecoveryBudgetStop, NormalPassEnds, RecoveryCapReached,
              ChainMaterializing, RecoveryVendorError
<1>2. ASSUME \/ ChainBudgetStop
             \/ \E t \in Tickers, cost \in Costs :
                  \/ SurfaceFails(t, cost) \/ NoNewSurface(t, cost)
                  \/ \E n \in 0..SurfaceSize[t] : OpenTicker(t, cost, 1..n)
             \/ \E x \in Expiries, cost \in Costs : ChainVendorError(x, cost)
      PROVE  Claim
  <2>1. PICK status \in RowStatuses \ {"COMPLETE"} : SetRow(job.ticker, status)
    BY <1>2 DEF ChainBudgetStop, SurfaceFails, NoNewSurface, OpenTicker, ChainVendorError,
                RowStatuses
  <2>2. job.run \in Runs
    BY <1>0, <1>2 DEF ChainBudgetStop, SurfaceFails, NoNewSurface, OpenTicker, ChainVendorError,
                      Requesting
  <2>3. row'[job.run][job.ticker].status = status
    BY <1>0, <2>1, <2>2 DEF SetRow, Rows
  <2> QED
    BY <2>3
<1>3. ASSUME NEW x \in Expiries, NEW cost \in Costs,
             \/ ChainComplete(x, cost) \/ RecoverySucceeds(x, cost) \/ RecoveryRefused(x, cost)
             \/ \E reason \in {"DEFERRED", "REFUSED"} : ChainIncomplete(x, cost, reason)
             \/ \E reason \in Unavailable : ChainUnavailable(x, cost, reason)
      PROVE  Claim
  <2>1. /\ job'.phase \in {"chains", "recovery"} /\ job'.run = job.run
        /\ job'.ticker = job.ticker
    BY <1>0, <1>3 DEF ChainComplete, RecoverySucceeds, RecoveryRefused, ChainIncomplete,
                      ChainUnavailable, Requesting, Recovering, Jobs
  <2>2. row'[job.run][job.ticker].status = "RUNNING"
    BY <2>1 DEF WalkInv
  <2> QED
    BY <2>2
<1>4. ASSUME MarkUnattempted PROVE Claim
  <2>1. UNCHANGED <<owner, chain>>
    BY <1>4 DEF MarkUnattempted
  <2> QED
    BY <1>0, <1>4, <2>1, Unattempted
<1> QED
  BY <1>1, <1>2, <1>3, <1>4 DEF Step

\* A ticker with a COMPLETE row has nothing left out.
Covered(t) ==
  owner[t] # 0 /\ row[owner[t]][t].status = "COMPLETE" =>
    \A x \in Expiries : chain[t][x] \in Accepted \union {"NONE"}

LEMMA CoverStep ==
  TypeOK /\ RunInv /\ WalkInv /\ ChainsInv /\ CompleteMeansCovered /\ [Next]_vars
    => CompleteMeansCovered'
<1> SUFFICES ASSUME TypeOK, RunInv, WalkInv, ChainsInv, CompleteMeansCovered, [Next]_vars
             PROVE  CompleteMeansCovered'
  OBVIOUS
<1>0. /\ job \in Jobs /\ job.ticker \in Tickers /\ row \in [Runs -> [Tickers -> Rows]]
      /\ run \in [Runs -> RunStatuses] /\ chain \in [Tickers -> [Expiries -> ChainStatuses]]
      /\ owner \in [Tickers -> 0..MaxRuns]
      /\ job.phase # "idle" => job.run \in Runs /\ job.run # 0 /\ run[job.run] = "RUNNING"
      /\ WalkInv'
  BY WalkStep DEF TypeOK, Jobs, Rows, RunInv, Runs
<1>a. \A t \in Tickers : Covered(t)
  BY DEF CompleteMeansCovered, Covered
<1>1. ASSUME Step, ~FinishRun PROVE CompleteMeansCovered'
  <2>1. OwnWork
    BY <1>1, WorkStep
  <2>2. ASSUME NEW r \in Runs, NEW t \in Tickers, run'[r] = "COMPLETE"
        PROVE  row'[r][t].status \in {"COMPLETE", "NO_NEW_VENDOR_OI_SNAPSHOT"}
    <3>1. run[r] = "COMPLETE" /\ r # job.run /\ row'[r] = row[r]
      BY <1>0, <2>1, <2>2 DEF OwnWork
    <3> QED
      BY <3>1 DEF CompleteMeansCovered
  <2>3. ASSUME NEW t \in Tickers, owner'[t] # 0, row'[owner'[t]][t].status = "COMPLETE"
        PROVE  \A x \in Expiries : chain'[t][x] \in Accepted \union {"NONE"}
    <3>1. CASE owner'[t] # job.run
      <4>1. owner'[t] = owner[t] /\ chain'[t] = chain[t]
        BY <2>1, <2>3, <3>1 DEF OwnWork
      <4>2. owner[t] \in Runs \ {job.run}
        BY <1>0, <2>3, <3>1, <4>1 DEF Runs
      <4>3. row'[owner[t]] = row[owner[t]]
        BY <2>1, <4>2 DEF OwnWork
      <4> QED
        BY <1>a, <2>3, <4>1, <4>3 DEF Covered
    <3>2. CASE owner'[t] = job.run /\ t # job.ticker
      <4>1. owner[t] = job.run /\ chain'[t] = chain[t]
        BY <2>1, <3>2 DEF OwnWork
      <4>2. job.run \in Runs
        BY <1>0, <2>1 DEF OwnWork
      <4>3. row[job.run][t].status = "COMPLETE"
        BY <1>1, <2>3, <3>2, <4>2, OtherRows, Unattempted
      <4> QED
        BY <1>a, <2>3, <3>2, <4>1, <4>3 DEF Covered
    <3>3. CASE owner'[t] = job.run /\ t = job.ticker /\ ~FinishTicker
      <4>1. /\ owner'[t] = owner[t] /\ chain'[t] = chain[t]
            /\ row'[job.run][t].status = row[job.run][t].status
        BY <1>0, <1>1, <2>3, <3>3, OnlyFinishCompletes
      <4> QED
        BY <1>a, <2>3, <3>3, <4>1 DEF Covered
    <3>4. CASE owner'[t] = job.run /\ t = job.ticker /\ FinishTicker
      <4>1. /\ job.phase = "recovery" /\ job.deferred = {} /\ chain' = chain
            /\ SetRow(t, IF job.incomplete # {} \/ job.activeGone
                           THEN "PARTIAL_INCOMPLETE_CHAIN" ELSE "COMPLETE")
        BY <3>4 DEF FinishTicker
      <4>2. row'[job.run][t].status = IF job.incomplete # {} \/ job.activeGone
                                        THEN "PARTIAL_INCOMPLETE_CHAIN" ELSE "COMPLETE"
        BY <1>0, <4>1 DEF SetRow, Rows
      <4>3. job.incomplete = {} /\ ~job.activeGone
        BY <2>3, <3>4, <4>2
      <4>4. ASSUME NEW x \in Expiries
            PROVE  /\ chain[t][x] \in ChainStatuses
                   /\ chain[t][x] \notin {"PENDING", "DEFERRED", "REFUSED",
                                          "ACTIVE_CHAIN_UNAVAILABLE", "BUDGET_NOT_ATTEMPTED"}
        BY <1>0, <3>4, <4>1, <4>3 DEF ChainsInv, MemoryInv, KnownAs
      <4> QED
        BY <4>1, <4>4 DEF ChainStatuses, IncompleteChain, Unavailable, Accepted
    <3> QED
      BY <3>1, <3>2, <3>3, <3>4
  <2> QED
    BY <2>2, <2>3 DEF CompleteMeansCovered
<1>2. ASSUME UNCHANGED <<row, chain, owner>>,
             \A r \in Runs : run'[r] = "COMPLETE" =>
               \/ run[r] = "COMPLETE"
               \/ \A t \in Tickers :
                    row[r][t].status \in {"COMPLETE", "NO_NEW_VENDOR_OI_SNAPSHOT"}
      PROVE  CompleteMeansCovered'
  BY <1>2 DEF CompleteMeansCovered
<1>3. CASE FinishRun
  <2>1. /\ job.phase = "finishing" /\ UNCHANGED <<row, chain, owner>>
        /\ \A r \in Runs : run'[r] = IF r = job.run THEN FinishedStatus(job.run) ELSE run[r]
    BY <1>0, <1>3 DEF FinishRun, EndRun
  <2>2. ASSUME FinishedStatus(job.run) = "COMPLETE", NEW t \in Tickers
        PROVE  row[job.run][t].status \in {"COMPLETE", "NO_NEW_VENDOR_OI_SNAPSHOT"}
    <3> DEFINE statuses == {row[job.run][u].status :
                              u \in {v \in Tickers : row[job.run][v].status # "NONE"}}
    <3>1. ~job.limited /\ statuses \intersect {"VENDOR_ERROR", "PARTIAL_INCOMPLETE_CHAIN"} = {}
      BY <2>2 DEF FinishedStatus
    <3>2. row[job.run][t].status \in Settled /\ row[job.run][t].status \in statuses
      BY <2>1, <3>1 DEF WalkInv
    <3> QED
      BY <3>1, <3>2 DEF Settled
  <2> QED
    BY <1>2, <2>1, <2>2
<1>4. CASE RunFails \/ RunLost \/ AllRunsUsed \/ UNCHANGED vars \/ \E r \in Runs : StartRun(r)
  <2>1. /\ UNCHANGED <<row, chain, owner>>
        /\ \A r \in Runs : run'[r] = "COMPLETE" => run[r] = "COMPLETE"
    BY <1>0, <1>4 DEF RunFails, RunLost, EndRun, AllRunsUsed, vars, StartRun
  <2> QED
    BY <1>2, <2>1
<1> QED
  BY <1>1, <1>3, <1>4 DEF Next

LEMMA OmissionsStep ==
  TypeOK /\ RunInv /\ WalkInv /\ ChainsInv /\ OmissionsAreExplicit /\ [Next]_vars
    => OmissionsAreExplicit'
<1> SUFFICES ASSUME TypeOK, RunInv, WalkInv, ChainsInv, OmissionsAreExplicit, [Next]_vars
             PROVE  OmissionsAreExplicit'
  OBVIOUS
<1>0. /\ run \in [Runs -> RunStatuses] /\ owner \in [Tickers -> 0..MaxRuns]
      /\ job.phase # "idle" => job.run \in Runs /\ run[job.run] = "RUNNING"
  BY DEF TypeOK, RunInv
\* A run that was finished before the step.
<1>a. ASSUME NEW r \in Runs, NEW t \in Tickers, run[r] \in FinishedStatuses, run'[r] = run[r],
             row'[r] = row[r],
             owner'[t] = r => owner[t] = r /\ chain'[t] = chain[t]
      PROVE  /\ row'[r][t].status # "NONE"
             /\ row'[r][t].status = "RUNNING" => run'[r] = "PARTIAL_ARCHIVE_BUDGET_LIMIT"
             /\ owner'[t] = r /\ row'[r][t].status # "VENDOR_ERROR" =>
                  \A x \in Expiries : chain'[t][x] # "PENDING"
  BY <1>a DEF OmissionsAreExplicit
<1>1. ASSUME Step, ~FinishRun PROVE OmissionsAreExplicit'
  <2>1. OwnWork
    BY <1>1, WorkStep
  <2>2. ASSUME NEW r \in Runs, NEW t \in Tickers, run'[r] \in FinishedStatuses
        PROVE  /\ run[r] \in FinishedStatuses /\ run'[r] = run[r] /\ row'[r] = row[r]
               /\ owner'[t] = r => owner[t] = r /\ chain'[t] = chain[t]
    <3>1. run'[r] = run[r] /\ r # job.run /\ r # 0
      BY <1>0, <2>1, <2>2 DEF OwnWork, FinishedStatuses, Runs
    <3> QED
      BY <2>1, <2>2, <3>1 DEF OwnWork
  <2> QED
    BY <1>a, <2>2 DEF OmissionsAreExplicit
<1>2. CASE FinishRun
  <2>1. /\ job.phase = "finishing" /\ UNCHANGED <<row, chain, owner>> /\ job.run \in Runs
        /\ \A r \in Runs : run'[r] = IF r = job.run THEN FinishedStatus(job.run) ELSE run[r]
    BY <1>0, <1>2 DEF FinishRun, EndRun
  <2>2. ASSUME NEW t \in Tickers
        PROVE  /\ row[job.run][t].status # "NONE"
               /\ row[job.run][t].status = "RUNNING" =>
                    FinishedStatus(job.run) = "PARTIAL_ARCHIVE_BUDGET_LIMIT"
               /\ owner[t] = job.run /\ row[job.run][t].status # "VENDOR_ERROR" =>
                    \A x \in Expiries : chain[t][x] # "PENDING"
    BY <2>1 DEF WalkInv, ChainsInv, PendingInv, Settled, FinishedStatus
  <2> QED
    BY <2>1, <2>2 DEF OmissionsAreExplicit
<1>3. CASE RunFails \/ RunLost \/ AllRunsUsed \/ UNCHANGED vars \/ \E r \in Runs : StartRun(r)
  <2>1. /\ UNCHANGED <<row, chain, owner>>
        /\ \A r \in Runs : run'[r] \in FinishedStatuses => run'[r] = run[r]
    BY <1>0, <1>3 DEF RunFails, RunLost, EndRun, AllRunsUsed, vars, StartRun, FinishedStatuses
  <2> QED
    BY <1>a, <2>1 DEF OmissionsAreExplicit
<1> QED
  BY <1>1, <1>2, <1>3 DEF Next

-----------------------------------------------------------------------------
(* The invariant, and what follows from it *)

LEMMA InitInv == Init => IInv
<1> SUFFICES ASSUME Init PROVE IInv
  OBVIOUS
<1>1. Cardinality(Expiries) \in Nat /\ 1 \in Tickers
  BY Universe
<1>2. TypeOK
  BY <1>1, ArchiveAssumption DEF Init, TypeOK, RunStatuses, FinishedStatuses, RowStatuses,
       ChainStatuses, EmptyRow, Idle
<1>3. BudgetRespected
  BY ArchiveAssumption DEF Init, Idle, BudgetRespected
<1>4. RunInv /\ WalkInv /\ ChainsInv
  BY DEF Init, Idle, RunInv, WalkInv, ChainsInv, OwnerInv, MemoryInv, PendingInv
<1>5. RowsMatchChains /\ CompleteMeansCovered
  BY DEF Init, RowsMatchChains, CompleteMeansCovered
<1>6. OmissionsAreExplicit
  BY DEF Init, OmissionsAreExplicit, FinishedStatuses
<1> QED
  BY <1>2, <1>3, <1>4, <1>5, <1>6 DEF IInv

LEMMA StepInv == IInv /\ [Next]_vars => IInv'
  BY TypeStep, RunStep, WalkStep, OwnerStep, MemoryStep, PendingStep, RowsStep, CoverStep,
     OmissionsStep DEF IInv, ChainsInv

\* The inductive invariant holds in every state of the archive.
THEOREM Invariance == Spec => []IInv
  BY InitInv, StepInv, PTL DEF Spec

\* Every run, row, chain and counter has its type: in particular the counters of a
\* ticker never pass the number of its expiries, nor fall below zero in a recovery.
THEOREM TypeCorrect == Spec => []TypeOK
<1>1. IInv => TypeOK
  BY DEF IInv
<1> QED
  BY <1>1, Invariance, PTL

\* ArchiveBudget: whatever the limit, the polls and the retries, a run passes the limit
\* by the retries of one request at most.
THEOREM BudgetIsRespected == Spec => []BudgetRespected
<1>1. IInv => BudgetRespected
  BY DEF IInv
<1> QED
  BY <1>1, Invariance, PTL

\* The committed counters of a ticker are those of its chains, and the contracts of a
\* chain are written once if it is complete and never otherwise, through crashes,
\* budget stops, replays and recoveries.
THEOREM RowsMatch == Spec => []RowsMatchChains
<1>1. IInv => RowsMatchChains
  BY DEF IInv
<1> QED
  BY <1>1, Invariance, PTL

\* COMPLETE, of a ticker or of a run, hides no deferred, timed out, refused or
\* unrequested expiry.
THEOREM CompleteCovers == Spec => []CompleteMeansCovered
<1>1. IInv => CompleteMeansCovered
  BY DEF IInv
<1> QED
  BY <1>1, Invariance, PTL

\* A finished run has a row for each ticker of the universe, and an outcome for each
\* expiry of the tickers no vendor error aborted.
THEOREM OmissionsExplicit == Spec => []OmissionsAreExplicit
<1>1. IInv => OmissionsAreExplicit
  BY DEF IInv
<1> QED
  BY <1>1, Invariance, PTL

\* A replay of the vendor date rewrites nothing of what an earlier run committed, and
\* no step reopens a complete chain.
THEOREM ReplayKeeps == Spec => ReplayNeverRewrites
<1> DEFINE Kept == \A t \in Tickers :
             /\ owner[t] \notin {0, job.run} =>
                  /\ chain'[t] = chain[t]
                  /\ content'[t] = content[t]
                  /\ row'[owner[t]][t] = row[owner[t]][t]
             /\ \A x \in Expiries : chain[t][x] = "COMPLETE" => chain'[t][x] = "COMPLETE"
<1>1. IInv /\ [Next]_vars => [Kept]_vars
  <2> SUFFICES ASSUME IInv, Next PROVE Kept
    BY DEF vars
  <2>1. CASE Step /\ ~FinishRun
    <3>1. OwnWork
      BY <2>1, WorkStep DEF IInv
    <3>2. ASSUME NEW t \in Tickers, owner[t] \notin {0, job.run}
          PROVE  owner[t] \in Runs \ {job.run}
      BY <3>2 DEF IInv, TypeOK, Runs
    <3> QED
      BY <3>1, <3>2 DEF OwnWork
  <2>2. CASE \/ FinishRun \/ RunFails \/ RunLost \/ AllRunsUsed
             \/ \E r \in Runs : StartRun(r)
    BY <2>2 DEF FinishRun, RunFails, RunLost, EndRun, AllRunsUsed, vars, StartRun
  <2> QED
    BY <2>1, <2>2 DEF Next
<1> QED
  BY <1>1, Invariance, PTL DEF Spec, ReplayNeverRewrites
==============================================================================
