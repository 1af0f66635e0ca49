-------------------------- MODULE CandidateScan_proofs --------------------------
(***************************************************************************)
(* Proofs about CandidateScan, for any number of scans, processes,         *)
(* connections and tickers: two scans never work at once, candidates rest  *)
(* on nothing that was learned after the cutoff, and a COMPLETE scan has   *)
(* lost neither a ticker nor a reason for a candidate.                     *)
(*                                                                         *)
(* The lock is given away with its connection as soon as the RUNNING row   *)
(* is committed, so neither of the two keeps scans apart alone.  What is   *)
(* inductive is what they say together: as long as a scan between its      *)
(* check and its row is connected, it is the only one there, and no row is *)
(* RUNNING.                                                                *)
(***************************************************************************)
EXTENDS CandidateScan, FiniteSetTheorems, TLAPS

\* A connection serves one transaction; a scan that opens has one.
ConnectionInv ==
  /\ \A s, r \in Scans : at[s] = at[r] /\ at[s] # NoConn => s = r
  /\ \A s \in Scans : pc[s] \in Opening \union {"asking"} => at[s] # NoConn

\* The lock covers the time between the check and the RUNNING row, the row the rest.
OpeningInv ==
  /\ \A s \in Scans : pc[s] = "checked" /\ Connected(s) => \A r \in Scans : run[r] # "RUNNING"
  /\ \A s \in Scans : pc[s] \in Working => run[s] = "RUNNING"
  /\ \A s, r \in Scans : run[s] = "RUNNING" /\ run[r] = "RUNNING" => s = r

\* A scan that has not opened has fetched nothing; a request is one of the universe and
\* within the budget; a scan past the universe has all of it behind it.
CursorInv ==
  \A s \in Scans :
    /\ pc[s] \in {"idle"} \union Opening => cursor[s] = 0
    /\ pc[s] \in {"asking", "parsing"} => cursor[s] < LastFetch
    /\ pc[s] = "asking" => spent[s] < MaxAttempts
    /\ pc[s] \in {"deep", "finishing"} => cursor[s] = LastFetch

\* A ticker behind the cursor has a row, unless a flag tells of it.
Flagged(s) == flags[s].partial \/ flags[s].limited
RowsInv ==
  \A s \in Scans :
    /\ pc[s] \in Working /\ ~Flagged(s) =>
         \A i \in 1..Len(Universe) : 2 * i <= cursor[s] => rows[s][Universe[i]] \in Observed
    /\ pc[s] = "finishing" => ~Flagged(s)

\* The clock advances once for every scan that finishes; a finishing scan has its cutoff.
Closing == {"finishing", "unlocking"} \union Ended
ClockInv ==
  /\ now <= Cardinality({s \in Scans : pc[s] \in Closing})
  /\ \A s \in Scans : pc[s] = "finishing" => cutoff[s] \in Times

\* A Radar payload is received before its row is captured.
RadarInv ==
  \A t \in Tickers :
    /\ radar[t].phase = "received" => radar[t].received <= now
    /\ radar[t].phase \in {"received", "captured", "visible"} => radar[t].received \in Times
    /\ radar[t].phase \in {"captured", "visible"} =>
         radar[t].captured \in Times /\ radar[t].received <= radar[t].captured

IInv == /\ TypeOK /\ ConnectionInv /\ OpeningInv /\ CursorInv /\ RowsInv /\ ClockInv /\ RadarInv
        /\ NoFutureEvidence

-----------------------------------------------------------------------------
(* Operators *)

\* The clock's range is one of numbers, and Never is beyond it.
LEMMA TimesAreNumbers ==
  /\ Cardinality(Scans) \in Nat /\ Never \in Nat
  /\ \A n \in Times : n \in Nat /\ n < Never
  BY ScanAssumption, FS_CardinalityType DEF Times, Never

\* Where a fetch leads: to the next one, or past its ticker.
LEMMA CursorMoves ==
  ASSUME NEW n \in 0..LastFetch, n < LastFetch
  PROVE  /\ n + 1 \in 0..LastFetch /\ 2 * (n \div 2 + 1) \in 0..LastFetch
         /\ n \div 2 + 1 \in 1..Len(Universe) /\ TickerAt(n) \in Tickers
  BY ScanAssumption DEF LastFetch, TickerAt, Tickers

LEMMA EndpointType == \A n \in Nat : EndpointAt(n) \in Endpoints
  BY DEF EndpointAt, Endpoints

\* What a scan checks out was idle: no other session has it, and it is of its own pool.
LEMMA IdleConnType ==
  ASSUME NEW s \in Scans, NEW c \in IdleConns(s)
  PROVE  c \in Conns /\ c # NoConn /\ \A r \in Scans : at[r] # c
  BY ScanAssumption DEF IdleConns

\* The lock keeps its type, whoever takes, releases or loses it.
LEMMA LockKeepsType ==
  ASSUME LockTypeOK
  PROVE  /\ \A c \in Conns : MayLock(c) /\ Lock(c) =>
              lock' = Unheld \/ lock' \in [conn : Conns, depth : Nat \ {0}]
         /\ \A c \in Conns : Unlock(c) =>
              lock' = Unheld \/ lock' \in [conn : Conns, depth : Nat \ {0}]
         /\ \A gone : CloseConns(gone) =>
              lock' = Unheld \/ lock' \in [conn : Conns, depth : Nat \ {0}]
<1>1. CASE lock = Unheld
  <2>1. ASSUME NEW c \in Conns
        PROVE  /\ Lock(c) => lock' \in [conn : Conns, depth : Nat \ {0}]
               /\ Unlock(c) => lock' = Unheld
    <3>1. c # NoConn
      BY ScanAssumption
    <3> QED
      BY <1>1, <3>1 DEF Lock, Unlock, Unheld
  <2>2. ASSUME NEW gone, CloseConns(gone) PROVE lock' = Unheld
    BY <1>1, <2>2 DEF CloseConns
  <2> QED
    BY <2>1, <2>2
<1>2. CASE lock \in [conn : Conns, depth : Nat \ {0}]
  <2>1. ASSUME NEW c \in Conns, MayLock(c), Lock(c)
        PROVE  lock' \in [conn : Conns, depth : Nat \ {0}]
    BY <1>2, <2>1 DEF Lock
  <2>2. ASSUME NEW c \in Conns, Unlock(c)
        PROVE  lock' = Unheld \/ lock' \in [conn : Conns, depth : Nat \ {0}]
    <3>1. CASE lock.conn = c /\ lock.depth # 1
      <4>1. lock.depth - 1 \in Nat \ {0}
        BY <1>2, <3>1
      <4> QED
        BY <1>2, <2>2, <3>1, <4>1 DEF Unlock
    <3> QED
      BY <1>2, <2>2, <3>1 DEF Unlock
  <2>3. ASSUME NEW gone, CloseConns(gone)
        PROVE  lock' = Unheld \/ lock' \in [conn : Conns, depth : Nat \ {0}]
    BY <1>2, <2>3 DEF CloseConns
  <2> QED
    BY <2>1, <2>2, <2>3
<1> QED
  BY <1>1, <1>2 DEF LockTypeOK

LEMMA ConnsType ==
  ASSUME LockTypeOK, NEW s \in Scans, NEW c \in Conns \union {NoConn}
  PROVE  [at EXCEPT ![s] = c] \in [Scans -> Conns \union {NoConn}]
  BY DEF LockTypeOK

\* What is projected are triggers of the universe.
LEMMA ProjectionType ==
  ASSUME TypeOK, RadarInv, NEW s \in Scans, NEW asOf \in Times
  PROVE  Projection(s, asOf) \in SUBSET UNION {TriggersOf(t) : t \in Tickers}
<1>1. ASSUME NEW t \in Tickers, NEW f \in Families, NEW k \in Times, NEW q \in BOOLEAN
      PROVE  Trigger(t, f, k, q) \in UNION {TriggersOf(u) : u \in Tickers}
  BY DEF Trigger, TriggersOf
<1>2. RadarPool(asOf) \subseteq UNION {TriggersOf(t) : t \in Tickers}
  <2> SUFFICES ASSUME NEW t \in VisibleRadar
               PROVE  Trigger(t, "RADAR_EVENT", radar[t].captured, TRUE)
                        \in UNION {TriggersOf(u) : u \in Tickers}
    BY DEF RadarPool
  <2> QED
    BY <1>1 DEF VisibleRadar, RadarInv, Families
<1>3. ActivityPool(s, asOf) \subseteq UNION {TriggersOf(t) : t \in Tickers}
  BY <1>1 DEF ActivityPool, Families
<1>4. PersistencePool(s, asOf) \subseteq UNION {TriggersOf(t) : t \in Tickers}
  <2>1. \A k \in contracts : k.ticker \in Tickers /\ k.at \in Times
    BY DEF TypeOK
  <2>2. ASSUME NEW a \in PersistencePool(s, asOf)
        PROVE  \E k \in contracts, q \in BOOLEAN :
                 a = Trigger(k.ticker, "CONTRACT_PERSISTENCE", k.at, q)
    BY DEF PersistencePool, CurrentContracts
  <2> QED
    BY <1>1, <2>1, <2>2 DEF Families
<1> QED
  BY <1>2, <1>3, <1>4 DEF Projection

-----------------------------------------------------------------------------
(* Types *)

\* The end of a scan's memory.
LEMMA DiscardType ==
  ASSUME TypeOK, NEW s \in Scans, Discard(s)
  PROVE  /\ cursor' \in [Scans -> 0..LastFetch]
         /\ flags' \in [Scans -> [partial : BOOLEAN, limited : BOOLEAN]]
         /\ spent' \in [Scans -> 0..MaxAttempts]
         /\ deep' \in [Scans -> SUBSET Tickers]
         /\ cutoff' \in [Scans -> Times \union {Never}]
         /\ rows' \in [Scans -> [Tickers -> {"NONE", "UNAVAILABLE"} \union Contents]]
<1>1. 0 \in 0..LastFetch /\ 0 \in 0..MaxAttempts
  BY ScanAssumption DEF LastFetch
<1>2. NoFlags \in [partial : BOOLEAN, limited : BOOLEAN]
      /\ NoRows \in [Tickers -> {"NONE", "UNAVAILABLE"} \union Contents]
  BY DEF NoFlags, NoRows
<1> QED
  BY <1>1, <1>2 DEF TypeOK, Discard

\* A ticker's row, and the fetch that follows it.
LEMMA RowType ==
  ASSUME TypeOK, NEW s \in Scans, NEW what \in {"UNAVAILABLE"} \union Contents, Row(s, what),
         cursor[s] < LastFetch
  PROVE  /\ rows' \in [Scans -> [Tickers -> {"NONE", "UNAVAILABLE"} \union Contents]]
         /\ flags' \in [Scans -> [partial : BOOLEAN, limited : BOOLEAN]]
         /\ cursor' \in [Scans -> 0..LastFetch]
         /\ pc' \in [Scans -> Phases]
<1>1. cursor[s] \in 0..LastFetch
  BY DEF TypeOK
<1>2. 2 * (cursor[s] \div 2 + 1) \in 0..LastFetch /\ TickerAt(cursor[s]) \in Tickers
  BY <1>1, CursorMoves
<1>3. [rows[s] EXCEPT ![TickerAt(cursor[s])] = what]
        \in [Tickers -> {"NONE", "UNAVAILABLE"} \union Contents]
  BY <1>2 DEF TypeOK
<1>4. flags' \in [Scans -> [partial : BOOLEAN, limited : BOOLEAN]]
  <2>1. CASE what \in Observed
    BY <2>1 DEF TypeOK, Row
  <2>2. CASE what \notin Observed
    <3>1. flags' = [flags EXCEPT ![s] = [flags[s] EXCEPT !["partial"] = TRUE]]
      BY <2>2 DEF Row, Raise
    <3>2. [flags[s] EXCEPT !["partial"] = TRUE] \in [partial : BOOLEAN, limited : BOOLEAN]
      <4>1. flags[s] \in [partial : BOOLEAN, limited : BOOLEAN]
        BY DEF TypeOK
      <4> QED
        BY <4>1
    <3> QED
      BY <3>1, <3>2 DEF TypeOK
  <2> QED
    BY <2>1, <2>2
<1> QED
  BY <1>2, <1>3, <1>4 DEF TypeOK, Row, Goto, Phases

\* A fetch that was answered.
LEMMA AfterFetchType ==
  ASSUME TypeOK, NEW s \in Scans, AfterFetch(s), cursor[s] < LastFetch
  PROVE  cursor' \in [Scans -> 0..LastFetch] /\ pc' \in [Scans -> Phases]
<1>1. cursor[s] + 1 \in 0..LastFetch
  BY CursorMoves DEF TypeOK
<1>2. pc' \in [Scans -> Phases]
  BY DEF TypeOK, AfterFetch, Goto, Phases
<1> QED
  BY <1>1, <1>2 DEF TypeOK, AfterFetch

\* Every step keeps the types, given the rest of the strengthening.
LEMMA TypeStep ==
  TypeOK /\ ConnectionInv /\ CursorInv /\ ClockInv /\ RadarInv /\ [Next]_vars => TypeOK'
<1> SUFFICES ASSUME TypeOK, ConnectionInv, CursorInv, ClockInv, RadarInv, [Next]_vars
             PROVE  TypeOK'
  OBVIOUS
<1> USE DEF memory, evidence, records
<1>a. \A s \in Scans, phase \in Phases : Goto(s, phase) => pc' \in [Scans -> Phases]
  BY DEF TypeOK, Goto
<1>b. ASSUME NEW s \in Scans, GiveBack(s) PROVE at' \in [Scans -> Conns \union {NoConn}]
  BY <1>b, ConnsType DEF TypeOK, GiveBack
<1>c. \A s \in Scans : at[s] \in Conns \union {NoConn}
  BY DEF TypeOK, LockTypeOK
<1>d. now \in Times /\ LockTypeOK
  BY DEF TypeOK
<1>1. ASSUME NEW s \in Scans, NEW c \in IdleConns(s), TryLock(s, c) PROVE TypeOK'
  <2>1. c \in Conns
    BY IdleConnType
  <2>2. LockTypeOK'
    BY <1>1, <1>d, <2>1, LockKeepsType, ConnsType DEF TryLock, CheckOut, LockTypeOK, Unheld
  <2> QED
    BY <1>1, <1>a, <2>2 DEF TryLock, TypeOK, Phases
<1>2. ASSUME NEW s \in Scans, CheckRunning(s) PROVE TypeOK'
  <2>1. LockTypeOK'
    BY <1>2, <1>b, <1>c, <1>d, LockKeepsType DEF ConnectionInv, Opening, CheckRunning, LockTypeOK, Unheld
  <2> QED
    BY <1>2, <1>a, <2>1 DEF CheckRunning, TypeOK, Phases
<1>3. ASSUME NEW s \in Scans, OpenRun(s) PROVE TypeOK'
  BY <1>3, <1>a, <1>b DEF OpenRun, TypeOK, LockTypeOK, Unheld, Phases
<1>4. ASSUME NEW s \in Scans, FetchCached(s) PROVE TypeOK'
  BY <1>4, AfterFetchType DEF FetchCached, Fetching, TypeOK, LockTypeOK, Unheld
<1>5. ASSUME NEW s \in Scans, StopAtBudget(s) PROVE TypeOK'
  <2>1. LastFetch \in 0..LastFetch
    BY ScanAssumption DEF LastFetch
  <2> QED
    BY <1>5, <2>1 DEF StopAtBudget, Raise, TypeOK, LockTypeOK, Unheld
<1>6. ASSUME NEW s \in Scans, NEW c \in IdleConns(s), Ask(s, c) PROVE TypeOK'
  <2>1. at' \in [Scans -> Conns \union {NoConn}]
    BY <1>6, <1>d, IdleConnType, ConnsType DEF Ask, CheckOut
  <2> QED
    BY <1>6, <1>a, <2>1 DEF Ask, TypeOK, LockTypeOK, Unheld, Phases
<1>7. ASSUME NEW s \in Scans, NEW c \in IdleConns(s), ReleaseLock(s, c) PROVE TypeOK'
  <2>1. LockTypeOK'
    BY <1>7, <1>d, IdleConnType, LockKeepsType DEF ReleaseLock, LockTypeOK, Unheld
  <2> QED
    BY <1>7, <1>a, <2>1, DiscardType DEF ReleaseLock, TypeOK, Phases
<1>e. ASSUME NEW s \in Scans, CountAttempt(s), pc[s] = "asking"
      PROVE  spent' \in [Scans -> 0..MaxAttempts]
  <2>1. spent[s] + 1 \in 0..MaxAttempts
    BY <1>e, ScanAssumption DEF CursorInv, TypeOK
  <2> QED
    BY <1>e, <2>1 DEF CountAttempt, TypeOK
<1>8. ASSUME NEW s \in Scans, Answered(s) PROVE TypeOK'
  <2>1. cursor[s] < LastFetch /\ cursor[s] \in 0..LastFetch
    BY <1>8 DEF Answered, CursorInv, TypeOK
  <2>2. Request(s) \in Tickers \X Endpoints
    <3>1. cursor[s] \in Nat
      BY <2>1
    <3> QED
      BY <2>1, <3>1, CursorMoves, EndpointType DEF Request
  <2> QED
    BY <1>8, <1>b, <1>e, <2>1, <2>2, AfterFetchType
       DEF Answered, TypeOK, LockTypeOK, Unheld
<1>9. ASSUME NEW s \in Scans, AnsweredWithError(s) PROVE TypeOK'
  <2>1. cursor[s] < LastFetch
    BY <1>9 DEF AnsweredWithError, CursorInv
  <2> QED
    BY <1>9, <1>b, <1>e, <2>1, RowType DEF AnsweredWithError, TypeOK, LockTypeOK, Unheld
<1>10. ASSUME NEW s \in Scans, RequestBreaks(s) PROVE TypeOK'
  BY <1>10, <1>a, <1>b DEF RequestBreaks, Fail, End, TypeOK, LockTypeOK, Unheld, Phases
<1>11. ASSUME NEW s \in Scans, NEW what \in Contents, ParseTicker(s, what) PROVE TypeOK'
  <2>1. cursor[s] < LastFetch
    BY <1>11 DEF ParseTicker, CursorInv
  <2> QED
    BY <1>11, <2>1, RowType DEF ParseTicker, TypeOK, LockTypeOK, Unheld
<1>12. ASSUME NEW s \in Scans, Select(s) PROVE TypeOK'
  <2>1. deep' \in [Scans -> SUBSET Tickers]
    BY <1>12 DEF Select, Selections, Eligible, TypeOK
  <2> QED
    BY <1>12, <1>a, <2>1 DEF Select, TypeOK, LockTypeOK, Unheld, Phases
<1>13. ASSUME NEW s \in Scans, NEW t \in Tickers, ScanStructure(s, t) PROVE TypeOK'
  <2>1. contracts' \subseteq [scan : Scans, ticker : Tickers, at : Times]
    BY <1>13, <1>d DEF ScanStructure, TypeOK
  <2>2. deep' \in [Scans -> SUBSET Tickers]
    BY <1>13 DEF ScanStructure, TypeOK
  <2> QED
    BY <1>13, <2>1, <2>2 DEF ScanStructure, TypeOK, LockTypeOK, Unheld
<1>14. ASSUME NEW s \in Scans, FinishShort(s) \/ ScanRaises(s) PROVE TypeOK'
  <2>1. run' \in [Scans -> {"NONE", "RUNNING", "COMPLETE", "PARTIAL", "PARTIAL_BUDGET_LIMIT",
                            "FAILED"}]
    BY <1>14 DEF FinishShort, ScanRaises, Fail, End, CompletionStatus, TypeOK
  <2> QED
    BY <1>14, <1>a, <2>1 DEF FinishShort, ScanRaises, TypeOK, LockTypeOK, Unheld, Phases
<1>15. ASSUME NEW s \in Scans, Finish(s) PROVE TypeOK'
  <2> DEFINE Closed == {r \in Scans : pc[r] \in Closing}
  <2>1. s \notin Closed
    BY <1>15 DEF Finish, Closing, Ended
  <2>2. Closed \subseteq Scans /\ Closed # Scans
    BY <2>1
  <2>3. IsFiniteSet(Closed) /\ Cardinality(Closed) <= Cardinality(Scans)
        /\ Cardinality(Closed) # Cardinality(Scans)
    BY <2>2, ScanAssumption, FS_Subset
  <2>4. now <= Cardinality(Closed)
    BY DEF ClockInv
  <2>5. Cardinality(Closed) \in Nat /\ Cardinality(Scans) \in Nat
    BY <2>3, ScanAssumption, FS_CardinalityType
  <2> HIDE DEF Closed
  <2>6. now + 1 \in Times
    BY <1>d, <2>3, <2>4, <2>5 DEF Times
  <2>7. cutoff' \in [Scans -> Times \union {Never}]
    BY <1>15, <1>d DEF Finish, TypeOK
  <2> QED
    BY <1>15, <1>a, <2>6, <2>7 DEF Finish, TypeOK, LockTypeOK, Unheld, Phases
<1>16. ASSUME NEW s \in Scans, Materialize(s) PROVE TypeOK'
  <2>1. cutoff[s] \in Times
    BY <1>16 DEF Materialize, ClockInv
  <2>2. Projection(s, cutoff[s]) \in SUBSET UNION {TriggersOf(t) : t \in Tickers}
    BY <2>1, ProjectionType
  <2>3. triggers' \in [Scans -> SUBSET UNION {TriggersOf(t) : t \in Tickers}]
    <3> DEFINE All == SUBSET UNION {TriggersOf(t) : t \in Tickers}
    <3>1. triggers \in [Scans -> All] /\ Projection(s, cutoff[s]) \in All
      BY <2>2 DEF TypeOK
    <3> HIDE DEF All
    <3>2. triggers' \in [Scans -> All]
      BY <1>16, <3>1 DEF Materialize
    <3> QED
      BY <3>2 DEF All
  <2>4. marker' \in [Scans -> Times \union {Never}]
    BY <1>16, <2>1 DEF Materialize, TypeOK
  <2>5. run' \in [Scans -> {"NONE", "RUNNING", "COMPLETE", "PARTIAL", "PARTIAL_BUDGET_LIMIT",
                            "FAILED"}]
    BY <1>16 DEF Materialize, Fail, End, TypeOK
  <2> QED
    BY <1>16, <1>a, <2>3, <2>4, <2>5 DEF Materialize, TypeOK, LockTypeOK, Unheld, Phases
<1>17. ASSUME NEW s \in Scans, DatabaseFails(s) PROVE TypeOK'
  <2>1. LockTypeOK'
    BY <1>17, <1>b, <1>d, LockKeepsType DEF DatabaseFails, LockTypeOK, Unheld
  <2> QED
    BY <1>17, <1>a, <2>1, DiscardType DEF DatabaseFails, TypeOK, Phases
<1>18. ASSUME NEW s \in Scans, Shutdown(s) PROVE TypeOK'
  <2>1. LockTypeOK'
    BY <1>18, <1>d, LockKeepsType DEF Shutdown, LockTypeOK, Unheld
  <2> QED
    BY <1>18, <2>1 DEF Shutdown, TypeOK
<1>21. ASSUME NEW c \in Conns, LoseIdleConn(c) PROVE TypeOK'
  <2>1. LockTypeOK'
    BY <1>21, <1>d, LockKeepsType DEF LoseIdleConn, DropIdle, LockTypeOK, Unheld
  <2> QED
    BY <1>21, <2>1 DEF LoseIdleConn, TypeOK
<1>19. ASSUME NEW t \in Tickers, Collect(t) PROVE TypeOK'
  <2>1. radar' \in [Tickers -> [phase : RadarPhases, received : Times \union {Never},
                               captured : Times \union {Never}]]
    <3> DEFINE Rows == [phase : RadarPhases, received : Times \union {Never},
                        captured : Times \union {Never}]
    <3>1. NoRadar \in Rows /\ [NoRadar EXCEPT !.phase = "received", !.received = now] \in Rows
      BY <1>d DEF NoRadar, RadarPhases
    <3>2. radar[t] \in Rows
      BY DEF TypeOK
    <3>3. /\ [radar[t] EXCEPT !.phase = "captured", !.captured = now] \in Rows
          /\ [radar[t] EXCEPT !.phase = "visible"] \in Rows
      BY <1>d, <3>2 DEF RadarPhases
    <3>4. \E row \in Rows : radar' = [radar EXCEPT ![t] = row]
      <4>1. CASE RadarReceived(t) \/ RadarRollsBack(t)
        BY <3>1, <4>1 DEF RadarReceived, RadarRollsBack
      <4>2. CASE RadarCaptured(t)
        <5>1. radar' = [radar EXCEPT ![t] = [radar[t] EXCEPT !.phase = "captured",
                                                             !.captured = now]]
          BY <4>2 DEF RadarCaptured, TypeOK
        <5> QED
          BY <3>3, <5>1
      <4>3. CASE RadarCommitted(t)
        BY <3>3, <4>3 DEF RadarCommitted
      <4> QED
        BY <1>19, <4>1, <4>2, <4>3 DEF Collect
    <3> HIDE DEF Rows
    <3>5. radar' \in [Tickers -> Rows]
      BY <3>4 DEF TypeOK, Rows
    <3> QED
      BY <3>5 DEF Rows
  <2> QED
    BY <1>19, <2>1 DEF Collect, RadarReceived, RadarCaptured, RadarCommitted, RadarRollsBack,
                       TypeOK, LockTypeOK, Unheld
<1>20. CASE CoolDown \/ Terminating \/ UNCHANGED vars
  BY <1>20 DEF CoolDown, Terminating, vars, TypeOK, LockTypeOK, Unheld
<1> QED
  BY <1>1, <1>2, <1>3, <1>4, <1>5, <1>6, <1>7, <1>8, <1>9, <1>10, <1>11, <1>12, <1>13, <1>14,
     <1>15, <1>16, <1>17, <1>18, <1>19, <1>20, <1>21, ScanAssumption DEF Next, Step, Tickers

-----------------------------------------------------------------------------
(* Connections, the lock and the RUNNING row *)

\* What a step does with the connections: one session takes an idle one, gives its own
\* back, or nobody does anything.
LEMMA ConnectionStep == TypeOK /\ ConnectionInv /\ [Next]_vars => ConnectionInv'
<1> SUFFICES ASSUME TypeOK, ConnectionInv, [Next]_vars PROVE ConnectionInv'
  OBVIOUS
<1> USE DEF Opening
<1>0. pc \in [Scans -> Phases] /\ at \in [Scans -> Conns \union {NoConn}]
  BY DEF TypeOK, LockTypeOK
<1>1. ASSUME NEW s \in Scans, NEW c \in IdleConns(s), NEW phase, CheckOut(s, c), Goto(s, phase)
      PROVE  ConnectionInv'
  <2>1. c # NoConn /\ \A r \in Scans : at[r] # c
    BY IdleConnType
  <2> QED
    BY <1>0, <1>1, <2>1 DEF CheckOut, Goto, ConnectionInv
<1>2. ASSUME NEW s \in Scans, GiveBack(s), pc'[s] \notin Opening \union {"asking"},
             \A r \in Scans \ {s} : pc'[r] = pc[r]
      PROVE  ConnectionInv'
  BY <1>0, <1>2 DEF GiveBack, ConnectionInv
<1>3. ASSUME UNCHANGED at,
             \A r \in Scans : pc'[r] \in Opening \union {"asking"} =>
                                pc[r] \in Opening \union {"asking"}
      PROVE  ConnectionInv'
  BY <1>3 DEF ConnectionInv
<1>4. ASSUME NEW s \in Scans, NEW c \in IdleConns(s), TryLock(s, c) \/ Ask(s, c)
      PROVE  ConnectionInv'
  <2>1. CASE CheckOut(s, c)
    BY <1>1, <1>4, <2>1 DEF TryLock, Ask
  <2>2. CASE ~CheckOut(s, c)
    BY <1>0, <1>3, <1>4, <2>2 DEF TryLock, Ask, Goto
  <2> QED
    BY <2>1, <2>2
<1>5. ASSUME NEW s \in Scans, CheckRunning(s) PROVE ConnectionInv'
  <2>1. CASE GiveBack(s) /\ Goto(s, "refused")
    BY <1>0, <1>2, <2>1 DEF Goto
  <2>2. CASE UNCHANGED at /\ Goto(s, "checked")
    BY <1>0, <1>3, <1>5, <2>2 DEF CheckRunning, Goto
  <2> QED
    BY <1>5, <2>1, <2>2 DEF CheckRunning
<1>6. ASSUME NEW s \in Scans,
             OpenRun(s) \/ Answered(s) \/ AnsweredWithError(s) \/ RequestBreaks(s)
               \/ DatabaseFails(s)
      PROVE  ConnectionInv'
  <2>1. GiveBack(s)
    BY <1>6 DEF OpenRun, Answered, AnsweredWithError, RequestBreaks, DatabaseFails
  <2>2. \E phase \in {"open", "parsing", "unlocking", "ended"} : Goto(s, phase)
    BY <1>6 DEF OpenRun, Answered, AfterFetch, AnsweredWithError, Row, RequestBreaks,
                DatabaseFails
  <2> QED
    BY <1>0, <1>2, <2>1, <2>2 DEF Goto
<1>7. ASSUME NEW s \in Scans,
             \/ FetchCached(s) \/ Select(s) \/ FinishShort(s) \/ Finish(s) \/ Materialize(s)
             \/ ScanRaises(s)
             \/ \E c \in IdleConns(s) : ReleaseLock(s, c)
             \/ \E what \in Contents : ParseTicker(s, what)
      PROVE  ConnectionInv'
  <2>1. UNCHANGED at
    BY <1>7 DEF FetchCached, Select, FinishShort, Finish, Materialize, ScanRaises,
                ReleaseLock, ParseTicker
  <2>2. \E phase \in {"open", "parsing", "deep", "finishing", "unlocking", "ended"} :
          Goto(s, phase)
    BY <1>7 DEF FetchCached, AfterFetch, Select, FinishShort, Finish, Materialize,
                ScanRaises, ReleaseLock, ParseTicker, Row
  <2> QED
    BY <1>0, <1>3, <2>1, <2>2 DEF Goto
<1>8. ASSUME \/ \E s \in Scans : StopAtBudget(s) \/ Shutdown(s)
             \/ \E s \in Scans, t \in Tickers : ScanStructure(s, t)
             \/ \E t \in RadarTickers : Collect(t)
             \/ CoolDown \/ Terminating \/ UNCHANGED vars
             \/ \E c \in Conns : LoseIdleConn(c)
      PROVE  ConnectionInv'
  <2>1. UNCHANGED <<at, pc>>
    BY <1>8 DEF StopAtBudget, Shutdown, ScanStructure, Collect, RadarReceived, RadarCaptured,
      RadarCommitted, RadarRollsBack, CoolDown, LoseIdleConn, DropIdle, Terminating, vars
  <2> QED
    BY <1>3, <2>1
<1> QED
  BY <1>4, <1>5, <1>6, <1>7, <1>8 DEF Next, Step

\* The lock and the row together keep scans apart.
LEMMA OpeningStep ==
  TypeOK /\ ConnectionInv /\ OpeningInv /\ [Next]_vars => OpeningInv'
<1> SUFFICES ASSUME TypeOK, ConnectionInv, OpeningInv, [Next]_vars PROVE OpeningInv'
  OBVIOUS
<1>0. /\ pc \in [Scans -> Phases] /\ at \in [Scans -> Conns \union {NoConn}]
      /\ DOMAIN run = Scans
  BY DEF TypeOK, LockTypeOK
\* A step that opens nothing: the lock does not move to a connection in use, no row
\* becomes RUNNING, and a working scan was one whose row it leaves alone.
<1>a. ASSUME NEW s \in Scans,
             \A r \in Scans : run'[r] = "RUNNING" => run[r] = "RUNNING",
             \A r \in Scans : pc'[r] = "checked" => pc[r] = "checked" /\ at'[r] = at[r],
             \A r \in Scans : pc'[r] = "checked" /\ lock'.conn = at[r] => lock.conn = at[r],
             \A r \in Scans : pc'[r] \in Working => pc[r] \in Working /\ run'[r] = run[r]
      PROVE  OpeningInv'
  BY <1>a DEF OpeningInv, Connected
<1>b. \A c : Unlock(c) => lock'.conn = lock.conn \/ lock'.conn = NoConn
  BY DEF Unlock, Unheld
<1>c. \A gone : CloseConns(gone) => lock'.conn = lock.conn \/ lock'.conn = NoConn
  BY DEF CloseConns, Unheld
<1>d. \A s \in Scans : pc[s] = "checked" => at[s] # NoConn
  BY DEF ConnectionInv, Opening
<1>1. ASSUME NEW s \in Scans, NEW c \in IdleConns(s), TryLock(s, c) PROVE OpeningInv'
  <2>1. \A r \in Scans : at[r] # c
    BY IdleConnType
  <2>2. /\ UNCHANGED run
        /\ \A r \in Scans : pc'[r] \in Working \union {"checked"} =>
                              pc'[r] = pc[r] /\ at'[r] = at[r]
    BY <1>0, <1>1 DEF TryLock, CheckOut, Goto, Working, records
  <2>3. \A r \in Scans : pc'[r] = "checked" /\ lock'.conn = at[r] => lock.conn = at[r]
    BY <1>1, <2>1 DEF TryLock, Lock
  <2> QED
    BY <1>a, <2>2, <2>3
<1>2. ASSUME NEW s \in Scans, CheckRunning(s) PROVE OpeningInv'
  <2>1. CASE \E r \in Scans : run[r] = "RUNNING"
    <3>1. Unlock(at[s]) /\ GiveBack(s) /\ Goto(s, "refused") /\ UNCHANGED run
      BY <1>2, <2>1 DEF CheckRunning, records
    <3>2. \A r \in Scans : pc'[r] \in Working \union {"checked"} =>
                             pc'[r] = pc[r] /\ at'[r] = at[r]
      BY <1>0, <3>1 DEF GiveBack, Goto, Working
    <3> QED
      BY <1>a, <1>b, <1>d, <3>1, <3>2
  <2>2. CASE \A r \in Scans : run[r] # "RUNNING"
    <3>1. Goto(s, "checked") /\ UNCHANGED <<lock, at, run>>
      BY <1>2, <2>2 DEF CheckRunning, records
    <3> QED
      BY <1>0, <2>2, <3>1 DEF OpeningInv, Goto, Working, Connected
  <2> QED
    BY <2>1, <2>2
<1>3. ASSUME NEW s \in Scans, OpenRun(s) PROVE OpeningInv'
  <2>1. /\ lock.conn = at[s] /\ at[s] # NoConn /\ pc[s] = "checked"
        /\ \A r \in Scans : run[r] # "RUNNING"
    BY <1>3, <1>d DEF OpenRun, OpeningInv, Connected
  <2>2. /\ lock' = lock /\ \A r \in Scans : run'[r] = "RUNNING" <=> r = s
        /\ \A r \in Scans \ {s} : pc'[r] = pc[r] /\ at'[r] = at[r]
        /\ pc'[s] = "open"
    BY <1>0, <1>3, <2>1 DEF OpenRun, GiveBack, Goto
  <2>3. \A r \in Scans \ {s} : at[r] # at[s] /\ pc[r] \notin Working
    BY <2>1 DEF ConnectionInv, OpeningInv
  <2> QED
    BY <2>1, <2>2, <2>3 DEF OpeningInv, Connected
<1>4. ASSUME NEW s \in Scans,
             \/ FetchCached(s) \/ Answered(s) \/ AnsweredWithError(s) \/ Select(s) \/ Finish(s)
             \/ \E c \in IdleConns(s) : Ask(s, c)
             \/ \E what \in Contents : ParseTicker(s, what)
      PROVE  OpeningInv'
  <2>1. UNCHANGED <<lock, run>> /\ pc[s] \in Working
    BY <1>4 DEF FetchCached, Fetching, Answered, AnsweredWithError, Select, Finish, Ask,
                ParseTicker, records, Working
  <2>2. \E phase \in Working : Goto(s, phase)
    BY <1>4 DEF FetchCached, Answered, AfterFetch, AnsweredWithError, Select, Finish, Ask,
                ParseTicker, Row, Working
  <2>3. \A r \in Scans \ {s} : at'[r] = at[r]
    BY <1>0, <1>4 DEF FetchCached, Answered, AnsweredWithError, Select, Finish, Ask,
                ParseTicker, CheckOut, GiveBack
  <2>4. \A r \in Scans : r # s => pc'[r] = pc[r]
    BY <1>0, <2>2 DEF Goto
  <2>5. pc'[s] \in Working /\ pc'[s] # "checked"
    BY <1>0, <2>2 DEF Goto, Working
  <2> QED
    BY <1>a, <2>1, <2>3, <2>4, <2>5
<1>5. ASSUME NEW s \in Scans,
             \/ RequestBreaks(s) \/ FinishShort(s) \/ Materialize(s) \/ ScanRaises(s)
             \/ DatabaseFails(s)
             \/ \E c \in IdleConns(s) : ReleaseLock(s, c)
      PROVE  OpeningInv'
  <2>1. /\ \E phase \in {"unlocking", "ended"} : Goto(s, phase)
        /\ \A r \in Scans \ {s} : at'[r] = at[r]
    BY <1>0, <1>5 DEF RequestBreaks, FinishShort, Materialize, ScanRaises, DatabaseFails,
                      ReleaseLock, GiveBack
  <2>2. \/ UNCHANGED run
        \/ \E status \in {"COMPLETE", "PARTIAL", "PARTIAL_BUDGET_LIMIT", "FAILED"} :
             End(s, status)
    BY <1>5 DEF RequestBreaks, FinishShort, Materialize, ScanRaises, DatabaseFails,
                ReleaseLock, Fail, CompletionStatus
  <2>3. lock' = lock \/ lock'.conn = lock.conn \/ lock'.conn = NoConn
    <3>1. \/ lock' = lock \/ \E c \in IdleConns(s) : Unlock(c)
          \/ CloseConns({at[s]}) \/ CloseConns(PoolOf[s])
      BY <1>5 DEF RequestBreaks, FinishShort, Materialize, ScanRaises, DatabaseFails,
                  ReleaseLock
    <3> QED
      BY <1>b, <1>c, <3>1
  <2>4. /\ pc'[s] \in {"unlocking", "ended"} /\ \A r \in Scans \ {s} : pc'[r] = pc[r]
        /\ \A r \in Scans \ {s} : run'[r] = run[r]
        /\ run'[s] = "RUNNING" => run[s] = "RUNNING"
    BY <1>0, <2>1, <2>2 DEF Goto, End
  <2>5. \A r \in Scans : pc'[r] \in Working \union {"checked"} => r # s
    BY <2>4 DEF Working
  <2> QED
    BY <1>a, <1>d, <2>1, <2>3, <2>4, <2>5
<1>6. ASSUME \/ \E s \in Scans : StopAtBudget(s) \/ Shutdown(s)
             \/ \E s \in Scans, t \in Tickers : ScanStructure(s, t)
             \/ \E t \in RadarTickers : Collect(t)
             \/ CoolDown \/ Terminating \/ UNCHANGED vars
             \/ \E c \in Conns : LoseIdleConn(c)
      PROVE  OpeningInv'
  <2>1. UNCHANGED <<at, pc, run>>
    BY <1>6 DEF StopAtBudget, Shutdown, ScanStructure, Collect, RadarReceived, RadarCaptured,
      RadarCommitted, RadarRollsBack, CoolDown, LoseIdleConn, DropIdle, Terminating, vars, records
  <2>2. lock' = lock \/ lock'.conn = lock.conn \/ lock'.conn = NoConn
    <3>1. lock' = lock \/ \E gone : CloseConns(gone)
      BY <1>6 DEF StopAtBudget, Shutdown, ScanStructure, Collect, RadarReceived,
        RadarCaptured, RadarCommitted, RadarRollsBack, CoolDown, LoseIdleConn, DropIdle, Terminating, vars
    <3> QED
      BY <1>c, <3>1
  <2> QED
    BY <1>d, <2>1, <2>2 DEF OpeningInv, Connected
<1> QED
  BY <1>1, <1>2, <1>3, <1>4, <1>5, <1>6 DEF Next, Step

-----------------------------------------------------------------------------
(* The universe *)

\* Where a row leaves the cursor: behind the ticker it was written for.
LEMMA RowBehindCursor ==
  ASSUME NEW n \in 0..LastFetch, n < LastFetch, NEW i \in 1..Len(Universe),
         2 * i <= 2 * (n \div 2 + 1)
  PROVE  2 * i <= n \/ i = n \div 2 + 1
  BY ScanAssumption DEF LastFetch

\* Between the two fetches of a ticker nothing more is behind the cursor.
LEMMA SameTicker ==
  ASSUME NEW n \in Nat, n % 2 = 0, NEW i \in Nat, 2 * i <= n + 1
  PROVE  2 * i <= n
<1>1. PICK k \in Nat : n = 2 * k
  <2>1. n = 2 * (n \div 2) /\ n \div 2 \in Nat
    OBVIOUS
  <2> QED
    BY <2>1
<1> QED
  BY <1>1

\* The steps that leave the memory of the universe, and start no scan.
LEMMA SurfaceKept ==
  ASSUME TypeOK, CursorInv, RowsInv, UNCHANGED <<cursor, flags, spent, rows>>,
         \A s \in Scans : \/ pc'[s] = pc[s]
                          \/ pc'[s] \in {"locked", "checked"} /\ pc[s] \in {"idle", "locked"}
                          \/ pc'[s] \in {"refused", "unlocking", "ended"}
  PROVE  CursorInv' /\ RowsInv'
  BY DEF CursorInv, RowsInv, Flagged, Opening, Working

LEMMA SurfaceStep ==
  TypeOK /\ CursorInv /\ RowsInv /\ [Next]_vars => CursorInv' /\ RowsInv'
<1> SUFFICES ASSUME TypeOK, CursorInv, RowsInv, [Next]_vars PROVE CursorInv' /\ RowsInv'
  OBVIOUS
<1>0. /\ pc \in [Scans -> Phases] /\ cursor \in [Scans -> 0..LastFetch]
      /\ flags \in [Scans -> [partial : BOOLEAN, limited : BOOLEAN]]
      /\ spent \in [Scans -> 0..MaxAttempts] /\ LastFetch \in Nat
      /\ rows \in [Scans -> [Tickers -> {"NONE", "UNAVAILABLE"} \union Contents]]
  BY ScanAssumption DEF TypeOK, LastFetch
\* A step of one scan: what the strengthening says of it, and of the others.
<1>a. ASSUME NEW s \in Scans,
             \A r \in Scans \ {s} : /\ pc'[r] = pc[r] /\ cursor'[r] = cursor[r]
                                    /\ flags'[r] = flags[r] /\ spent'[r] = spent[r]
                                    /\ rows'[r] = rows[r],
             pc'[s] \in {"idle"} \union Opening => cursor'[s] = 0,
             pc'[s] \in {"asking", "parsing"} => cursor'[s] < LastFetch,
             pc'[s] = "asking" => spent'[s] < MaxAttempts,
             pc'[s] \in {"deep", "finishing"} => cursor'[s] = LastFetch,
             pc'[s] \in Working /\ ~Flagged(s)' =>
               \A i \in 1..Len(Universe) : 2 * i <= cursor'[s] => rows'[s][Universe[i]] \in Observed,
             pc'[s] = "finishing" => ~Flagged(s)'
      PROVE  CursorInv' /\ RowsInv'
  <2>1. ASSUME NEW r \in Scans
        PROVE  /\ pc'[r] \in {"idle"} \union Opening => cursor'[r] = 0
               /\ pc'[r] \in {"asking", "parsing"} => cursor'[r] < LastFetch
               /\ pc'[r] = "asking" => spent'[r] < MaxAttempts
               /\ pc'[r] \in {"deep", "finishing"} => cursor'[r] = LastFetch
    BY <1>a DEF CursorInv
  <2>2. ASSUME NEW r \in Scans
        PROVE  /\ pc'[r] \in Working /\ ~Flagged(r)' =>
                    \A i \in 1..Len(Universe) :
                      2 * i <= cursor'[r] => rows'[r][Universe[i]] \in Observed
               /\ pc'[r] = "finishing" => ~Flagged(r)'
    BY <1>a DEF RowsInv, Flagged
  <2> QED
    BY <2>1, <2>2 DEF CursorInv, RowsInv
<1>1. ASSUME NEW s \in Scans, CheckRunning(s) \/ \E c \in IdleConns(s) : TryLock(s, c)
      PROVE  CursorInv' /\ RowsInv'
  <2>1. /\ UNCHANGED memory /\ pc[s] \in {"idle", "locked"}
        /\ \E phase \in {"locked", "checked", "refused"} : Goto(s, phase)
    BY <1>1 DEF CheckRunning, TryLock
  <2> QED
    BY <1>0, <2>1, SurfaceKept DEF Goto, memory
<1>2. ASSUME NEW s \in Scans, OpenRun(s) PROVE CursorInv' /\ RowsInv'
  <2>1. UNCHANGED memory /\ pc[s] = "checked" /\ Goto(s, "open")
    BY <1>2 DEF OpenRun
  <2>2. cursor[s] = 0
    BY <2>1 DEF CursorInv, Opening
  <2> QED
    BY <1>0, <1>a, <2>1, <2>2, ScanAssumption DEF Goto, memory, Opening, Working
\* A fetch that was answered: a ticker whose volume is missing has no row yet.
<1>b. ASSUME NEW s \in Scans, AfterFetch(s), cursor[s] < LastFetch,
             pc[s] \in {"open", "asking"}, UNCHANGED <<flags, rows>>,
             \A r \in Scans \ {s} : spent'[r] = spent[r]
      PROVE  CursorInv' /\ RowsInv'
  <2>1. CASE EndpointAt(cursor[s]) = "expiry"
    <3>1. cursor' = [cursor EXCEPT ![s] = @ + 1] /\ Goto(s, "open") /\ cursor[s] % 2 = 0
      BY <1>b, <2>1 DEF AfterFetch, EndpointAt
    <3>2. \A i \in 1..Len(Universe) : 2 * i <= cursor[s] + 1 => 2 * i <= cursor[s]
      <4>1. cursor[s] \in Nat /\ \A i \in 1..Len(Universe) : i \in Nat
        BY <1>0, ScanAssumption
      <4> QED
        BY <3>1, <4>1, SameTicker
    <3>3. cursor'[s] = cursor[s] + 1 /\ pc'[s] = "open"
      BY <1>0, <3>1 DEF Goto
    <3>4. ~Flagged(s)' => \A i \in 1..Len(Universe) :
                            2 * i <= cursor'[s] => rows'[s][Universe[i]] \in Observed
      BY <1>b, <3>2, <3>3 DEF RowsInv, Flagged, Working
    <3>5. \A r \in Scans \ {s} : pc'[r] = pc[r] /\ cursor'[r] = cursor[r]
      BY <1>0, <3>1 DEF Goto
    <3> QED
      BY <1>a, <1>b, <3>3, <3>4, <3>5 DEF Opening
  <2>2. CASE EndpointAt(cursor[s]) # "expiry"
    <3>1. UNCHANGED cursor /\ Goto(s, "parsing")
      BY <1>b, <2>2 DEF AfterFetch
    <3>2. pc'[s] = "parsing" /\ \A r \in Scans \ {s} : pc'[r] = pc[r]
      BY <1>0, <3>1 DEF Goto
    <3>3. ~Flagged(s)' => \A i \in 1..Len(Universe) :
                            2 * i <= cursor'[s] => rows'[s][Universe[i]] \in Observed
      BY <1>b, <3>1 DEF RowsInv, Flagged, Working
    <3> QED
      BY <1>a, <1>b, <3>1, <3>2, <3>3 DEF Opening
  <2> QED
    BY <2>1, <2>2
<1>3. ASSUME NEW s \in Scans, FetchCached(s) PROVE CursorInv' /\ RowsInv'
  BY <1>3, <1>b DEF FetchCached, Fetching
<1>4. ASSUME NEW s \in Scans, Answered(s) PROVE CursorInv' /\ RowsInv'
  <2>1. cursor[s] < LastFetch
    BY <1>4 DEF Answered, CursorInv
  <2>2. \A r \in Scans \ {s} : spent'[r] = spent[r]
    BY <1>0, <1>4 DEF Answered, CountAttempt
  <2> QED
    BY <1>4, <1>b, <2>1, <2>2 DEF Answered
<1>5. ASSUME NEW s \in Scans, StopAtBudget(s) PROVE CursorInv' /\ RowsInv'
  <2>1. /\ UNCHANGED <<pc, spent, rows>> /\ pc[s] = "open"
        /\ cursor' = [cursor EXCEPT ![s] = LastFetch]
        /\ flags'[s].limited /\ \A r \in Scans \ {s} : flags'[r] = flags[r]
    BY <1>0, <1>5 DEF StopAtBudget, Fetching, Raise
  <2> QED
    BY <1>0, <1>a, <2>1 DEF Flagged, Opening
<1>6. ASSUME NEW s \in Scans, NEW c \in IdleConns(s), Ask(s, c) PROVE CursorInv' /\ RowsInv'
  <2>1. /\ UNCHANGED memory /\ pc[s] = "open" /\ Goto(s, "asking")
        /\ cursor[s] < LastFetch /\ spent[s] < MaxAttempts
    BY <1>6 DEF Ask, Fetching, HasRoom
  <2>2. pc'[s] = "asking" /\ \A r \in Scans \ {s} : pc'[r] = pc[r]
    BY <1>0, <2>1 DEF Goto
  <2>3. ~Flagged(s) => \A i \in 1..Len(Universe) :
                         2 * i <= cursor[s] => rows[s][Universe[i]] \in Observed
    BY <2>1 DEF RowsInv, Working
  <2> QED
    BY <1>a, <2>1, <2>2, <2>3 DEF memory, Opening, Flagged
\* A row: either it tells of the ticker, or a flag does.
<1>c. ASSUME NEW s \in Scans, NEW what \in {"UNAVAILABLE"} \union Contents, Row(s, what),
             pc[s] \in {"asking", "parsing"}, \A r \in Scans \ {s} : spent'[r] = spent[r]
      PROVE  CursorInv' /\ RowsInv'
  <2> DEFINE n == cursor[s]
  <2>1. n \in 0..LastFetch /\ n < LastFetch
    BY <1>0, <1>c DEF CursorInv
  <2>2. TickerAt(n) \in Tickers /\ TickerAt(n) = Universe[n \div 2 + 1]
    BY <2>1, CursorMoves DEF TickerAt
  <2>3. /\ cursor'[s] = 2 * (n \div 2 + 1) /\ pc'[s] = "open"
        /\ \A r \in Scans \ {s} : /\ pc'[r] = pc[r] /\ cursor'[r] = cursor[r]
                                  /\ rows'[r] = rows[r]
        /\ rows'[s] = [rows[s] EXCEPT ![TickerAt(n)] = what]
    BY <1>0, <1>c DEF Row, Goto
  <2>4. CASE what \in Observed
    <3>1. UNCHANGED flags
      BY <1>c, <2>4 DEF Row
    <3>2. ASSUME ~Flagged(s), NEW i \in 1..Len(Universe), 2 * i <= cursor'[s]
          PROVE  rows'[s][Universe[i]] \in Observed
      <4>1. Universe[i] \in Tickers
        BY DEF Tickers
      <4>2. 2 * i <= n \/ i = n \div 2 + 1
        BY <2>1, <2>3, <3>2, RowBehindCursor
      <4>3. 2 * i <= n => rows[s][Universe[i]] \in Observed
        BY <1>c, <3>2 DEF RowsInv, Working
      <4> QED
        BY <1>0, <2>2, <2>3, <2>4, <4>1, <4>2, <4>3
    <3> QED
      BY <1>a, <1>c, <2>3, <3>1, <3>2 DEF Flagged, Opening
  <2>5. CASE what \notin Observed
    <3>1. flags'[s].partial /\ \A r \in Scans \ {s} : flags'[r] = flags[r]
      BY <1>0, <1>c, <2>5 DEF Row, Raise
    <3> QED
      BY <1>a, <1>c, <2>3, <3>1 DEF Flagged, Opening
  <2> QED
    BY <2>4, <2>5
<1>7. ASSUME NEW s \in Scans, AnsweredWithError(s) PROVE CursorInv' /\ RowsInv'
  <2>1. \A r \in Scans \ {s} : spent'[r] = spent[r]
    BY <1>0, <1>7 DEF AnsweredWithError, CountAttempt
  <2> QED
    BY <1>7, <1>c, <2>1 DEF AnsweredWithError
<1>8. ASSUME NEW s \in Scans, NEW what \in Contents, ParseTicker(s, what)
      PROVE  CursorInv' /\ RowsInv'
  BY <1>8, <1>c DEF ParseTicker
\* The whole universe is behind a scan that selects, and a finishing one has no flag.
<1>9. ASSUME NEW s \in Scans, Select(s) \/ Finish(s) PROVE CursorInv' /\ RowsInv'
  <2>1. UNCHANGED <<cursor, flags, spent, rows>> /\ cursor[s] = LastFetch /\ pc[s] \in Working
    BY <1>9 DEF Select, Finish, CursorInv, Working
  <2>2. /\ pc'[s] = "deep" \/ (pc'[s] = "finishing" /\ ~Flagged(s))
        /\ \A r \in Scans \ {s} : pc'[r] = pc[r]
    BY <1>0, <1>9 DEF Select, Finish, Goto, CompletionStatus, Flagged
  <2>3. ~Flagged(s) => \A i \in 1..Len(Universe) :
                         2 * i <= cursor[s] => rows[s][Universe[i]] \in Observed
    BY <2>1 DEF RowsInv
  <2> QED
    BY <1>a, <2>1, <2>2, <2>3 DEF Opening, Flagged
<1>10. ASSUME NEW s \in Scans,
              FinishShort(s) \/ Materialize(s) \/ ScanRaises(s) \/ RequestBreaks(s)
       PROVE  CursorInv' /\ RowsInv'
  <2>1. UNCHANGED <<cursor, flags, spent, rows>> /\ Goto(s, "unlocking")
    BY <1>10 DEF FinishShort, Materialize, ScanRaises, RequestBreaks, memory
  <2> QED
    BY <1>0, <2>1, SurfaceKept DEF Goto
<1>11. ASSUME NEW s \in Scans, DatabaseFails(s) \/ \E c \in IdleConns(s) : ReleaseLock(s, c)
       PROVE  CursorInv' /\ RowsInv'
  <2>1. Goto(s, "ended") /\ Discard(s)
    BY <1>11 DEF DatabaseFails, ReleaseLock
  <2>2. /\ pc'[s] = "ended"
        /\ \A r \in Scans \ {s} : /\ pc'[r] = pc[r] /\ cursor'[r] = cursor[r]
                                  /\ flags'[r] = flags[r] /\ spent'[r] = spent[r]
                                  /\ rows'[r] = rows[r]
    BY <1>0, <2>1 DEF Goto, Discard
  <2> QED
    BY <1>a, <2>2 DEF Opening, Working
<1>12. ASSUME \/ \E s \in Scans : Shutdown(s)
              \/ \E s \in Scans, t \in Tickers : ScanStructure(s, t)
              \/ \E t \in RadarTickers : Collect(t)
              \/ CoolDown \/ Terminating \/ UNCHANGED vars
             \/ \E c \in Conns : LoseIdleConn(c)
       PROVE  CursorInv' /\ RowsInv'
  <2>1. UNCHANGED <<pc, cursor, flags, spent, rows>>
    BY <1>12 DEF Shutdown, ScanStructure, Collect, RadarReceived, RadarCaptured,
      RadarCommitted, RadarRollsBack, CoolDown, LoseIdleConn, DropIdle, Terminating, vars, memory
  <2> QED
    BY <2>1, SurfaceKept
<1> QED
  BY <1>1, <1>2, <1>3, <1>4, <1>5, <1>6, <1>7, <1>8, <1>9, <1>10, <1>11, <1>12 DEF Next, Step

-----------------------------------------------------------------------------
(* The clock, the collector and the cutoff *)

LEMMA ClockStep == TypeOK /\ ClockInv /\ [Next]_vars => ClockInv'
<1> SUFFICES ASSUME TypeOK, ClockInv, [Next]_vars PROVE ClockInv'
  OBVIOUS
<1> USE DEF Closing, Ended
<1> DEFINE Closed == {r \in Scans : pc[r] \in Closing}
<1>0. /\ pc \in [Scans -> Phases] /\ now \in Nat /\ now \in Times
      /\ cutoff \in [Scans -> Times \union {Never}]
  BY TimesAreNumbers DEF TypeOK
<1>1. IsFiniteSet(Closed) /\ IsFiniteSet(Closed') /\ Cardinality(Closed) \in Nat
      /\ Cardinality(Closed') \in Nat
  BY ScanAssumption, FS_Subset, FS_CardinalityType
<1>2. now <= Cardinality(Closed)
  BY DEF ClockInv
<1> HIDE DEF Closed
\* The scans that have finished stay so.
<1>3. ASSUME Closed \subseteq Closed', UNCHANGED now PROVE now' <= Cardinality(Closed')
  <2>1. Cardinality(Closed) <= Cardinality(Closed')
    BY <1>1, <1>3, FS_Subset
  <2> QED
    BY <1>0, <1>1, <1>2, <1>3, <2>1
<1>4. ASSUME NEW s \in Scans, Finish(s) PROVE ClockInv'
  <2>1. /\ pc[s] = "deep" /\ now' = now + 1 /\ pc' = [pc EXCEPT ![s] = "finishing"]
        /\ cutoff' = [cutoff EXCEPT ![s] = now]
    BY <1>4 DEF Finish, Goto
  <2>2. Closed' = Closed \union {s} /\ s \notin Closed
    BY <1>0, <2>1 DEF Closed
  <2>3. Cardinality(Closed') = Cardinality(Closed) + 1
    BY <1>1, <2>2, FS_AddElement
  <2>4. now' <= Cardinality(Closed')
    BY <1>0, <1>1, <1>2, <2>1, <2>3
  <2> QED
    BY <1>0, <2>1, <2>4 DEF ClockInv, Closed
<1>5. ASSUME NEW s \in Scans, NEW phase, Goto(s, phase), phase # "finishing",
             pc[s] \in Closing => phase \in Closing, UNCHANGED now,
             \A r \in Scans \ {s} : cutoff'[r] = cutoff[r]
      PROVE  ClockInv'
  <2>1. Closed \subseteq Closed'
    BY <1>0, <1>5 DEF Goto, Closed
  <2>2. \A r \in Scans : pc'[r] = "finishing" => r # s /\ pc[r] = "finishing"
    BY <1>0, <1>5 DEF Goto
  <2> QED
    BY <1>3, <1>5, <2>1, <2>2 DEF ClockInv, Closed
<1>6. ASSUME NEW s \in Scans,
             \/ CheckRunning(s) \/ OpenRun(s) \/ FetchCached(s) \/ Answered(s)
             \/ AnsweredWithError(s) \/ RequestBreaks(s) \/ Select(s)
             \/ FinishShort(s) \/ Materialize(s) \/ ScanRaises(s) \/ DatabaseFails(s)
             \/ \E c \in IdleConns(s) : TryLock(s, c) \/ Ask(s, c) \/ ReleaseLock(s, c)
             \/ \E what \in Contents : ParseTicker(s, what)
      PROVE  ClockInv'
  <2>1. \E phase \in Phases \ {"finishing"} :
          Goto(s, phase) /\ (pc[s] \in Closing => phase \in Closing)
    BY <1>6 DEF CheckRunning, OpenRun, FetchCached, Fetching, Answered, AfterFetch,
      AnsweredWithError, Row, RequestBreaks, Select, FinishShort, Materialize, ScanRaises,
      DatabaseFails, TryLock, Ask, ReleaseLock, ParseTicker, Phases, Opening, Working
  <2>2. UNCHANGED now /\ \A r \in Scans \ {s} : cutoff'[r] = cutoff[r]
    BY <1>0, <1>6 DEF CheckRunning, OpenRun, FetchCached, Answered, AnsweredWithError,
      RequestBreaks, Select, FinishShort, Materialize, ScanRaises, DatabaseFails, TryLock,
      Ask, ReleaseLock, ParseTicker, Discard, memory
  <2> QED
    BY <1>5, <2>1, <2>2
<1>7. ASSUME \/ \E s \in Scans : Shutdown(s) \/ StopAtBudget(s)
             \/ \E s \in Scans, t \in Tickers : ScanStructure(s, t)
             \/ \E t \in RadarTickers : Collect(t)
             \/ CoolDown \/ Terminating \/ UNCHANGED vars
             \/ \E c \in Conns : LoseIdleConn(c)
      PROVE  ClockInv'
  <2>1. UNCHANGED <<pc, now, cutoff>>
    BY <1>7 DEF Shutdown, StopAtBudget, ScanStructure, Collect, RadarReceived,
      RadarCaptured, RadarCommitted, RadarRollsBack, CoolDown, LoseIdleConn, DropIdle, Terminating, vars, memory
  <2> QED
    BY <2>1 DEF ClockInv
<1> QED
  BY <1>4, <1>6, <1>7 DEF Next, Step

LEMMA RadarStep == TypeOK /\ RadarInv /\ [Next]_vars => RadarInv'
<1> SUFFICES ASSUME TypeOK, RadarInv, [Next]_vars PROVE RadarInv'
  OBVIOUS
<1>0. /\ now \in Times /\ now \in Nat /\ DOMAIN radar = Tickers
      /\ \A n \in Times : n \in Nat
  BY TimesAreNumbers DEF TypeOK
<1>1. ASSUME NEW t \in Tickers, Collect(t) PROVE RadarInv'
  <2>1. now' = now /\ \A u \in Tickers \ {t} : radar'[u] = radar[u]
    BY <1>0, <1>1 DEF Collect, RadarReceived, RadarCaptured, RadarCommitted, RadarRollsBack
  <2>2. /\ radar'[t].phase = "received" => radar'[t].received <= now'
        /\ radar'[t].phase \in {"received", "captured", "visible"} => radar'[t].received \in Times
        /\ radar'[t].phase \in {"captured", "visible"} =>
             radar'[t].captured \in Times /\ radar'[t].received <= radar'[t].captured
    <3>1. CASE RadarReceived(t)
      BY <1>0, <2>1, <3>1 DEF RadarReceived, NoRadar
    <3>2. CASE RadarCaptured(t)
      <4>1. radar[t].received <= now /\ radar[t].received \in Times
        BY <3>2 DEF RadarCaptured, RadarInv
      <4> QED
        BY <1>0, <2>1, <3>2, <4>1 DEF RadarCaptured, TypeOK
    <3>3. CASE RadarCommitted(t)
      <4>1. /\ radar[t].captured \in Times /\ radar[t].received \in Times
            /\ radar[t].received <= radar[t].captured
        BY <3>3 DEF RadarCommitted, RadarInv
      <4> QED
        BY <1>0, <2>1, <3>3, <4>1 DEF RadarCommitted, TypeOK
    <3>4. CASE RadarRollsBack(t)
      BY <1>0, <3>4 DEF RadarRollsBack, NoRadar
    <3> QED
      BY <1>1, <3>1, <3>2, <3>3, <3>4 DEF Collect
  <2> QED
    BY <2>1, <2>2 DEF RadarInv
<1>2. CASE UNCHANGED radar /\ now' \in {now, now + 1}
  <2>1. \A t \in Tickers : radar[t].phase = "received" => radar[t].received <= now'
    <3> SUFFICES ASSUME NEW t \in Tickers, radar[t].phase = "received"
                 PROVE  radar[t].received <= now'
      OBVIOUS
    <3>1. radar[t].received \in Nat /\ radar[t].received <= now
      BY <1>0 DEF RadarInv
    <3> QED
      BY <1>0, <1>2, <3>1
  <2> QED
    BY <1>2, <2>1 DEF RadarInv
<1>3. ASSUME NEW s \in Scans,
             \/ Step(s) \/ DatabaseFails(s) \/ Shutdown(s) \/ CoolDown
             \/ \E c \in IdleConns(s) : TryLock(s, c)
      PROVE  UNCHANGED radar /\ now' \in {now, now + 1}
  BY <1>3 DEF Step, CheckRunning, OpenRun, FetchCached, StopAtBudget, Ask, ReleaseLock,
    Answered, AnsweredWithError, RequestBreaks, ParseTicker, Select, ScanStructure, FinishShort,
    Finish, Materialize, ScanRaises, DatabaseFails, Shutdown, TryLock, CoolDown, evidence
<1>4. CASE CoolDown \/ Terminating \/ UNCHANGED vars \/ \E c \in Conns : LoseIdleConn(c)
  <2>1. UNCHANGED <<radar, now>>
    BY <1>4 DEF CoolDown, LoseIdleConn, Terminating, vars, evidence
  <2> QED
    BY <1>2, <2>1
<1> QED
  BY <1>1, <1>2, <1>3, <1>4, ScanAssumption DEF Next, Tickers

\* Only the materialization of a scan writes its marker and triggers.
LEMMA MarkerWriter ==
  ASSUME [Next]_vars
  PROVE  UNCHANGED <<marker, triggers>> \/ \E s \in Scans : Materialize(s)
BY DEF Next, Step, CheckRunning, OpenRun, FetchCached, StopAtBudget, Ask, ReleaseLock, Answered,
  AnsweredWithError, RequestBreaks, ParseTicker, Select, ScanStructure, FinishShort, Finish,
  ScanRaises, DatabaseFails, Shutdown, TryLock, CoolDown, Collect, RadarReceived, RadarCaptured,
  RadarCommitted, RadarRollsBack, LoseIdleConn, Terminating, vars, records

LEMMA FutureStep == TypeOK /\ NoFutureEvidence /\ [Next]_vars => NoFutureEvidence'
<1> SUFFICES ASSUME TypeOK, NoFutureEvidence, [Next]_vars PROVE NoFutureEvidence'
  OBVIOUS
<1>1. ASSUME NEW s \in Scans, Materialize(s) PROVE NoFutureEvidence'
  <2>1. \A r \in Scans \ {s} : triggers'[r] = triggers[r] /\ marker'[r] = marker[r]
    BY <1>1 DEF Materialize, TypeOK
  <2>2. CASE Admissible(Projection(s, cutoff[s]), cutoff[s])
    <3>1. triggers'[s] = Projection(s, cutoff[s]) /\ marker'[s] = cutoff[s]
      BY <1>1, <2>2 DEF Materialize, TypeOK
    <3> QED
      BY <2>1, <2>2, <3>1 DEF NoFutureEvidence, Admissible
  <2>3. CASE ~Admissible(Projection(s, cutoff[s]), cutoff[s])
    BY <1>1, <2>3 DEF Materialize, NoFutureEvidence
  <2> QED
    BY <2>2, <2>3
<1> QED
  BY <1>1, MarkerWriter DEF NoFutureEvidence

-----------------------------------------------------------------------------
(* The theorems *)

LEMMA InitInv == Init => IInv
<1> SUFFICES ASSUME Init PROVE IInv
  OBVIOUS
<1>1. 0 \in Times /\ Never \in Times \union {Never} /\ 0 \in 0..MaxAttempts
  BY ScanAssumption, TimesAreNumbers DEF Times
<1>2. LastFetch \in Nat /\ 0 \in 0..LastFetch
  BY ScanAssumption DEF LastFetch
<1>3. TypeOK
  BY <1>1, <1>2 DEF Init, TypeOK, LockInit, LockTypeOK, Phases, NoFlags, NoRows, NoRadar,
    RadarPhases
<1>4. {s \in Scans : pc[s] \in Closing} = {}
  BY DEF Init, Closing, Ended
<1>5. ClockInv
  BY <1>4, FS_EmptySet DEF Init, ClockInv
<1> QED
  BY <1>3, <1>5 DEF Init, IInv, LockInit, ConnectionInv, OpeningInv, CursorInv, RowsInv,
    RadarInv, NoFutureEvidence, NoRadar, Opening, Working

\* The strengthening holds of every behaviour.
THEOREM Invariance == Spec => []IInv
<1>1. IInv /\ [Next]_vars => IInv'
  BY TypeStep, ConnectionStep, OpeningStep, SurfaceStep, ClockStep, RadarStep, FutureStep
     DEF IInv
<1> QED
  BY <1>1, InitInv, PTL DEF Spec

\* Every scan, connection and piece of evidence keeps its type: the budget is never
\* exceeded, and a scan never leaves its universe.
THEOREM TypeCorrect == Spec => []TypeOK
<1>1. IInv => TypeOK
  BY DEF IInv
<1> QED
  BY <1>1, Invariance, PTL

\* Two scans never work at once, whatever connections come back to a pool with the lock,
\* are lost or are closed, and whichever processes end.
THEOREM ScansExclude == Spec => []OneScanAtATime
<1>1. IInv => OneScanAtATime
  BY DEF IInv, OpeningInv, OneScanAtATime
<1> QED
  BY <1>1, Invariance, PTL

\* No candidate rests on evidence that was captured after the cutoff its scan records.
THEOREM NothingFromTheFuture == Spec => []NoFutureEvidence
<1>1. IInv => NoFutureEvidence
  BY DEF IInv
<1> QED
  BY <1>1, Invariance, PTL

\* A scan becomes COMPLETE with a row for every ticker of its universe, and with every
\* ticker that has unusual activity, or a Radar event known by the cutoff, among its
\* candidates.
THEOREM CompleteIsComplete == Spec => CompleteScanLosesNothing
<1>1. ASSUME IInv, [Next]_vars, NEW s \in Scans, Completes(s) PROVE Materialize(s)
  <2>1. ASSUME NEW r \in Scans, NEW status, End(r, status), status # "COMPLETE" PROVE FALSE
    BY <1>1, <2>1 DEF Completes, End, IInv, TypeOK
  <2>2. run' # run
    BY <1>1 DEF Completes
  <2>3. ASSUME NEW r \in Scans, OpenRun(r) PROVE FALSE
    BY <1>1, <2>3 DEF OpenRun, Completes, IInv, TypeOK
  <2>4. ASSUME NEW r \in Scans, FinishShort(r) \/ ScanRaises(r) \/ RequestBreaks(r)
        PROVE  FALSE
    BY <2>1, <2>4 DEF FinishShort, ScanRaises, RequestBreaks, Fail
  <2>5. \E r \in Scans : Materialize(r)
    BY <1>1, <2>2, <2>3, <2>4 DEF Next, Step, CheckRunning, FetchCached, StopAtBudget, Ask,
      ReleaseLock, Answered, AnsweredWithError, ParseTicker, Select, ScanStructure, Finish,
      DatabaseFails, Shutdown, TryLock, CoolDown, Collect, RadarReceived, RadarCaptured,
      RadarCommitted, RadarRollsBack, LoseIdleConn, Terminating, vars, records
  <2> QED
    BY <1>1, <2>5 DEF Completes, Materialize, Fail, End, IInv, TypeOK
<1>2. ASSUME IInv, [Next]_vars, NEW s \in Scans, NEW t \in Tickers, Completes(s)
      PROVE  /\ rows[s][t] \in Observed
             /\ rows[s][t] = "ACTIVE" \/ (t \in VisibleRadar /\ radar[t].captured <= cutoff[s]) =>
                  \E a \in triggers'[s] : a.ticker = t /\ a.qualifies
  <2>1. Materialize(s)
    BY <1>1, <1>2
  <2>2. pc[s] = "finishing" /\ ~Flagged(s) /\ cursor[s] = LastFetch /\ cutoff[s] \in Times
    BY <2>1, <1>2 DEF Materialize, IInv, CursorInv, RowsInv, ClockInv
  <2>3. rows[s][t] \in Observed
    <3>1. PICK i \in 1..Len(Universe) : t = Universe[i]
      BY DEF Tickers
    <3>2. 2 * i <= LastFetch
      BY <3>1, ScanAssumption DEF LastFetch
    <3> QED
      BY <1>2, <2>2, <3>1, <3>2 DEF IInv, RowsInv, Working
  <2>4. triggers'[s] = Projection(s, cutoff[s])
    BY <1>2, <2>1 DEF Materialize, Completes, Fail, End, IInv, TypeOK
  <2>5. ASSUME NEW pool, NEW a \in pool, a.ticker = t, a.qualifies,
               pool = RadarPool(cutoff[s]) \union ActivityPool(s, cutoff[s])
                        \union PersistencePool(s, cutoff[s])
        PROVE  a \in triggers'[s]
    BY <2>4, <2>5 DEF Projection
  <2>6. CASE rows[s][t] = "ACTIVE"
    <3> DEFINE a == Trigger(t, "EXPIRY_ACTIVITY", cutoff[s], TRUE)
    <3>1. a \in ActivityPool(s, cutoff[s])
      BY <2>6 DEF ActivityPool
    <3>2. a.ticker = t /\ a.qualifies
      BY DEF Trigger
    <3> QED
      BY <2>3, <2>5, <3>1, <3>2
  <2>7. CASE t \in VisibleRadar /\ radar[t].captured <= cutoff[s]
    <3> DEFINE a == Trigger(t, "RADAR_EVENT", radar[t].captured, TRUE)
    <3>1. radar[t].received <= radar[t].captured /\ radar[t].received \in Times
          /\ radar[t].captured \in Times
      BY <1>2, <2>7 DEF VisibleRadar, IInv, RadarInv
    <3>2. radar[t].received <= cutoff[s]
      BY <2>2, <2>7, <3>1, TimesAreNumbers
    <3>3. a \in RadarPool(cutoff[s])
      BY <2>7, <3>2 DEF RadarPool
    <3>4. a.ticker = t /\ a.qualifies
      BY DEF Trigger
    <3> QED
      BY <2>3, <2>5, <3>3, <3>4
  <2> QED
    BY <2>3, <2>6, <2>7
<1>3. IInv /\ [Next]_vars =>
        [\A s \in Scans, t \in Tickers : Completes(s) =>
           /\ rows[s][t] \in Observed
           /\ rows[s][t] = "ACTIVE" \/ (t \in VisibleRadar /\ radar[t].captured <= cutoff[s]) =>
                \E a \in triggers'[s] : a.ticker = t /\ a.qualifies]_vars
  BY <1>2
<1> QED
  BY <1>3, Invariance, PTL DEF Spec, CompleteScanLosesNothing

===============================================================================
