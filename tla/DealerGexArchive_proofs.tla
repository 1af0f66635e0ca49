------------------------ MODULE DealerGexArchive_proofs ------------------------
(***************************************************************************)
(* Proofs about DealerGexArchive, for any invocations, processes,          *)
(* connections, tickers, budgets and days: one capture at a time, a day's  *)
(* slot that is consumed is free, a reused run is backed by observations,  *)
(* and the evidence of a past cutoff is settled.                           *)
(*                                                                         *)
(* A capturing invocation has given its connection back, and the lock with *)
(* it.  What is inductive is that the lock stays with the pool of its      *)
(* process, which runs one invocation at a time, unless it went with an    *)
(* idle connection.  That the others are kept out is in turn why the slot, *)
(* once it was found free under the lock, stays free for as long as the    *)
(* capture lasts.                                                          *)
(***************************************************************************)
EXTENDS DealerGexArchive, TLAPS

Capturing == {"locked", "open", "asking"}
Resting == Ended \union {"idle"}

\* A process runs one invocation at a time, and its pool keeps the lock while it captures,
\* unless the lock is severed from it, which no session that is connected has to fear.
ProcessInv ==
  /\ \A i, j \in Invocations :
       PoolOf[i] = PoolOf[j] /\ pc[i] \notin Resting /\ pc[j] \notin Resting => i = j
  /\ \A i \in Invocations : pc[i] \in {"checked", "locked"} => at[i] \in PoolOf[i]
  /\ \A i \in Invocations : pc[i] = "locked" => lock.conn = at[i]
  /\ \A i \in Invocations : pc[i] \in Capturing /\ i \notin severed =>
                              lock.conn \in PoolOf[i] /\ lock.depth # 0
  /\ \A i \in severed : pc[i] \notin {"idle", "checked", "locked"}

\* The client of an invocation, while it captures: what has left it is in the totals or
\* in the call.
CallOf(i) ==
  /\ pc[i] \in {"idle", "checked", "locked"} => spent[i] = NothingSpent /\ wire[i] = 0
  /\ pc[i] = "open" => wire[i] = spent[i].attempts
  /\ pc[i] = "asking" =>
       /\ ticker[i] \in Tickers
       /\ call[i].phase \in {"sending", "closing"} =>
            /\ wire[i] = spent[i].attempts + call[i].attempts
            /\ spent[i].attempts < MaxAttempts /\ spent[i].units < MaxUnits
       /\ call[i].phase = "sending" => call[i].attempts <= MaxRetries
       /\ call[i].phase \in {"result", "error"} => wire[i] = spent[i].attempts
       /\ call[i].phase = "broken" =>
            wire[i] \in spent[i].attempts .. spent[i].attempts + MaxRetries + 1

CallInv == \A i \in Invocations : CallOf(i)

\* A captured ticker is archived, and a COMPLETE run is over.
ResultInv ==
  /\ \A i \in Invocations, t \in Tickers :
       result[i][t] = "CAPTURED" => \E s \in surfaces : s.ticker = t
  /\ \A i \in Invocations : run[i] = "COMPLETE" => pc[i] \in {"unlocking", "done", "failed"}
  /\ \A i \in Invocations : pc[i] \in Capturing \union {"idle", "checked"} =>
                              returned[i] = NoRunId

\* The slot that a capture found free is still free, but for captures without the lock.
SlotInv ==
  \A i \in Invocations : pc[i] \in {"open", "asking"} =>
    \A j \in Reusable(i, begun[i]) : i \in severed \/ j \in severed

IInv == TypeOK /\ ProcessInv /\ CallInv /\ ResultInv /\ SlotInv /\ ReusedRunIsBacked

-----------------------------------------------------------------------------
(* Operators *)

\* Numbers of the configuration.
LEMMA Bounds ==
  /\ AttemptsBound \in Nat /\ 0 \in Times /\ 0 \in 0..AttemptsBound /\ 0 \in 0..MaxUnits
  /\ NothingSpent \in [attempts : 0..AttemptsBound, units : 0..MaxUnits]
  /\ NoResults \in [Tickers -> TickerResults]
  BY DealerAssumption DEF AttemptsBound, Times, NothingSpent, NoResults, TickerResults

\* The lock keeps its type, whoever takes, releases or loses it.
LEMMA LockKeepsType ==
  ASSUME LockTypeOK
  PROVE  /\ \A c \in Conns : Lock(c) \/ Unlock(c) =>
              lock' = Unheld \/ lock' \in [conn : Conns, depth : Nat \ {0}]
         /\ \A gone : CloseConns(gone) =>
              lock' = Unheld \/ lock' \in [conn : Conns, depth : Nat \ {0}]
<1>1. CASE lock = Unheld
  <2>1. ASSUME NEW c \in Conns, Lock(c) PROVE lock' \in [conn : Conns, depth : Nat \ {0}]
    BY <1>1, <2>1 DEF Lock, Unheld
  <2>2. ASSUME NEW c \in Conns, Unlock(c) PROVE lock' = Unheld
    BY <1>1, <2>2, DealerAssumption DEF Unlock, Unheld
  <2>3. ASSUME NEW gone, CloseConns(gone) PROVE lock' = Unheld
    BY <1>1, <2>3 DEF CloseConns
  <2> QED
    BY <2>1, <2>2, <2>3
<1>2. CASE lock \in [conn : Conns, depth : Nat \ {0}]
  <2>1. ASSUME NEW c \in Conns, Lock(c) PROVE lock' \in [conn : Conns, depth : Nat \ {0}]
    BY <1>2, <2>1 DEF Lock
  <2>2. ASSUME NEW c \in Conns, Unlock(c)
        PROVE  lock' = Unheld \/ lock' \in [conn : Conns, depth : Nat \ {0}]
    <3>1. CASE lock.conn = c /\ lock.depth # 1
      <4>1. lock.depth - 1 \in Nat \ {0}
        BY <1>2, <3>1
      <4> QED
        BY <1>2, <2>2, <3>1, <4>1 DEF Unlock
    <3> QED
      BY <1>2, <2>2, <3>1 DEF Unlock
  <2>3. ASSUME NEW gone, CloseConns(gone)
        PROVE  lock' = Unheld \/ lock' \in [conn : Conns, depth : Nat \ {0}]
    BY <1>2, <2>3 DEF CloseConns
  <2> QED
    BY <2>1, <2>2, <2>3
<1> QED
  BY <1>1, <1>2 DEF LockTypeOK

\* A request keeps its type, and the attempts of a client that stops at MaxRetries.
LEMMA AttemptKeepsType ==
  ASSUME CallTypeOK, NEW i \in Invocations, Attempt(i), call[i].attempts <= MaxRetries
  PROVE  /\ CallTypeOK'
         /\ wire' = [wire EXCEPT ![i] = @ + 1]
         /\ \A j \in Invocations \ {i} : call'[j] = call[j]
         /\ \/ call'[i].phase = "broken" /\ call'[i].attempts = call[i].attempts
            \/ /\ call'[i].phase \in {"sending", "closing"}
               /\ call'[i].attempts = call[i].attempts + 1
               /\ call'[i].phase = "sending" => call'[i].attempts <= MaxRetries
<1> DEFINE Calls == [phase : CallPhases, attempts : 0..MaxRetries + 1,
                     answer : Successes \union {NoAnswer}]
<1>1. /\ call \in [Invocations -> Calls] /\ wire \in [Invocations -> Nat]
      /\ call[i] \in Calls
  BY DEF CallTypeOK
<1>2. call[i].attempts \in 0..MaxRetries
  BY <1>1, DealerAssumption
<1>3. wire' = [wire EXCEPT ![i] = @ + 1] /\ wire' \in [Invocations -> Nat]
  BY <1>1 DEF Attempt, AttemptAnswered, AttemptLost, AttemptBreaks
<1>4. \E c \in Calls :
        /\ call' = [call EXCEPT ![i] = c]
        /\ \/ c.phase = "broken" /\ c.attempts = call[i].attempts
           \/ /\ c.phase \in {"sending", "closing"} /\ c.attempts = call[i].attempts + 1
              /\ c.phase = "sending" => c.attempts <= MaxRetries
  <2>1. CASE \E status \in Statuses : AttemptAnswered(i, status)
    <3>1. PICK status \in Statuses : AttemptAnswered(i, status)
      BY <2>1
    <3> DEFINE c == [phase |-> IF status = "RETRYABLE" /\ ~LastAttempt(i)
                                 THEN "sending" ELSE "closing",
                     attempts |-> call[i].attempts + 1,
                     answer |-> IF status \in Successes THEN status ELSE NoAnswer]
    <3>2. call' = [call EXCEPT ![i] = c]
      BY <1>1, <3>1 DEF AttemptAnswered
    <3>3. c \in Calls
      BY <1>2, DealerAssumption DEF CallPhases
    <3>4. c.phase = "sending" => c.attempts <= MaxRetries
      BY <1>2, DealerAssumption DEF LastAttempt
    <3> QED
      BY <3>2, <3>3, <3>4
  <2>2. CASE AttemptLost(i)
    <3> DEFINE c == [call[i] EXCEPT !.phase = IF LastAttempt(i) THEN "closing" ELSE "sending",
                                    !.attempts = @ + 1]
    <3>1. call' = [call EXCEPT ![i] = c]
      BY <1>1, <2>2 DEF AttemptLost
    <3>2. c \in Calls
      <4>1. call[i].attempts + 1 \in 0..MaxRetries + 1
        BY <1>2, DealerAssumption
      <4> QED
        BY <1>1, <4>1 DEF CallPhases
    <3>3. /\ c.phase \in {"sending", "closing"} /\ c.attempts = call[i].attempts + 1
          /\ c.phase = "sending" => c.attempts <= MaxRetries
      BY <1>1, <1>2, DealerAssumption DEF LastAttempt
    <3> QED
      BY <3>1, <3>2, <3>3
  <2>3. CASE AttemptBreaks(i)
    <3> DEFINE c == [call[i] EXCEPT !.phase = "broken"]
    <3>1. call' = [call EXCEPT ![i] = c] /\ c \in Calls
      BY <1>1, <2>3 DEF AttemptBreaks, CallPhases
    <3>2. c.phase = "broken" /\ c.attempts = call[i].attempts
      BY <1>1
    <3> QED
      BY <3>1, <3>2
  <2> QED
    BY <2>1, <2>2, <2>3 DEF Attempt
<1> HIDE DEF Calls
<1>5. PICK c \in Calls :
        /\ call' = [call EXCEPT ![i] = c]
        /\ \/ c.phase = "broken" /\ c.attempts = call[i].attempts
           \/ /\ c.phase \in {"sending", "closing"} /\ c.attempts = call[i].attempts + 1
              /\ c.phase = "sending" => c.attempts <= MaxRetries
  BY <1>4
<1>6. call' \in [Invocations -> Calls] /\ call'[i] = c
      /\ \A j \in Invocations \ {i} : call'[j] = call[j]
  BY <1>1, <1>5
<1> QED
  BY <1>3, <1>5, <1>6 DEF CallTypeOK, Calls

\* The other steps of a request.
LEMMA CallMoves ==
  ASSUME CallTypeOK, NEW i \in Invocations
  PROVE  /\ StartCall(i) => /\ CallTypeOK' /\ wire' = wire
                            /\ call'[i].phase = "sending" /\ call'[i].attempts = 0
                            /\ \A j \in Invocations \ {i} : call'[j] = call[j]
         /\ Observe(i) => /\ CallTypeOK' /\ wire' = wire
                          /\ call'[i].phase \in {"result", "error"}
                          /\ \A j \in Invocations \ {i} : call'[j] = call[j]
         /\ ForgetCall(i) => /\ CallTypeOK' /\ wire' = wire
                             /\ \A j \in Invocations \ {i} : call'[j] = call[j]
         /\ DropCall(i) => /\ CallTypeOK'
                           /\ \A j \in Invocations \ {i} : call'[j] = call[j] /\ wire'[j] = wire[j]
<1> DEFINE Calls == [phase : CallPhases, attempts : 0..MaxRetries + 1,
                     answer : Successes \union {NoAnswer}]
<1>1. /\ call \in [Invocations -> Calls] /\ wire \in [Invocations -> Nat]
      /\ call[i] \in Calls
  BY DEF CallTypeOK
<1>2. NoCall \in Calls /\ [NoCall EXCEPT !.phase = "sending"] \in Calls
  BY DealerAssumption DEF NoCall, CallPhases
<1>3. [call[i] EXCEPT !.phase = IF call[i].answer \in Successes THEN "result" ELSE "error"] \in Calls
  BY <1>1 DEF CallPhases
<1>4. ASSUME NEW c \in Calls, call' = [call EXCEPT ![i] = c]
      PROVE  /\ call' \in [Invocations -> Calls] /\ call'[i] = c
             /\ \A j \in Invocations \ {i} : call'[j] = call[j]
  BY <1>1, <1>4
<1> HIDE DEF Calls
<1>5. ASSUME StartCall(i)
      PROVE  /\ call' \in [Invocations -> Calls] /\ wire' = wire
             /\ call'[i].phase = "sending" /\ call'[i].attempts = 0
             /\ \A j \in Invocations \ {i} : call'[j] = call[j]
  BY <1>2, <1>4, <1>5 DEF StartCall, NoCall
<1>6. ASSUME Observe(i)
      PROVE  /\ call' \in [Invocations -> Calls] /\ wire' = wire
             /\ call'[i].phase \in {"result", "error"}
             /\ \A j \in Invocations \ {i} : call'[j] = call[j]
  <2> DEFINE c == [call[i] EXCEPT !.phase = IF call[i].answer \in Successes THEN "result"
                                            ELSE "error"]
  <2>1. call' = [call EXCEPT ![i] = c] /\ wire' = wire
    BY <1>1, <1>6 DEF Observe
  <2>2. c.phase \in {"result", "error"}
    BY <1>1 DEF Calls
  <2> QED
    BY <1>3, <1>4, <2>1, <2>2
<1>7. ASSUME DropCall(i) \/ ForgetCall(i)
      PROVE  /\ call' \in [Invocations -> Calls]
             /\ \A j \in Invocations \ {i} : call'[j] = call[j]
  BY <1>2, <1>4, <1>7 DEF DropCall, ForgetCall
<1>8. ASSUME DropCall(i)
      PROVE  wire' \in [Invocations -> Nat] /\ \A j \in Invocations \ {i} : wire'[j] = wire[j]
  BY <1>1, <1>8 DEF DropCall
<1> QED
  BY <1>1, <1>5, <1>6, <1>7, <1>8 DEF CallTypeOK, ForgetCall, Calls

-----------------------------------------------------------------------------
(* Types *)

\* What an invocation leaves behind when its memory goes.
LEMMA DiscardType ==
  ASSUME TypeOK, NEW i \in Invocations, Discard(i)
  PROVE  /\ CallTypeOK' /\ surfaces' = surfaces
         /\ asked' \in [Invocations -> Times]
         /\ ticker' \in [Invocations -> Tickers \union {NoTicker}]
         /\ spent' \in [Invocations -> [attempts : 0..AttemptsBound, units : 0..MaxUnits]]
         /\ reported' \in [Invocations -> 0..AttemptsBound]
         /\ result' \in [Invocations -> [Tickers -> TickerResults]]
<1>1. CallTypeOK'
  BY CallMoves DEF Discard, TypeOK
<1>2. ticker' \in [Invocations -> Tickers \union {NoTicker}] /\ surfaces' = surfaces
  BY DEF Discard, TypeOK
<1>3. /\ asked' \in [Invocations -> Times] /\ reported' \in [Invocations -> 0..AttemptsBound]
      /\ spent' \in [Invocations -> [attempts : 0..AttemptsBound, units : 0..MaxUnits]]
      /\ result' \in [Invocations -> [Tickers -> TickerResults]]
  BY Bounds DEF Discard, TypeOK
<1> QED
  BY <1>1, <1>2, <1>3

\* Every step keeps the types, given the rest of the strengthening.
LEMMA TypeStep == TypeOK /\ ProcessInv /\ CallInv /\ [Next]_vars => TypeOK'
<1> SUFFICES ASSUME TypeOK, ProcessInv, CallInv, [Next]_vars PROVE TypeOK'
  OBVIOUS
<1> USE DEF callVars, lockVars, captureVars
<1>0. /\ now \in Times /\ LockTypeOK /\ CallTypeOK /\ pc \in [Invocations -> Phases]
      /\ at \in [Invocations -> Conns \union {NoConn}]
      /\ run \in [Invocations -> RunStatuses]
  BY DEF TypeOK, LockTypeOK
<1>a. \A i \in Invocations, phase \in Phases : Goto(i, phase) => pc' \in [Invocations -> Phases]
  BY <1>0 DEF Goto
<1>b. \A i \in Invocations : GiveBack(i) => at' \in [Invocations -> Conns \union {NoConn}]
  BY <1>0 DEF GiveBack
<1>c. \A i \in Invocations : PoolOf[i] \subseteq Conns
  BY DealerAssumption
<1>1. ASSUME NEW i \in Invocations, NEW c \in IdleConns(i), Begin(i, c) PROVE TypeOK'
  <2>1. /\ begun' \in [Invocations -> Times]
        /\ returned' \in [Invocations -> Invocations \union {NoRunId}]
        /\ pc' \in [Invocations -> Phases]
    BY <1>1 DEF Begin, TypeOK, Reusable, Goto, Phases
  <2>2. at' \in [Invocations -> Conns \union {NoConn}]
    BY <1>0, <1>1, <1>c DEF Begin, CheckOut, IdleConns
  <2> QED
    BY <1>1, <2>1, <2>2 DEF Begin, TypeOK, LockTypeOK, CallTypeOK, Unheld
<1>2. ASSUME NEW i \in Invocations, TryLock(i) PROVE TypeOK'
  <2>1. at[i] \in Conns
    BY <1>2, <1>c DEF TryLock, ProcessInv
  <2>2. LockTypeOK'
    BY <1>0, <1>2, <1>b, <2>1, LockKeepsType DEF TryLock, LockTypeOK, Unheld
  <2> QED
    BY <1>2, <1>a, <2>2 DEF TryLock, TypeOK, CallTypeOK, Phases
<1>3. ASSUME NEW i \in Invocations, OpenRun(i) PROVE TypeOK'
  <2>1. /\ returned' \in [Invocations -> Invocations \union {NoRunId}]
        /\ run' \in [Invocations -> RunStatuses]
        /\ pc' \in [Invocations -> Phases]
    <3>1. CASE Reusable(i, begun[i]) # {}
      <4>1. /\ UNCHANGED run /\ Goto(i, "unlocking")
            /\ \E j \in Invocations : returned' = [returned EXCEPT ![i] = j]
        BY <1>3, <3>1 DEF OpenRun, Reusable
      <4> QED
        BY <1>a, <4>1 DEF TypeOK, Phases
    <3>2. CASE Reusable(i, begun[i]) = {}
      <4>1. /\ UNCHANGED returned /\ Goto(i, "open")
            /\ run' = [run EXCEPT ![i] = "RUNNING"]
        BY <1>3, <3>2 DEF OpenRun
      <4> QED
        BY <1>a, <4>1 DEF TypeOK, Phases, RunStatuses
    <3> QED
      BY <3>1, <3>2
  <2>2. at' \in [Invocations -> Conns \union {NoConn}]
    BY <1>0, <1>3, <1>b DEF OpenRun
  <2> QED
    BY <1>3, <2>1, <2>2 DEF OpenRun, TypeOK, LockTypeOK, CallTypeOK, Unheld
<1>d. \A i \in Invocations, t \in Tickers, what \in TickerResults :
        Record(i, t, what) => result' \in [Invocations -> [Tickers -> TickerResults]]
  BY DEF Record, TypeOK
<1>4. ASSUME NEW i \in Invocations, NEW t \in Tickers, SkipTicker(i, t) PROVE TypeOK'
  <2>1. result' \in [Invocations -> [Tickers -> TickerResults]]
    BY <1>4, <1>d DEF SkipTicker, TickerResults
  <2> QED
    BY <1>4, <2>1 DEF SkipTicker, TypeOK, LockTypeOK, CallTypeOK, Unheld
<1>5. ASSUME NEW i \in Invocations, NEW t \in Tickers, AskTicker(i, t) PROVE TypeOK'
  <2>1. CallTypeOK' /\ pc' \in [Invocations -> Phases]
    BY <1>0, <1>5, <1>a, CallMoves DEF AskTicker, Phases
  <2>2. /\ ticker' \in [Invocations -> Tickers \union {NoTicker}]
        /\ asked' \in [Invocations -> Times]
    BY <1>5 DEF AskTicker, TypeOK
  <2> QED
    BY <1>5, <2>1, <2>2 DEF AskTicker, TypeOK, LockTypeOK, Unheld
<1>6. ASSUME NEW i \in Invocations, RequestAttempt(i) PROVE TypeOK'
  <2>1. call[i].attempts <= MaxRetries
    BY <1>6 DEF RequestAttempt, Attempt, AttemptAnswered, AttemptLost, AttemptBreaks, CallInv, CallOf
  <2>2. CallTypeOK'
    BY <1>0, <1>6, <2>1, AttemptKeepsType DEF RequestAttempt
  <2> QED
    BY <1>6, <2>2 DEF RequestAttempt, TypeOK, LockTypeOK, Unheld
<1>7. ASSUME NEW i \in Invocations, ObserveUsage(i) PROVE TypeOK'
  <2>1. CallTypeOK'
    BY <1>0, <1>7, CallMoves DEF ObserveUsage
  <2>2. /\ spent[i].attempts < MaxAttempts /\ spent[i].units < MaxUnits
        /\ spent[i].attempts \in Nat /\ spent[i].units \in Nat
        /\ call[i].attempts \in 0..MaxRetries + 1
    BY <1>0, <1>7 DEF ObserveUsage, Observe, CallInv, CallOf, TypeOK, CallTypeOK
  <2>3. /\ spent[i].attempts + Event(i).attempts \in 0..AttemptsBound
        /\ spent[i].units + 1 \in 0..MaxUnits /\ spent[i].units \in 0..MaxUnits
    BY <2>2, DealerAssumption DEF Event, AttemptsBound
  <2>4. spent' = [spent EXCEPT ![i] =
                   [attempts |-> spent[i].attempts + Event(i).attempts,
                    units |-> IF Event(i).consumed THEN spent[i].units + 1 ELSE spent[i].units]]
    BY <1>7 DEF ObserveUsage, TypeOK
  <2>5. spent' \in [Invocations -> [attempts : 0..AttemptsBound, units : 0..MaxUnits]]
    BY <2>3, <2>4 DEF TypeOK
  <2> QED
    BY <1>7, <2>1, <2>5 DEF ObserveUsage, TypeOK, LockTypeOK, Unheld
<1>8. ASSUME NEW i \in Invocations, StoreAnswer(i) PROVE TypeOK'
  <2>1. CallTypeOK' /\ pc' \in [Invocations -> Phases]
    BY <1>0, <1>8, <1>a, CallMoves DEF StoreAnswer, Phases
  <2>2. ticker[i] \in Tickers
    BY <1>8 DEF StoreAnswer, CallInv, CallOf
  <2>3. /\ ticker' \in [Invocations -> Tickers \union {NoTicker}]
        /\ asked' \in [Invocations -> Times]
    BY <1>8, Bounds DEF StoreAnswer, TypeOK
  <2>4. result' \in [Invocations -> [Tickers -> TickerResults]]
    BY <1>8, <1>d, <2>2 DEF StoreAnswer, PersistSurface, TickerResults
  <2>5. surfaces' \subseteq [ticker : Tickers, observed : Times, captured : Times]
    <3>1. ASSUME NEW observed \in 0..now
          PROVE  [ticker |-> ticker[i], observed |-> observed, captured |-> asked[i]]
                   \in [ticker : Tickers, observed : Times, captured : Times]
      BY <1>0, <2>2, <3>1, DealerAssumption DEF TypeOK, Times
    <3> QED
      BY <1>8, <3>1 DEF StoreAnswer, PersistSurface, TypeOK
  <2> QED
    BY <1>8, <2>1, <2>3, <2>4, <2>5 DEF StoreAnswer, TypeOK, LockTypeOK, Unheld
<1>9. ASSUME NEW i \in Invocations, NEW status \in RunStatuses, Finish(i, status) PROVE TypeOK'
  <2>1. /\ run' \in [Invocations -> RunStatuses]
        /\ reported' \in [Invocations -> 0..AttemptsBound]
        /\ returned' \in [Invocations -> Invocations \union {NoRunId}]
    BY <1>9 DEF Finish, TypeOK
  <2> QED
    BY <1>9, <1>a, <2>1 DEF Finish, TypeOK, LockTypeOK, CallTypeOK, Unheld, Phases
<1>10. ASSUME NEW i \in Invocations, CaptureRaises(i) PROVE TypeOK'
  <2>1. /\ run' \in [Invocations -> RunStatuses]
        /\ reported' \in [Invocations -> 0..AttemptsBound]
    BY <1>10 DEF CaptureRaises, TypeOK, RunStatuses
  <2> QED
    BY <1>10, <1>a, <2>1 DEF CaptureRaises, TypeOK, LockTypeOK, CallTypeOK, Unheld, Phases
<1>11. ASSUME NEW i \in Invocations, NEW c \in PoolOf[i], ReleaseLock(i, c) PROVE TypeOK'
  <2>1. LockTypeOK'
    BY <1>0, <1>11, <1>b, <1>c, LockKeepsType DEF ReleaseLock, LockTypeOK, Unheld
  <2> QED
    BY <1>11, <1>a, <2>1, DiscardType DEF ReleaseLock, TypeOK, Phases
<1>12. ASSUME NEW i \in Invocations, DatabaseFails(i) \/ Crash(i) PROVE TypeOK'
  <2>1. LockTypeOK'
    BY <1>0, <1>12, <1>b, LockKeepsType DEF DatabaseFails, Crash, LockTypeOK, Unheld
  <2>2. returned' \in [Invocations -> Invocations \union {NoRunId}]
    BY <1>12 DEF DatabaseFails, Crash, TypeOK
  <2>3. Discard(i) /\ Goto(i, "failed") /\ UNCHANGED <<severed, now, begun, run>>
    BY <1>12 DEF DatabaseFails, Crash
  <2> QED
    BY <1>a, <2>1, <2>2, <2>3, DiscardType DEF TypeOK, Phases
<1>13. ASSUME NEW i \in Invocations, Shutdown(i) PROVE TypeOK'
  <2>1. LockTypeOK'
    BY <1>0, <1>13, LockKeepsType DEF Shutdown, LockTypeOK, Unheld
  <2> QED
    BY <1>13, <2>1 DEF Shutdown, TypeOK, CallTypeOK
<1>14. CASE Tick
  <2>1. now' \in Times
    BY <1>0, <1>14, DealerAssumption DEF Tick, Times
  <2> QED
    BY <1>14, <2>1 DEF Tick, TypeOK, LockTypeOK, CallTypeOK, Unheld
<1>15. CASE Terminating \/ UNCHANGED vars
  BY <1>15 DEF Terminating, vars, TypeOK, LockTypeOK, CallTypeOK, Unheld
<1>16. ASSUME NEW i \in Invocations, FinishSkipped(i) \/ FinishCapture(i) PROVE TypeOK'
  BY <1>9, <1>16 DEF FinishSkipped, FinishCapture, RunStatus, RunStatuses
<1>17. ASSUME NEW c \in Conns, LoseIdleConn(c) PROVE TypeOK'
  <2>1. LockTypeOK'
    BY <1>0, <1>17, LockKeepsType DEF LoseIdleConn, DropIdle, LockTypeOK, Unheld
  <2> QED
    BY <1>17, <2>1 DEF LoseIdleConn, TypeOK, CallTypeOK
<1> QED
  BY <1>1, <1>2, <1>3, <1>4, <1>5, <1>6, <1>7, <1>8, <1>10, <1>11, <1>12, <1>13, <1>14, <1>15,
     <1>16, <1>17 DEF Next, Step

-----------------------------------------------------------------------------
(* One capture at a time *)

\* Only the loss of an idle connection severs captures.
LEMMA SeveredStep == [Next]_vars => severed' = severed \/ \E c \in Conns : LoseIdleConn(c)
  BY DEF Next, Step, Begin, TryLock, OpenRun, SkipTicker, AskTicker, RequestAttempt,
         ObserveUsage, StoreAnswer, FinishSkipped, FinishCapture, Finish, CaptureRaises,
         ReleaseLock, DatabaseFails, Crash, Shutdown, Tick, Terminating, vars

\* It severs those that capture with it, and no other has the lock.
LEMMA LossStep ==
  ASSUME TypeOK, ProcessInv, NEW c \in Conns, LoseIdleConn(c) PROVE ProcessInv'
<1>1. /\ lock.conn = c /\ UNCHANGED <<pc, at>> /\ c \notin {at[i] : i \in Invocations}
      /\ severed' = severed \union
                      {i \in Invocations : c \in PoolOf[i] /\ pc[i] \in {"open", "asking"}}
  BY DEF LoseIdleConn, DropIdle
<1>2. ASSUME NEW i \in Invocations, pc[i] = "locked" PROVE FALSE
  BY <1>1, <1>2 DEF ProcessInv
<1>3. ASSUME NEW i \in Invocations, pc[i] \in Capturing, i \notin severed' PROVE FALSE
  BY <1>1, <1>2, <1>3 DEF ProcessInv, Capturing
<1>4. \A i \in severed' : pc[i] \notin {"idle", "checked", "locked"}
  BY <1>1 DEF ProcessInv
<1> QED
  BY <1>1, <1>2, <1>3, <1>4 DEF ProcessInv

\* While an invocation captures with the lock, the others of its process rest, and those
\* of another process cannot move the lock of its pool.
LEMMA ProcessStep == TypeOK /\ ProcessInv /\ [Next]_vars => ProcessInv'
<1> SUFFICES ASSUME TypeOK, ProcessInv, [Next]_vars, severed' = severed PROVE ProcessInv'
  BY SeveredStep, LossStep
<1> USE DEF Capturing, Resting, Ended
<1>0. /\ pc \in [Invocations -> Phases] /\ at \in [Invocations -> Conns \union {NoConn}]
      /\ severed \subseteq Invocations
      /\ \A i \in Invocations : PoolOf[i] \subseteq Conns /\ NoConn \notin PoolOf[i]
      /\ \A i, j \in Invocations : PoolOf[i] = PoolOf[j] \/ PoolOf[i] \intersect PoolOf[j] = {}
      /\ LockTypeOK
  BY DealerAssumption DEF TypeOK, LockTypeOK
\* A step of one invocation that is not at rest, after which the lock, unless it was
\* that of its own pool, is where it was.
<1>a. ASSUME NEW i \in Invocations, pc[i] \notin Resting, pc'[i] # "idle",
             \A j \in Invocations \ {i} : pc'[j] = pc[j] /\ at'[j] = at[j],
             lock' = lock \/ lock.conn \in PoolOf[i] \/ lock.depth = 0,
             pc'[i] \in {"checked", "locked"} => at'[i] \in PoolOf[i] /\ i \notin severed,
             pc'[i] = "locked" => lock'.conn = at'[i],
             pc'[i] \in Capturing /\ i \notin severed =>
               lock'.conn \in PoolOf[i] /\ lock'.depth # 0
      PROVE  ProcessInv'
  <2>1. \A j \in Invocations : pc'[j] \notin Resting => pc[j] \notin Resting
    BY <1>a
  <2>2. ASSUME NEW j \in Invocations \ {i}, pc[j] \in Capturing, j \notin severed
        PROVE  lock' = lock
    <3>1. lock.conn \in PoolOf[j] /\ lock.depth # 0
      BY <2>2 DEF ProcessInv
    <3>2. PoolOf[i] # PoolOf[j]
      BY <1>a, <2>2 DEF ProcessInv
    <3> QED
      BY <1>0, <1>a, <3>1, <3>2
  <2>3. ASSUME NEW j \in Invocations, pc'[j] \in Capturing, j \notin severed
        PROVE  lock'.conn \in PoolOf[j] /\ lock'.depth # 0
    BY <1>a, <2>2, <2>3 DEF ProcessInv
  <2>4. ASSUME NEW j \in Invocations, pc'[j] = "locked" PROVE lock'.conn = at'[j]
    BY <1>a, <2>2, <2>4 DEF ProcessInv
  <2>5. \A j \in severed : pc'[j] \notin {"idle", "checked", "locked"}
    BY <1>0, <1>a DEF ProcessInv, TypeOK
  <2> QED
    BY <1>a, <2>1, <2>3, <2>4, <2>5 DEF ProcessInv
<1>b. ASSUME UNCHANGED <<pc, lock, at>> PROVE ProcessInv'
  BY <1>b DEF ProcessInv
<1>c. ASSUME NEW i \in Invocations, NEW c \in PoolOf[i], Unlock(c)
      PROVE  lock' = lock \/ lock.conn \in PoolOf[i]
  BY <1>c DEF Unlock
<1>d. ASSUME NEW i \in Invocations, CloseConns(PoolOf[i])
      PROVE  lock' = lock \/ lock.conn \in PoolOf[i]
  BY <1>d DEF CloseConns
<1>1. ASSUME NEW i \in Invocations, NEW c \in IdleConns(i), Begin(i, c) PROVE ProcessInv'
  <2>1. /\ pc[i] = "idle" /\ lock' = lock
        /\ \A j \in Invocations : PoolOf[j] = PoolOf[i] => pc[j] \in Resting
    BY <1>1 DEF Begin, SameProcess
  <2>2. CASE Reusable(i, now) # {}
    <3>1. UNCHANGED at /\ pc' = [pc EXCEPT ![i] = "done"]
      BY <1>1, <2>2 DEF Begin, Goto
    <3> QED
      BY <1>0, <2>1, <3>1 DEF ProcessInv
  <2>3. CASE Reusable(i, now) = {}
    <3>1. at' = [at EXCEPT ![i] = c] /\ pc' = [pc EXCEPT ![i] = "checked"] /\ c \in PoolOf[i]
      BY <1>1, <2>3 DEF Begin, Goto, CheckOut, IdleConns
    <3> QED
      BY <1>0, <2>1, <3>1 DEF ProcessInv
  <2> QED
    BY <2>2, <2>3
<1>2. ASSUME NEW i \in Invocations, TryLock(i) PROVE ProcessInv'
  <2>1. pc[i] = "checked" /\ at[i] \in PoolOf[i] /\ i \notin severed
    BY <1>2 DEF TryLock, ProcessInv
  <2>2. CASE MayLock(at[i])
    <3>1. Lock(at[i]) /\ Goto(i, "locked") /\ UNCHANGED at
      BY <1>2, <2>2 DEF TryLock
    <3>2. lock'.conn = at[i] /\ lock'.depth # 0
      BY <1>0, <3>1 DEF Lock, LockTypeOK, Unheld
    <3>3. lock.conn \in PoolOf[i] \/ lock.depth = 0
      BY <2>1, <2>2 DEF MayLock
    <3>4. pc'[i] = "locked" /\ \A j \in Invocations \ {i} : pc'[j] = pc[j]
      BY <1>0, <3>1 DEF Goto
    <3> QED
      BY <1>a, <2>1, <3>1, <3>2, <3>3, <3>4
  <2>3. CASE ~MayLock(at[i])
    <3>1. lock' = lock /\ pc'[i] = "refused"
          /\ \A j \in Invocations \ {i} : pc'[j] = pc[j] /\ at'[j] = at[j]
      BY <1>0, <1>2, <2>3 DEF TryLock, GiveBack, Goto
    <3> QED
      BY <1>a, <2>1, <3>1
  <2> QED
    BY <2>2, <2>3
<1>3. ASSUME NEW i \in Invocations, OpenRun(i) PROVE ProcessInv'
  <2>1. /\ pc[i] = "locked" /\ lock' = lock
        /\ lock.conn \in PoolOf[i] /\ lock.depth # 0 /\ i \notin severed
    BY <1>3 DEF OpenRun, ProcessInv
  <2>2. pc'[i] \in {"unlocking", "open"}
        /\ \A j \in Invocations \ {i} : pc'[j] = pc[j] /\ at'[j] = at[j]
    BY <1>0, <1>3 DEF OpenRun, GiveBack, Goto
  <2> QED
    BY <1>a, <2>1, <2>2
<1>4. ASSUME NEW i \in Invocations,
             \/ \E t \in Tickers : SkipTicker(i, t) \/ AskTicker(i, t)
             \/ RequestAttempt(i) \/ ObserveUsage(i) \/ StoreAnswer(i)
             \/ FinishSkipped(i) \/ FinishCapture(i) \/ CaptureRaises(i)
      PROVE  ProcessInv'
  <2>1. pc[i] \in {"open", "asking"} /\ UNCHANGED <<lock, at>>
    BY <1>4 DEF SkipTicker, AskTicker, RequestAttempt, ObserveUsage, StoreAnswer,
                FinishSkipped, FinishCapture, Finish, CaptureRaises, lockVars
  <2>2. i \notin severed => lock.conn \in PoolOf[i] /\ lock.depth # 0
    BY <2>1 DEF ProcessInv
  <2>3. pc'[i] \in {"open", "asking", "unlocking"}
        /\ \A j \in Invocations \ {i} : pc'[j] = pc[j]
    BY <1>0, <1>4 DEF SkipTicker, AskTicker, RequestAttempt, ObserveUsage, StoreAnswer,
                FinishSkipped, FinishCapture, Finish, CaptureRaises, Goto
  <2> QED
    BY <1>a, <2>1, <2>2, <2>3
<1>5. ASSUME NEW i \in Invocations, NEW c \in PoolOf[i], ReleaseLock(i, c) PROVE ProcessInv'
  <2>1. /\ pc[i] = "unlocking" /\ pc'[i] \in Ended
        /\ \A j \in Invocations \ {i} : pc'[j] = pc[j] /\ at'[j] = at[j]
    BY <1>0, <1>5 DEF ReleaseLock, GiveBack, Goto
  <2> QED
    BY <1>5, <1>a, <1>c, <2>1 DEF ReleaseLock
<1>6. ASSUME NEW i \in Invocations, DatabaseFails(i) \/ Crash(i) PROVE ProcessInv'
  <2>1. /\ pc[i] \notin Resting /\ pc'[i] = "failed"
        /\ \A j \in Invocations \ {i} : pc'[j] = pc[j] /\ at'[j] = at[j]
    BY <1>0, <1>6 DEF DatabaseFails, Crash, GiveBack, Goto
  <2>2. lock' = lock \/ CloseConns(PoolOf[i])
    BY <1>6 DEF DatabaseFails, Crash
  <2> QED
    BY <1>a, <1>d, <2>1, <2>2
<1>7. ASSUME NEW i \in Invocations, Shutdown(i) PROVE ProcessInv'
  <2>1. /\ UNCHANGED <<pc, at>> /\ CloseConns(PoolOf[i])
        /\ \A j \in Invocations : PoolOf[j] = PoolOf[i] => pc[j] \in Resting
    BY <1>7 DEF Shutdown, SameProcess
  <2>2. ASSUME NEW j \in Invocations, pc[j] \in Capturing, j \notin severed
        PROVE  lock' = lock
    <3>1. lock.conn \in PoolOf[j] /\ PoolOf[i] # PoolOf[j]
      BY <2>1, <2>2 DEF ProcessInv
    <3> QED
      BY <1>0, <1>d, <2>1, <3>1
  <2> QED
    BY <2>1, <2>2 DEF ProcessInv
<1>8. CASE Tick \/ Terminating \/ UNCHANGED vars
  BY <1>8, <1>b DEF Tick, Terminating, vars, lockVars
<1>9. CASE \E c \in Conns : LoseIdleConn(c)
  BY <1>9, LossStep
<1> QED
  BY <1>1, <1>2, <1>3, <1>4, <1>5, <1>6, <1>7, <1>8, <1>9 DEF Next, Step

\* That is all it takes.
LEMMA CapturesExclude == ProcessInv => OneCaptureAtATime
<1> SUFFICES ASSUME ProcessInv, NEW i \in Invocations \ severed, NEW j \in Invocations \ severed,
                    pc[i] \in Capturing, pc[j] \in Capturing
             PROVE  i = j
  BY DEF OneCaptureAtATime, Capturing
<1>1. lock.conn \in PoolOf[i] /\ lock.conn \in PoolOf[j]
  BY DEF ProcessInv
<1>2. PoolOf[i] = PoolOf[j]
  BY <1>1, DealerAssumption
<1> QED
  BY <1>2 DEF ProcessInv, Capturing, Resting, Ended

-----------------------------------------------------------------------------
(* What a request costs *)

\* Every attempt is accounted for: the totals take over what the call has counted.
LEMMA CallStep == TypeOK /\ CallInv /\ [Next]_vars => CallInv'
<1> SUFFICES ASSUME TypeOK, CallInv, [Next]_vars PROVE CallInv'
  OBVIOUS
<1> USE DEF callVars, lockVars, captureVars
<1>0. /\ pc \in [Invocations -> Phases] /\ CallTypeOK
      /\ wire \in [Invocations -> Nat]
      /\ \A i \in Invocations : spent[i].attempts \in Nat /\ spent[i].units \in Nat
      /\ spent \in [Invocations -> [attempts : 0..AttemptsBound, units : 0..MaxUnits]]
      /\ ticker \in [Invocations -> Tickers \union {NoTicker}]
      /\ \A i \in Invocations : call[i].attempts \in Nat
      /\ MaxRetries \in Nat
  BY DealerAssumption DEF TypeOK, CallTypeOK
\* A step of one invocation.
<1>a. ASSUME NEW i \in Invocations, CallOf(i)',
             \A j \in Invocations \ {i} :
               /\ pc'[j] = pc[j] /\ spent'[j] = spent[j] /\ ticker'[j] = ticker[j]
               /\ call'[j] = call[j] /\ wire'[j] = wire[j]
      PROVE  CallInv'
  BY <1>a DEF CallInv, CallOf
<1>b. ASSUME NEW i \in Invocations, UNCHANGED <<spent, ticker, call, wire>>,
             NEW phase \in Phases, Goto(i, phase),
             \/ pc[i] \in {"idle", "checked", "locked"} /\ phase \in {"checked", "locked", "open"}
             \/ phase \in Ended \union {"unlocking"}
      PROVE  CallInv'
  <2>1. pc'[i] = phase /\ \A j \in Invocations \ {i} : pc'[j] = pc[j]
    BY <1>0, <1>b DEF Goto
  <2>2. CallOf(i)'
    BY <1>b, <2>1 DEF CallInv, CallOf, Ended, NothingSpent
  <2> QED
    BY <1>a, <1>b, <2>1, <2>2
<1>1. ASSUME NEW i \in Invocations, NEW c \in IdleConns(i), Begin(i, c) PROVE CallInv'
  <2>1. \E phase \in {"checked", "done"} : Goto(i, phase)
    BY <1>1 DEF Begin
  <2> QED
    BY <1>1, <1>b, <2>1 DEF Begin, Phases, Ended
<1>2. ASSUME NEW i \in Invocations, TryLock(i) PROVE CallInv'
  <2>1. \E phase \in {"locked", "refused"} : Goto(i, phase)
    BY <1>2 DEF TryLock
  <2> QED
    BY <1>2, <1>b, <2>1 DEF TryLock, Phases, Ended
<1>3. ASSUME NEW i \in Invocations, OpenRun(i) PROVE CallInv'
  <2>1. \E phase \in {"open", "unlocking"} : Goto(i, phase)
    BY <1>3 DEF OpenRun
  <2> QED
    BY <1>3, <1>b, <2>1 DEF OpenRun, Phases, Ended
<1>4. ASSUME NEW i \in Invocations, NEW t \in Tickers, SkipTicker(i, t) PROVE CallInv'
  BY <1>4 DEF SkipTicker, CallInv, CallOf
<1>5. ASSUME NEW i \in Invocations, NEW t \in Tickers, AskTicker(i, t) PROVE CallInv'
  <2>1. /\ call'[i].phase = "sending" /\ call'[i].attempts = 0 /\ wire' = wire
        /\ \A j \in Invocations \ {i} : call'[j] = call[j]
    BY <1>0, <1>5, CallMoves DEF AskTicker
  <2>2. /\ ticker'[i] = t /\ pc'[i] = "asking" /\ pc[i] = "open" /\ spent' = spent
        /\ \A j \in Invocations \ {i} : ticker'[j] = ticker[j] /\ pc'[j] = pc[j]
    BY <1>0, <1>5 DEF AskTicker, Goto
  <2>3. spent[i].attempts < MaxAttempts /\ spent[i].units < MaxUnits
    BY <1>0, <1>5, DealerAssumption DEF AskTicker, Spent
  <2>4. CallOf(i)'
    BY <1>0, <2>1, <2>2, <2>3 DEF CallInv, CallOf
  <2> QED
    BY <1>a, <2>1, <2>2, <2>4
<1>6. ASSUME NEW i \in Invocations, RequestAttempt(i) PROVE CallInv'
  <2>1. /\ pc[i] = "asking" /\ call[i].phase = "sending" /\ call[i].attempts <= MaxRetries
        /\ UNCHANGED <<pc, spent, ticker>>
    BY <1>6 DEF RequestAttempt, Attempt, AttemptAnswered, AttemptLost, AttemptBreaks, CallInv,
                CallOf
  <2>2. /\ wire' = [wire EXCEPT ![i] = @ + 1]
        /\ \A j \in Invocations \ {i} : call'[j] = call[j]
        /\ \/ call'[i].phase = "broken" /\ call'[i].attempts = call[i].attempts
           \/ /\ call'[i].phase \in {"sending", "closing"}
              /\ call'[i].attempts = call[i].attempts + 1
              /\ call'[i].phase = "sending" => call'[i].attempts <= MaxRetries
    BY <1>0, <1>6, <2>1, AttemptKeepsType DEF RequestAttempt
  <2>3. wire'[i] = wire[i] + 1 /\ \A j \in Invocations \ {i} : wire'[j] = wire[j]
    BY <1>0, <2>2
  <2>4. /\ ticker[i] \in Tickers /\ wire[i] = spent[i].attempts + call[i].attempts
        /\ spent[i].attempts < MaxAttempts /\ spent[i].units < MaxUnits
    BY <2>1 DEF CallInv, CallOf
  <2>5. wire'[i] \in Nat /\ spent[i].attempts \in Nat /\ call[i].attempts \in Nat
    BY <1>0, <2>3
  <2>6. CallOf(i)'
    BY <1>0, <2>1, <2>2, <2>3, <2>4, <2>5 DEF CallOf
  <2> QED
    BY <1>a, <2>1, <2>2, <2>3, <2>6
<1>7. ASSUME NEW i \in Invocations, ObserveUsage(i) PROVE CallInv'
  <2>1. /\ pc[i] = "asking" /\ call[i].phase = "closing" /\ UNCHANGED <<pc, ticker>>
        /\ call'[i].phase \in {"result", "error"} /\ wire' = wire
        /\ \A j \in Invocations \ {i} : call'[j] = call[j]
    BY <1>0, <1>7, CallMoves DEF ObserveUsage, Observe
  <2>2. /\ spent'[i].attempts = spent[i].attempts + call[i].attempts
        /\ \A j \in Invocations \ {i} : spent'[j] = spent[j]
    BY <1>0, <1>7 DEF ObserveUsage, Event
  <2>3. CallOf(i)'
    BY <2>1, <2>2 DEF CallInv, CallOf
  <2> QED
    BY <1>a, <2>1, <2>2, <2>3
<1>8. ASSUME NEW i \in Invocations, StoreAnswer(i) PROVE CallInv'
  <2>1. /\ pc[i] = "asking" /\ pc'[i] = "open" /\ spent' = spent /\ wire' = wire
        /\ call[i].phase \in {"result", "error"}
        /\ \A j \in Invocations \ {i} : pc'[j] = pc[j] /\ ticker'[j] = ticker[j]
    BY <1>0, <1>8 DEF StoreAnswer, ForgetCall, Goto
  <2>2. \A j \in Invocations \ {i} : call'[j] = call[j]
    BY <1>0, <1>8, CallMoves DEF StoreAnswer
  <2>3. CallOf(i)'
    BY <2>1 DEF CallInv, CallOf
  <2> QED
    BY <1>a, <2>1, <2>2, <2>3
<1>9. ASSUME NEW i \in Invocations, FinishSkipped(i) \/ FinishCapture(i) \/ CaptureRaises(i)
      PROVE  CallInv'
  <2>1. Goto(i, "unlocking") /\ UNCHANGED <<spent, ticker, call, wire>>
    BY <1>9 DEF FinishSkipped, FinishCapture, Finish, CaptureRaises
  <2> QED
    BY <1>b, <2>1 DEF Phases
<1>10. ASSUME NEW i \in Invocations, Discard(i), NEW phase \in Ended, Goto(i, phase)
       PROVE  CallInv'
  <2>1. /\ pc'[i] = phase
        /\ \A j \in Invocations \ {i} : /\ pc'[j] = pc[j] /\ spent'[j] = spent[j]
                                        /\ ticker'[j] = ticker[j]
    BY <1>0, <1>10 DEF Discard, Goto
  <2>2. \A j \in Invocations \ {i} : call'[j] = call[j] /\ wire'[j] = wire[j]
    BY <1>0, <1>10, CallMoves DEF Discard
  <2>3. CallOf(i)'
    BY <2>1 DEF CallOf, Ended
  <2> QED
    BY <1>a, <2>1, <2>2, <2>3
<1>11. ASSUME NEW i \in Invocations, NEW c \in PoolOf[i], ReleaseLock(i, c) PROVE CallInv'
  <2>1. Discard(i) /\ \E phase \in Ended : Goto(i, phase)
    BY <1>11 DEF ReleaseLock, Ended
  <2> QED
    BY <1>10, <2>1
<1>12. ASSUME NEW i \in Invocations, DatabaseFails(i) \/ Crash(i) PROVE CallInv'
  BY <1>10, <1>12 DEF DatabaseFails, Crash, Ended
<1>13. ASSUME NEW i \in Invocations, Shutdown(i) PROVE CallInv'
  BY <1>13 DEF Shutdown, CallInv, CallOf
<1>14. CASE Tick \/ Terminating \/ UNCHANGED vars \/ \E c \in Conns : LoseIdleConn(c)
  BY <1>14 DEF Tick, Terminating, LoseIdleConn, vars, CallInv, CallOf
<1> QED
  BY <1>1, <1>2, <1>3, <1>4, <1>5, <1>6, <1>7, <1>8, <1>9, <1>11, <1>12, <1>13, <1>14
     DEF Next, Step

-----------------------------------------------------------------------------
(* What a run leaves behind *)

\* A run changes only while its invocation captures, and ends COMPLETE only when every
\* ticker is captured; its time is read once; nothing leaves the archive.
RunMoves ==
  /\ \A k \in Invocations : run'[k] # run[k] =>
       /\ pc[k] \in Capturing /\ pc'[k] \in {"open", "unlocking"}
       /\ run'[k] = "COMPLETE" => /\ pc[k] = "open" /\ pc'[k] = "unlocking"
                                  /\ \A t \in Tickers : result[k][t] = "CAPTURED"
  /\ \A k \in Invocations : begun'[k] # begun[k] => pc[k] = "idle"
  /\ surfaces \subseteq surfaces'

LEMMA RunStep == TypeOK /\ [Next]_vars => RunMoves
<1> SUFFICES ASSUME TypeOK, [Next]_vars PROVE RunMoves
  OBVIOUS
<1> USE DEF captureVars, Capturing
<1>0. /\ pc \in [Invocations -> Phases] /\ run \in [Invocations -> RunStatuses]
      /\ begun \in [Invocations -> Times]
  BY DEF TypeOK
<1>1. ASSUME NEW i \in Invocations, NEW c \in IdleConns(i), Begin(i, c)
      PROVE  pc[i] = "idle" /\ UNCHANGED <<run, surfaces>> /\ begun' = [begun EXCEPT ![i] = now]
  BY <1>1 DEF Begin
<1>2. ASSUME NEW i \in Invocations, OpenRun(i)
      PROVE  /\ UNCHANGED <<begun, surfaces>> /\ pc[i] = "locked"
             /\ \/ run' = run
                \/ run' = [run EXCEPT ![i] = "RUNNING"] /\ pc' = [pc EXCEPT ![i] = "open"]
  BY <1>2 DEF OpenRun, Goto
<1>3. ASSUME NEW i \in Invocations, StoreAnswer(i)
      PROVE  UNCHANGED <<run, begun>> /\ surfaces \subseteq surfaces'
  BY <1>3 DEF StoreAnswer, PersistSurface
<1>4. ASSUME NEW i \in Invocations, FinishSkipped(i) \/ FinishCapture(i) \/ CaptureRaises(i)
      PROVE  /\ UNCHANGED <<begun, surfaces>> /\ pc[i] \in {"open", "asking"}
             /\ pc' = [pc EXCEPT ![i] = "unlocking"]
             /\ \E status : /\ run' = [run EXCEPT ![i] = status]
                            /\ status = "COMPLETE" =>
                                 /\ pc[i] = "open"
                                 /\ \A t \in Tickers : result[i][t] = "CAPTURED"
  BY <1>4 DEF FinishSkipped, FinishCapture, Finish, CaptureRaises, Goto, RunStatus
<1>5. ASSUME NEW i \in Invocations,
             \/ TryLock(i)
             \/ \E t \in Tickers : SkipTicker(i, t) \/ AskTicker(i, t)
             \/ RequestAttempt(i) \/ ObserveUsage(i)
             \/ \E c \in PoolOf[i] : ReleaseLock(i, c)
             \/ DatabaseFails(i) \/ Crash(i) \/ Shutdown(i)
      PROVE  UNCHANGED <<run, begun, surfaces>>
  BY <1>5 DEF TryLock, SkipTicker, AskTicker, RequestAttempt, ObserveUsage, ReleaseLock,
              DatabaseFails, Crash, Shutdown, Discard
<1>6. CASE Tick \/ Terminating \/ UNCHANGED vars \/ \E c \in Conns : LoseIdleConn(c)
  BY <1>6 DEF Tick, Terminating, LoseIdleConn, vars, RunMoves
<1>7. ASSUME UNCHANGED <<run, begun>>, surfaces \subseteq surfaces' PROVE RunMoves
  BY <1>7 DEF RunMoves
<1>8. ASSUME NEW i \in Invocations, OpenRun(i) PROVE RunMoves
  BY <1>0, <1>2, <1>8 DEF RunMoves
<1>9. ASSUME NEW i \in Invocations, FinishSkipped(i) \/ FinishCapture(i) \/ CaptureRaises(i)
      PROVE  RunMoves
  BY <1>0, <1>4, <1>9 DEF RunMoves
<1>10. ASSUME NEW i \in Invocations, NEW c \in IdleConns(i), Begin(i, c) PROVE RunMoves
  BY <1>0, <1>1, <1>10 DEF RunMoves
<1> QED
  BY <1>3, <1>5, <1>6, <1>7, <1>8, <1>9, <1>10 DEF Next, Step

\* A ticker result outlives neither the run nor the observation it stands for.
LEMMA ResultStep == TypeOK /\ ResultInv /\ [Next]_vars => ResultInv'
<1> SUFFICES ASSUME TypeOK, ResultInv, [Next]_vars PROVE ResultInv'
  OBVIOUS
<1> USE DEF captureVars, Capturing
<1>0. /\ pc \in [Invocations -> Phases] /\ RunMoves
      /\ result \in [Invocations -> [Tickers -> TickerResults]]
      /\ returned \in [Invocations -> Invocations \union {NoRunId}]
  BY RunStep DEF TypeOK
\* A step of one invocation, by what it does to its results and to what it returns.
<1>a. ASSUME NEW i \in Invocations,
             \A j \in Invocations \ {i} : /\ pc'[j] = pc[j] /\ result'[j] = result[j]
                                          /\ returned'[j] = returned[j],
             \A t \in Tickers : result'[i][t] = "CAPTURED" =>
                                  result[i][t] = "CAPTURED" \/ \E s \in surfaces' : s.ticker = t,
             pc[i] \in {"unlocking", "done", "failed"} =>
               pc'[i] \in {"unlocking", "done", "failed"},
             pc'[i] \in Capturing \union {"idle", "checked"} => returned'[i] = NoRunId
      PROVE  ResultInv'
  <2>1. ASSUME NEW j \in Invocations, NEW t \in Tickers, result'[j][t] = "CAPTURED"
        PROVE  \E s \in surfaces' : s.ticker = t
    BY <1>0, <1>a, <2>1 DEF ResultInv, RunMoves
  <2>2. ASSUME NEW j \in Invocations, run'[j] = "COMPLETE"
        PROVE  pc'[j] \in {"unlocking", "done", "failed"}
    BY <1>0, <1>a, <2>2 DEF ResultInv, RunMoves
  <2> QED
    BY <1>a, <2>1, <2>2 DEF ResultInv
<1>1. ASSUME NEW i \in Invocations, NEW c \in IdleConns(i), Begin(i, c) PROVE ResultInv'
  <2>1. CASE Reusable(i, now) # {}
    <3>1. /\ pc[i] = "idle" /\ pc' = [pc EXCEPT ![i] = "done"] /\ result' = result
          /\ \A j \in Invocations \ {i} : returned'[j] = returned[j]
      BY <1>0, <1>1, <2>1 DEF Begin, Goto
    <3> QED
      BY <1>0, <1>a, <3>1
  <2>2. CASE Reusable(i, now) = {}
    <3>1. /\ pc[i] = "idle" /\ pc' = [pc EXCEPT ![i] = "checked"]
          /\ result' = result /\ returned' = returned
      BY <1>1, <2>2 DEF Begin, Goto
    <3> QED
      BY <1>0, <1>a, <3>1 DEF ResultInv
  <2> QED
    BY <2>1, <2>2
<1>2. ASSUME NEW i \in Invocations, TryLock(i) PROVE ResultInv'
  <2>1. /\ pc[i] = "checked" /\ pc'[i] \in {"locked", "refused"}
        /\ \A j \in Invocations \ {i} : pc'[j] = pc[j]
        /\ result' = result /\ returned' = returned
    BY <1>0, <1>2 DEF TryLock, Goto
  <2> QED
    BY <1>a, <2>1 DEF ResultInv
<1>3. ASSUME NEW i \in Invocations, OpenRun(i) PROVE ResultInv'
  <2>1. /\ pc[i] = "locked" /\ result' = result
        /\ \/ pc' = [pc EXCEPT ![i] = "unlocking"]
           \/ pc' = [pc EXCEPT ![i] = "open"] /\ returned' = returned
        /\ \A j \in Invocations \ {i} : returned'[j] = returned[j]
    BY <1>0, <1>3 DEF OpenRun, Goto
  <2> QED
    BY <1>0, <1>a, <2>1 DEF ResultInv
<1>4. ASSUME NEW i \in Invocations, NEW t \in Tickers, SkipTicker(i, t) PROVE ResultInv'
  <2>1. /\ pc' = pc /\ returned' = returned
        /\ result' = [result EXCEPT ![i][t] = "BUDGET_NOT_ATTEMPTED"]
    BY <1>4 DEF SkipTicker, Record
  <2> QED
    BY <1>0, <1>a, <2>1 DEF ResultInv
<1>5. ASSUME NEW i \in Invocations, NEW t \in Tickers, AskTicker(i, t) PROVE ResultInv'
  <2>1. /\ pc[i] = "open" /\ pc' = [pc EXCEPT ![i] = "asking"]
        /\ result' = result /\ returned' = returned
    BY <1>5 DEF AskTicker, Goto
  <2> QED
    BY <1>0, <1>a, <2>1 DEF ResultInv
<1>6. ASSUME NEW i \in Invocations, StoreAnswer(i) PROVE ResultInv'
  <2>1. pc[i] = "asking" /\ pc' = [pc EXCEPT ![i] = "open"] /\ returned' = returned
    BY <1>6 DEF StoreAnswer, Goto
  <2>2. \A t \in Tickers : result'[i][t] = "CAPTURED" =>
          result[i][t] = "CAPTURED" \/ \E s \in surfaces' : s.ticker = t
    <3>1. ASSUME NEW usable \in BOOLEAN, NEW observed, PersistSurface(i, usable, observed),
                 NEW t \in Tickers, result'[i][t] = "CAPTURED", result[i][t] # "CAPTURED"
          PROVE  \E s \in surfaces' : s.ticker = t
      <4>1. t = ticker[i] /\ usable
        BY <1>0, <3>1 DEF PersistSurface, Record
      <4>2. CASE Archived(ticker[i], observed)
        BY <3>1, <4>1, <4>2 DEF PersistSurface, Archived
      <4>3. CASE ~Archived(ticker[i], observed)
        <5> DEFINE s == [ticker |-> ticker[i], observed |-> observed, captured |-> asked[i]]
        <5>1. s \in surfaces'
          BY <3>1, <4>1, <4>3 DEF PersistSurface
        <5>2. s.ticker = t
          BY <4>1
        <5> QED
          BY <5>1, <5>2
      <4> QED
        BY <4>2, <4>3
    <3>2. ASSUME Record(i, ticker[i], "FAILED"), NEW t \in Tickers, result'[i][t] = "CAPTURED"
          PROVE  result[i][t] = "CAPTURED"
      BY <1>0, <3>2 DEF Record
    <3> QED
      BY <1>6, <3>1, <3>2 DEF StoreAnswer, MayBeUsable
  <2>3. \A j \in Invocations \ {i} : result'[j] = result[j]
    BY <1>0, <1>6 DEF StoreAnswer, PersistSurface, Record
  <2> QED
    BY <1>0, <1>a, <2>1, <2>2, <2>3 DEF ResultInv
<1>7. ASSUME NEW i \in Invocations, FinishSkipped(i) \/ FinishCapture(i) \/ CaptureRaises(i)
      PROVE  ResultInv'
  <2>1. /\ pc' = [pc EXCEPT ![i] = "unlocking"] /\ result' = result
        /\ \A j \in Invocations \ {i} : returned'[j] = returned[j]
    BY <1>0, <1>7 DEF FinishSkipped, FinishCapture, Finish, CaptureRaises, Goto
  <2> QED
    BY <1>0, <1>a, <2>1
<1>8. ASSUME NEW i \in Invocations, Discard(i), NEW phase \in {"done", "failed"}, Goto(i, phase),
             \A j \in Invocations \ {i} : returned'[j] = returned[j]
      PROVE  ResultInv'
  <2>1. result' = [result EXCEPT ![i] = NoResults] /\ pc' = [pc EXCEPT ![i] = phase]
    BY <1>8 DEF Discard, Goto
  <2>2. \A t \in Tickers : result'[i][t] # "CAPTURED"
    BY <1>0, <2>1 DEF NoResults
  <2> QED
    BY <1>0, <1>8, <1>a, <2>1, <2>2
<1>9. ASSUME NEW i \in Invocations, NEW c \in PoolOf[i], ReleaseLock(i, c) PROVE ResultInv'
  <2>1. Discard(i) /\ returned' = returned /\ \E phase \in {"done", "failed"} : Goto(i, phase)
    BY <1>9 DEF ReleaseLock
  <2> QED
    BY <1>8, <2>1
<1>10. ASSUME NEW i \in Invocations, DatabaseFails(i) \/ Crash(i) PROVE ResultInv'
  <2>1. /\ Discard(i) /\ Goto(i, "failed")
        /\ \A j \in Invocations \ {i} : returned'[j] = returned[j]
    BY <1>0, <1>10 DEF DatabaseFails, Crash
  <2> QED
    BY <1>8, <2>1
<1>11. ASSUME UNCHANGED <<pc, run, result, surfaces, returned>> PROVE ResultInv'
  BY <1>11 DEF ResultInv
<1>12. ASSUME NEW i \in Invocations, RequestAttempt(i) \/ ObserveUsage(i) \/ Shutdown(i)
       PROVE  ResultInv'
  BY <1>11, <1>12 DEF RequestAttempt, ObserveUsage, Shutdown
<1>13. CASE Tick \/ Terminating \/ UNCHANGED vars \/ \E c \in Conns : LoseIdleConn(c)
  BY <1>11, <1>13 DEF Tick, Terminating, LoseIdleConn, vars
<1> QED
  BY <1>1, <1>2, <1>3, <1>4, <1>5, <1>6, <1>7, <1>9, <1>10, <1>12, <1>13 DEF Next, Step

-----------------------------------------------------------------------------
(* The slot of a day *)

\* The slot that a capture found free under the lock stays free: only another capture
\* could consume it, and there is none.
LEMMA SlotStep == TypeOK /\ ProcessInv /\ ResultInv /\ SlotInv /\ [Next]_vars => SlotInv'
<1> SUFFICES ASSUME TypeOK, ProcessInv, ResultInv, SlotInv, [Next]_vars,
                    NEW j \in Invocations, pc'[j] \in {"open", "asking"},
                    NEW k \in Invocations, ShouldCapture(j, begun'[j]),
                    Suppresses(k, begun[j])', j \notin severed', k \notin severed'
             PROVE  FALSE
  BY DEF SlotInv, Reusable
<1>s. severed \subseteq severed'
  BY SeveredStep DEF LoseIdleConn
<1>0. pc \in [Invocations -> Phases] /\ run \in [Invocations -> RunStatuses] /\ RunMoves
  BY RunStep DEF TypeOK
<1>1. CASE \E i \in Invocations : OpenRun(i) /\ pc[j] \notin {"open", "asking"}
  <2>1. PICK i \in Invocations : OpenRun(i)
    BY <1>1
  <2>2. i = j /\ pc[j] = "locked" /\ Reusable(j, begun[j]) = {} /\ begun' = begun
        /\ run' = [run EXCEPT ![j] = "RUNNING"]
    BY <1>0, <1>1, <2>1 DEF OpenRun, Goto
  <2>3. run[k] = "COMPLETE"
    BY <1>0, <2>2 DEF Suppresses
  <2> QED
    BY <2>2, <2>3 DEF Suppresses, Reusable
<1>2. CASE pc[j] \in {"open", "asking"}
  <2>1. k \notin Reusable(j, begun[j]) /\ begun'[j] = begun[j]
    BY <1>0, <1>2, <1>s DEF SlotInv, RunMoves
  <2>2. CASE run[k] = "COMPLETE"
    <3>1. begun'[k] = begun[k]
      BY <1>0, <2>2 DEF ResultInv, RunMoves
    <3> QED
      BY <2>1, <2>2, <3>1 DEF Suppresses, Reusable
  <2>3. CASE run[k] # "COMPLETE"
    <3>1. pc[k] = "open" /\ pc'[k] = "unlocking"
      BY <1>0, <2>3 DEF Suppresses, RunMoves
    <3>2. k = j
      BY <1>2, <1>s, <3>1, CapturesExclude DEF OneCaptureAtATime
    <3> QED
      BY <3>1, <3>2
  <2> QED
    BY <2>2, <2>3
<1>3. CASE \A i \in Invocations : ~OpenRun(i)
  <2>1. pc[j] \in {"open", "asking"}
    BY <1>0, <1>3 DEF Next, Step, Begin, TryLock, SkipTicker, AskTicker, RequestAttempt,
         ObserveUsage, StoreAnswer, FinishSkipped, FinishCapture, Finish, CaptureRaises,
         ReleaseLock, DatabaseFails, Crash, Shutdown, LoseIdleConn, Tick, Terminating, vars, Goto
  <2> QED
    BY <1>2, <2>1
<1> QED
  BY <1>1, <1>2, <1>3

\* A summary that is returned as another run's stays that of a COMPLETE run.
LEMMA BackedStep ==
  TypeOK /\ ResultInv /\ ReusedRunIsBacked /\ [Next]_vars => ReusedRunIsBacked'
<1> SUFFICES ASSUME TypeOK, ResultInv, ReusedRunIsBacked, [Next]_vars
             PROVE  ReusedRunIsBacked'
  OBVIOUS
<1>0. /\ pc \in [Invocations -> Phases] /\ run \in [Invocations -> RunStatuses] /\ RunMoves
      /\ returned \in [Invocations -> Invocations \union {NoRunId}]
      /\ begun \in [Invocations -> Times]
  BY RunStep DEF TypeOK
<1>1. ASSUME NEW i \in Invocations, run'[i] = "COMPLETE", NEW t \in Tickers
      PROVE  \E s \in surfaces' : s.ticker = t
  <2>1. \E s \in surfaces : s.ticker = t
    BY <1>0, <1>1 DEF ReusedRunIsBacked, ResultInv, RunMoves
  <2> QED
    BY <1>0, <2>1 DEF RunMoves
\* A COMPLETE run stays so, with its time.
<1>2. ASSUME NEW j \in Invocations, run[j] = "COMPLETE"
      PROVE  run'[j] = "COMPLETE" /\ begun'[j] = begun[j]
  BY <1>0, <1>2 DEF ResultInv, RunMoves, Capturing
<1>3. ASSUME NEW i \in Invocations, returned'[i] \notin {NoRunId, i}
      PROVE  /\ run'[returned'[i]] = "COMPLETE"
             /\ Day(begun'[returned'[i]]) = Day(begun'[i])
             /\ begun'[returned'[i]] >= IntendedAt(begun'[i])
  <2>1. CASE returned'[i] = returned[i]
    <3>1. /\ returned[i] \in Invocations /\ run[returned[i]] = "COMPLETE"
          /\ Day(begun[returned[i]]) = Day(begun[i])
          /\ begun[returned[i]] >= IntendedAt(begun[i])
      BY <1>0, <1>3, <2>1 DEF ReusedRunIsBacked
    <3>2. begun'[i] = begun[i]
      BY <1>0, <1>3, <2>1 DEF ResultInv, RunMoves
    <3> QED
      BY <1>2, <2>1, <3>1, <3>2
  <2>2. CASE returned'[i] # returned[i]
    <3>1. \/ /\ Reusable(i, now) # {} /\ \E c \in IdleConns(i) : Begin(i, c)
          \/ OpenRun(i) /\ Reusable(i, begun[i]) # {}
      BY <1>0, <1>3, <2>2
         DEF Next, Step, Begin, TryLock, OpenRun, SkipTicker, AskTicker, RequestAttempt,
         ObserveUsage, StoreAnswer, FinishSkipped, FinishCapture, Finish, CaptureRaises,
         ReleaseLock, DatabaseFails, Crash, Shutdown, LoseIdleConn, Tick, Terminating, vars, captureVars
    <3>2. /\ begun'[i] \in Times /\ returned'[i] \in Invocations
          /\ Suppresses(returned'[i], begun'[i])
      <4>1. CASE Reusable(i, now) # {} /\ \E c \in IdleConns(i) : Begin(i, c)
        <5>1. PICK j \in Reusable(i, now) : returned' = [returned EXCEPT ![i] = j]
          BY <4>1 DEF Begin
        <5>2. begun'[i] = now /\ now \in Times
          BY <1>0, <4>1 DEF Begin, TypeOK
        <5> QED
          BY <1>0, <5>1, <5>2 DEF Reusable
      <4>2. CASE OpenRun(i) /\ Reusable(i, begun[i]) # {}
        <5>1. PICK j \in Reusable(i, begun[i]) : returned' = [returned EXCEPT ![i] = j]
          BY <4>2 DEF OpenRun
        <5>2. begun' = begun
          BY <4>2 DEF OpenRun
        <5> QED
          BY <1>0, <5>1, <5>2 DEF Reusable
      <4> QED
        BY <3>1, <4>1, <4>2
    <3> QED
      BY <1>2, <3>2 DEF Suppresses
  <2> QED
    BY <2>1, <2>2
<1> QED
  BY <1>1, <1>3 DEF ReusedRunIsBacked

-----------------------------------------------------------------------------
(* Theorems *)

LEMMA InitInv == Init => IInv
<1> SUFFICES ASSUME Init PROVE IInv
  OBVIOUS
<1>1. CallTypeOK /\ LockTypeOK
  BY DealerAssumption DEF Init, CallInit, LockInit, CallTypeOK, LockTypeOK, NoCall, CallPhases
<1>2. TypeOK
  BY <1>1, Bounds DEF Init, TypeOK, Phases, RunStatuses
<1>3. ProcessInv /\ CallInv
  BY DEF Init, CallInit, ProcessInv, CallInv, CallOf, Resting, Capturing
<1>4. SlotInv /\ ReusedRunIsBacked /\ ResultInv
  BY DEF Init, ResultInv, SlotInv, ReusedRunIsBacked, NoResults
<1> QED
  BY <1>2, <1>3, <1>4 DEF IInv

LEMMA StepInv == IInv /\ [Next]_vars => IInv'
  BY TypeStep, ProcessStep, CallStep, ResultStep, SlotStep, BackedStep DEF IInv

\* The inductive invariant of the archive.
THEOREM Invariance == Spec => []IInv
  BY InitInv, StepInv, PTL DEF Spec

\* Every variable of the archive keeps its type: the budget is overshot by at most the
\* retries of one request, and the lock is on one connection or free.
THEOREM TypeCorrect == Spec => []TypeOK
<1>1. IInv => TypeOK
  BY DEF IInv
<1> QED
  BY <1>1, Invariance, PTL

\* Of executions that capture at once, all but one have lost their lock with an idle
\* connection: nothing else that dies or fails lets two in.
THEOREM CapturesNeverOverlap == Spec => []OneCaptureAtATime
<1>1. IInv => OneCaptureAtATime
  BY CapturesExclude DEF IInv
<1> QED
  BY <1>1, Invariance, PTL

\* A run that is reused has an observation of each ticker, and is of the same day and not
\* before its target.
THEOREM ReusedRunBacked == Spec => []ReusedRunIsBacked
<1>1. IInv => ReusedRunIsBacked
  BY DEF IInv
<1> QED
  BY <1>1, Invariance, PTL

\* No attempt leaves the client of an invocation whose day has a COMPLETE run, unless one of
\* the two lost its lock: what the check under the lock found stays true for as long as the
\* capture lasts.
THEOREM ConsumedSlotFree == Spec => ConsumedSlotIsFree
<1>1. IInv /\ [Next]_vars =>
        [\A i \in Invocations : wire'[i] > wire[i] =>
           \A j \in Reusable(i, begun[i]) : i \in severed \/ j \in severed]_vars
  <2> SUFFICES ASSUME IInv, [Next]_vars, NEW i \in Invocations, wire'[i] > wire[i]
               PROVE  \A j \in Reusable(i, begun[i]) : i \in severed \/ j \in severed
    OBVIOUS
  <2>1. wire \in [Invocations -> Nat]
    BY DEF IInv, TypeOK, CallTypeOK
  <2>2. RequestAttempt(i)
    <3>1. ASSUME UNCHANGED wire PROVE FALSE
      BY <2>1, <3>1
    <3>2. ASSUME NEW j \in Invocations, wire' = [wire EXCEPT ![j] = 0] PROVE FALSE
      BY <2>1, <3>2
    <3>3. ASSUME NEW j \in Invocations, j # i, RequestAttempt(j) PROVE FALSE
      <4>1. wire' = [wire EXCEPT ![j] = @ + 1]
        BY <3>3 DEF RequestAttempt, Attempt, AttemptAnswered, AttemptLost, AttemptBreaks
      <4> QED
        BY <2>1, <3>3, <4>1
    <3> QED
      BY <3>1, <3>2, <3>3
         DEF Next, Step, Begin, TryLock, OpenRun, SkipTicker, AskTicker, StartCall,
         ObserveUsage, Observe, StoreAnswer, ForgetCall, FinishSkipped, FinishCapture, Finish,
         CaptureRaises, ReleaseLock, DatabaseFails, Crash, Discard, DropCall, Shutdown, LoseIdleConn, Tick,
         Terminating, vars, callVars
  <2> QED
    BY <2>2 DEF RequestAttempt, IInv, SlotInv
<1>2. Spec => [][Next]_vars
  BY PTL DEF Spec
<1> QED
  BY <1>1, <1>2, Invariance, PTL DEF ConsumedSlotIsFree

\* A run reports the attempts that left its client, retries included; a FAILED one may
\* miss those of one request.
THEOREM ReportedAttempts == Spec => ReportedAttemptsAreReal
<1>1. IInv /\ [Next]_vars =>
        [\A i \in Invocations : run[i] = "RUNNING" /\ run'[i] # "RUNNING" =>
           IF run'[i] = "FAILED"
             THEN wire[i] \in reported'[i] .. reported'[i] + MaxRetries + 1
             ELSE wire[i] = reported'[i]]_vars
  <2> SUFFICES ASSUME IInv, [Next]_vars,
                      NEW i \in Invocations, run[i] = "RUNNING", run'[i] # "RUNNING"
               PROVE  IF run'[i] = "FAILED"
                        THEN wire[i] \in reported'[i] .. reported'[i] + MaxRetries + 1
                        ELSE wire[i] = reported'[i]
    OBVIOUS
  <2>1. /\ run \in [Invocations -> RunStatuses] /\ wire[i] \in Nat
        /\ reported \in [Invocations -> 0..AttemptsBound] /\ MaxRetries \in Nat
    BY DealerAssumption DEF IInv, TypeOK, CallTypeOK
  <2>2. \/ FinishSkipped(i) \/ FinishCapture(i)
        \/ CaptureRaises(i)
    BY <2>1 DEF Next, Step, Begin, TryLock, OpenRun, SkipTicker, AskTicker, RequestAttempt,
         ObserveUsage, StoreAnswer, FinishSkipped, FinishCapture, Finish, CaptureRaises,
         ReleaseLock, DatabaseFails, Crash, Shutdown, LoseIdleConn, Tick, Terminating, vars
  <2>3. reported'[i] = spent[i].attempts
    BY <2>1, <2>2 DEF FinishSkipped, FinishCapture, Finish, CaptureRaises
  <2>4. CASE FinishSkipped(i) \/ FinishCapture(i)
    <3>1. pc[i] = "open" /\ run'[i] # "FAILED"
      BY <2>1, <2>4 DEF FinishSkipped, FinishCapture, Finish, RunStatus
    <3> QED
      BY <2>3, <3>1 DEF IInv, CallInv, CallOf
  <2>5. CASE CaptureRaises(i)
    <3>1. /\ pc[i] = "open" \/ (pc[i] = "asking" /\ call[i].phase \in {"broken", "result"})
          /\ run'[i] = "FAILED"
      BY <2>1, <2>5 DEF CaptureRaises
    <3>2. wire[i] = spent[i].attempts
          \/ wire[i] \in spent[i].attempts .. spent[i].attempts + MaxRetries + 1
      BY <3>1 DEF IInv, CallInv, CallOf
    <3> QED
      BY <2>1, <2>3, <3>1, <3>2
  <2> QED
    BY <2>2, <2>4, <2>5
<1>2. Spec => [][Next]_vars
  BY PTL DEF Spec
<1> QED
  BY <1>1, <1>2, Invariance, PTL DEF ReportedAttemptsAreReal

\* What was the evidence at a past cutoff stays the evidence at it, except for a capture
\* that had begun to ask by then.
THEOREM PastEvidenceSettled == Spec => PastEvidenceIsSettled
<1>1. [Next]_vars =>
        [\A t \in Tickers, cutoff \in 0..now - 1 :
           AsOf(t, cutoff)' # AsOf(t, cutoff) =>
             \E i \in Invocations : pc[i] = "asking" /\ ticker[i] = t /\ asked[i] <= cutoff]_vars
  <2> SUFFICES ASSUME [Next]_vars, NEW t \in Tickers, NEW cutoff \in 0..now - 1,
                      AsOf(t, cutoff)' # AsOf(t, cutoff)
               PROVE  \E i \in Invocations : /\ pc[i] = "asking" /\ ticker[i] = t
                                             /\ asked[i] <= cutoff
    OBVIOUS
  <2>1. surfaces' # surfaces
    BY DEF AsOf
  <2>2. PICK i \in Invocations : StoreAnswer(i)
    BY <2>1 DEF Next, Step, Begin, TryLock, OpenRun, SkipTicker, AskTicker, RequestAttempt,
         ObserveUsage, FinishSkipped, FinishCapture, Finish, CaptureRaises,
         ReleaseLock, DatabaseFails, Crash, Discard, Shutdown, LoseIdleConn, Tick, Terminating, vars,
         captureVars
  <2>3. PICK s : /\ surfaces' = surfaces \union {s}
                 /\ s.ticker = ticker[i] /\ s.captured = asked[i]
    <3>1. PICK observed : surfaces' = surfaces \union {[ticker |-> ticker[i],
                                          observed |-> observed, captured |-> asked[i]]}
      BY <2>1, <2>2 DEF StoreAnswer, PersistSurface
    <3> DEFINE s == [ticker |-> ticker[i], observed |-> observed, captured |-> asked[i]]
    <3>2. s.ticker = ticker[i] /\ s.captured = asked[i] /\ surfaces' = surfaces \union {s}
      BY <3>1
    <3> QED
      BY <3>2
  <2>4. CASE s.ticker = t /\ s.captured <= cutoff
    BY <2>2, <2>3, <2>4 DEF StoreAnswer
  <2>5. CASE ~(s.ticker = t /\ s.captured <= cutoff)
    <3>1. {u \in surfaces' : u.ticker = t /\ u.observed <= cutoff /\ u.captured <= cutoff}
          = {u \in surfaces : u.ticker = t /\ u.observed <= cutoff /\ u.captured <= cutoff}
      BY <2>3, <2>5
    <3> QED
      BY <3>1 DEF AsOf
  <2> QED
    BY <2>4, <2>5
<1>2. Spec => [][Next]_vars
  BY PTL DEF Spec
<1> QED
  BY <1>1, <1>2, PTL DEF PastEvidenceIsSettled
===============================================================================
