------------------------ MODULE ResearchWorkspace_proofs -----------------------
(***************************************************************************)
(* Proofs about ResearchWorkspace, for any refreshes, contracts, commands, *)
(* endpoints and window: an evaluation on a reused context rests on fresh  *)
(* evidence, and the confirmation route serves one chain.                  *)
(*                                                                         *)
(* A refresh that rolls back takes its contexts and evaluations away.      *)
(* What is inductive is that whatever is kept never rests on them: the     *)
(* context of an evaluation, or of a refresh that is evaluating, is its    *)
(* own or a committed one.  A refresh writes at most one context of a      *)
(* ticker, because it walks the contracts of a ticker together, so the     *)
(* context that was found fresh is the one the evaluation names.           *)
(***************************************************************************)
EXTENDS ResearchWorkspace, SequenceTheorems, WellFoundedInduction, TLAPS

\* Contexts and evaluations are those of a refresh that runs or has committed.
Kept(r) == pc[r] \in Running \union {"done"}

\* The tickers of a list of contracts, and those refresh r has still to walk.
TickersOf(s) == {TickerOf[s[i]] : i \in 1..Len(s)}
Ahead(r) == TickersOf(job[r].todo)

\* A context r may rest on, whatever the others do, and fresh if it is reused.
Rests(r, key, reused) ==
  \E k \in contexts :
    /\ k.key = key
    /\ key[1] = r \/ Committed(key[1])
    /\ reused # Nothing => k.anchor >= reused - Window

ContextInv ==
  /\ \A k \in contexts : Kept(k.key[1])
  /\ \A k, l \in contexts : k.key = l.key => k = l
  /\ \A k \in contexts : \A i \in 1..Endpoints : k.anchor <= k.anchors[i]

\* A refresh that chooses or fetches a context has none of the tickers ahead; one that
\* evaluates has at most the one it evaluates.
JobOf(r) ==
  /\ Grouped(job[r].todo)
  /\ pc[r] # "evaluating" => job[r].todo # <<>>
  /\ pc[r] \in {"choosing", "fetching"} =>
       \A k \in contexts : k.key[1] = r => k.key[2] \notin Ahead(r)
  /\ pc[r] = "fetching" => job[r].ticker = TickerOf[Contract(r)]
  /\ pc[r] \in {"evaluating", "inserting"} =>
       /\ Rests(r, job[r].key, job[r].reused)
       /\ job[r].todo # <<>> => TickerOf[Contract(r)] = job[r].ticker
       /\ \A k \in contexts :
            k.key[1] = r /\ k.key[2] \in Ahead(r) => k.key[2] = job[r].ticker

JobInv == \A r \in Refreshes : pc[r] \in Running => JobOf(r)

EvaluationInv ==
  \A e \in evaluations : Kept(e.by) /\ Rests(e.by, e.key, e.reused)

\* A committed evaluation of contract c on the context.
Evaluated(key, c) == \E e \in evaluations : e.key = key /\ e.contract = c /\ Committed(e.by)

ChainInv ==
  /\ \A s \in states : Evaluated(s.evaluation, s.contract)
  /\ \A c \in Built : picked[c] # NoKey => Evaluated(picked[c], c)
  /\ \A w \in workspaces :
       /\ Evaluated(w.evaluation, w.contract)
       /\ w.state.evaluation = w.evaluation /\ w.state.contract = w.contract

IInv == TypeOK /\ ContextInv /\ JobInv /\ EvaluationInv /\ ChainInv

-----------------------------------------------------------------------------
(* Operators *)

\* A nonempty set of times has a least element, and Min is that.
LEMMA MinOfTimes ==
  ASSUME NEW T, T \subseteq Nat, T # {}
  PROVE  Min(T) \in T /\ \A t \in T : Min(T) <= t
<1>1. PICK x \in T : \A y \in T : <<y, x>> \notin OpToRel(<, Nat)
  BY NatLessThanWellFounded, WFMin, Zenon
<1>2. \A y \in T : ~(y < x)
  BY <1>1 DEF OpToRel
<1>3. \A y \in T : x <= y
  BY <1>2
<1> QED
  BY <1>3 DEF Min

\* aggregate_freshness_anchor_at: no endpoint is older than the anchor of its context.
LEMMA AnchorIsOldest ==
  ASSUME NEW s \in Seq(Times), Len(s) = Endpoints
  PROVE  /\ FreshnessAnchor(s) \in Times
         /\ \A i \in 1..Endpoints : FreshnessAnchor(s) <= s[i]
<1>1. DOMAIN s = 1..Endpoints /\ \A i \in 1..Endpoints : s[i] \in Times
  BY LenProperties, ElementOfSeq
<1>2. Range(s) \subseteq Times /\ \A i \in 1..Endpoints : s[i] \in Range(s)
  BY <1>1 DEF Range
<1>3. Range(s) \subseteq Nat /\ Range(s) # {}
  BY <1>2, WorkspaceAssumption DEF Times
<1>4. Min(Range(s)) \in Range(s) /\ \A t \in Range(s) : Min(Range(s)) <= t
  BY <1>3, MinOfTimes
<1> QED
  BY <1>2, <1>4 DEF FreshnessAnchor

\* Walking on keeps the contracts of a ticker together: a ticker that is left is not met
\* again.
LEMMA WalkingOn ==
  ASSUME NEW s \in Seq(Contracts), s # <<>>, Grouped(s)
  PROVE  /\ Head(s) \in Contracts /\ TickerOf[Head(s)] \in TickersOf(s)
         /\ Tail(s) \in Seq(Contracts)
         /\ Grouped(Tail(s))
         /\ TickersOf(Tail(s)) \subseteq TickersOf(s)
         /\ Tail(s) # <<>> /\ TickerOf[Head(Tail(s))] # TickerOf[Head(s)] =>
              TickerOf[Head(s)] \notin TickersOf(Tail(s))
<1> DEFINE rest == Tail(s)
<1>1. /\ Head(s) \in Contracts /\ rest \in Seq(Contracts) /\ Len(rest) = Len(s) - 1
      /\ \A i \in 1..Len(rest) : rest[i] = s[i + 1]
  BY HeadTailProperties
<1>2. Len(s) \in Nat \ {0} /\ Len(rest) \in Nat
  BY <1>1, EmptySeq, LenProperties
<1>3. Head(s) = s[1] /\ (rest # <<>> => Head(rest) = rest[1] /\ Len(rest) \in Nat \ {0})
  BY <1>1, EmptySeq
<1>4. TickerOf[Head(s)] \in TickersOf(s)
  BY <1>2, <1>3 DEF TickersOf
<1>5. TickersOf(rest) \subseteq TickersOf(s)
  <2>1. \A i \in 1..Len(rest) : i + 1 \in 1..Len(s)
    BY <1>1, <1>2
  <2> HIDE DEF rest
  <2> QED
    BY <1>1, <2>1 DEF TickersOf
<1>6. Grouped(rest)
  <2> SUFFICES ASSUME NEW i \in 1..Len(rest), NEW j \in 1..Len(rest),
                      TickerOf[rest[i]] = TickerOf[rest[j]], NEW m \in i..j
               PROVE  TickerOf[rest[m]] = TickerOf[rest[i]]
    BY DEF Grouped
  <2>1. /\ i + 1 \in 1..Len(s) /\ j + 1 \in 1..Len(s) /\ m + 1 \in (i + 1)..(j + 1)
        /\ m \in 1..Len(rest)
    BY <1>1, <1>2
  <2>2. TickerOf[s[i + 1]] = TickerOf[s[j + 1]]
    BY <1>1
  <2> HIDE DEF rest
  <2>3. TickerOf[s[m + 1]] = TickerOf[s[i + 1]]
    BY <2>1, <2>2 DEF Grouped
  <2> QED
    BY <1>1, <2>1, <2>3
<1>7. ASSUME rest # <<>>, TickerOf[Head(rest)] # TickerOf[Head(s)],
             TickerOf[Head(s)] \in TickersOf(rest)
      PROVE  FALSE
  <2>1. PICK i \in 1..Len(rest) : TickerOf[Head(s)] = TickerOf[rest[i]]
    BY <1>7 DEF TickersOf
  <2>2. 1 \in 1..Len(s) /\ i + 1 \in 1..Len(s) /\ 2 \in 1..(i + 1) /\ 1 \in 1..Len(rest)
    BY <1>1, <1>2
  <2>3. TickerOf[s[1]] = TickerOf[s[i + 1]]
    BY <1>1, <1>3, <2>1
  <2> HIDE DEF rest
  <2>4. TickerOf[s[2]] = TickerOf[s[1]]
    BY <2>2, <2>3 DEF Grouped
  <2>5. rest[1] = s[2]
    BY <1>1, <2>2
  <2> QED
    BY <1>3, <1>7, <2>4, <2>5
<1> QED
  BY <1>1, <1>4, <1>5, <1>6, <1>7

-----------------------------------------------------------------------------
(* What a refresh owes, and what it leaves to the others *)

Jobs ==
  [force : BOOLEAN, reuse : BOOLEAN, version : Versions, todo : Seq(Contracts),
   ticker : Tickers \union {Nothing}, key : Keys \union {NoKey},
   reused : Times \union {Nothing}, anchors : Seq(Times), ohlc : BOOLEAN, asked : Times]

\* The part of the invariant that is about refresh r.
Own(r) ==
  /\ \A k \in contexts : k.key[1] = r =>
       /\ Kept(r)
       /\ \A l \in contexts : k.key = l.key => k = l
       /\ \A i \in 1..Endpoints : k.anchor <= k.anchors[i]
  /\ pc[r] \in Running => JobOf(r)
  /\ \A e \in evaluations : e.by = r => Kept(r) /\ Rests(r, e.key, e.reused)

LEMMA OwnHolds ==
  ASSUME IInv, NEW r \in Refreshes
  PROVE  Own(r)
BY DEF IInv, ContextInv, JobInv, EvaluationInv, Own

\* A step of r leaves the contexts and evaluations of the others alone, and none of them
\* rests on a context of r.
Leaves(r) ==
  /\ pc[r] # "done"
  /\ \A s \in Refreshes \ {r} : pc'[s] = pc[s] /\ job'[s] = job[s]
  /\ \A k \in contexts : k.key[1] # r => k \in contexts'
  /\ \A k \in contexts' : k.key[1] # r => k \in contexts
  /\ \A e \in evaluations : e.by # r => e \in evaluations'
  /\ \A e \in evaluations' : e.by # r => e \in evaluations
  /\ UNCHANGED chain

LEMMA OthersRest ==
  ASSUME TypeOK, NEW r \in Refreshes, Leaves(r), NEW s \in Refreshes \ {r}, NEW key, NEW reused,
         Rests(s, key, reused)
  PROVE  Rests(s, key, reused)'
<1>1. PICK k \in contexts : /\ k.key = key
                            /\ key[1] = s \/ Committed(key[1])
                            /\ reused # Nothing => k.anchor >= reused - Window
  BY DEF Rests
<1>2. k.key[1] \in Refreshes
  BY DEF TypeOK, Keys
<1>3. k.key[1] # r
  BY <1>1 DEF Leaves, Committed
<1>4. k \in contexts' /\ (Committed(key[1]) => Committed(key[1])')
  BY <1>1, <1>2, <1>3 DEF Leaves, Committed
<1> QED
  BY <1>1, <1>4 DEF Rests

\* A step of r that keeps its part keeps the invariant.
LEMMA RefreshStep ==
  ASSUME IInv, TypeOK', NEW r \in Refreshes, Leaves(r), Own(r)'
  PROVE  IInv'
<1> USE DEF Leaves
<1>1. /\ \A k \in contexts : k.key[1] \in Refreshes
      /\ \A e \in evaluations : e.by \in Refreshes
      /\ \A k \in contexts' : k.key[1] \in Refreshes
      /\ \A e \in evaluations' : e.by \in Refreshes
  BY DEF IInv, TypeOK, Keys
<1>2. \A s \in Refreshes \ {r} : Kept(s) => Kept(s)'
  BY DEF Kept
<1>3. ContextInv'
  <2>1. ASSUME NEW k \in contexts'
        PROVE  /\ Kept(k.key[1])'
               /\ \A l \in contexts' : k.key = l.key => k = l
               /\ \A i \in 1..Endpoints : k.anchor <= k.anchors[i]
    <3>1. CASE k.key[1] = r
      BY <3>1 DEF Own
    <3>2. CASE k.key[1] # r
      <4>1. k \in contexts
        BY <3>2
      <4>2. \A l \in contexts' : k.key = l.key => l \in contexts
        BY <3>2
      <4> QED
        BY <1>1, <1>2, <3>2, <4>1, <4>2 DEF IInv, ContextInv
    <3> QED
      BY <3>1, <3>2
  <2> QED
    BY <2>1 DEF ContextInv
<1>4. JobInv'
  <2> SUFFICES ASSUME NEW s \in Refreshes, pc'[s] \in Running
               PROVE  JobOf(s)'
    BY DEF JobInv
  <2>1. CASE s = r
    BY <2>1 DEF Own
  <2>2. CASE s # r
    <3>1. pc'[s] = pc[s] /\ job'[s] = job[s]
      BY <2>2
    <3>2. JobOf(s)
      BY <3>1 DEF IInv, JobInv
    <3>3. \A k \in contexts' : k.key[1] = s => k \in contexts
      BY <2>2
    <3>4. ASSUME Rests(s, job[s].key, job[s].reused)
          PROVE  Rests(s, job[s].key, job[s].reused)'
      <4>1. PICK key, reused : key = job[s].key /\ reused = job[s].reused
        OBVIOUS
      <4>2. Rests(s, key, reused)
        BY <3>4, <4>1
      <4>3. Rests(s, key, reused)'
        BY <2>2, <4>2, OthersRest DEF IInv
      <4>4. key = job'[s].key /\ reused = job'[s].reused
        BY <3>1, <4>1
      <4> QED
        BY <4>3, <4>4 DEF Rests
    <3>5. Ahead(s)' = Ahead(s) /\ Contract(s)' = Contract(s)
      BY <3>1 DEF Ahead, Contract
    <3> QED
      BY <3>1, <3>2, <3>3, <3>4, <3>5 DEF JobOf
  <2> QED
    BY <2>1, <2>2
<1>5. EvaluationInv'
  <2> SUFFICES ASSUME NEW e \in evaluations'
               PROVE  Kept(e.by)' /\ Rests(e.by, e.key, e.reused)'
    BY DEF EvaluationInv
  <2>1. CASE e.by = r
    BY <2>1 DEF Own
  <2>2. CASE e.by # r
    <3>1. e \in evaluations /\ e.by \in Refreshes \ {r}
      BY <1>1, <2>2
    <3>2. Kept(e.by) /\ Rests(e.by, e.key, e.reused)
      BY <3>1 DEF IInv, EvaluationInv
    <3> QED
      BY <1>2, <3>1, <3>2, OthersRest DEF IInv
  <2> QED
    BY <2>1, <2>2
<1>6. ChainInv'
  <2>1. \A key, c : Evaluated(key, c) => Evaluated(key, c)'
    <3> SUFFICES ASSUME NEW e \in evaluations, Committed(e.by)
                 PROVE  e \in evaluations' /\ Committed(e.by)'
      BY DEF Evaluated
    <3>1. e.by \in Refreshes \ {r}
      BY <1>1 DEF Committed
    <3> QED
      BY <3>1 DEF Committed
  <2>2. states' = states /\ picked' = picked /\ workspaces' = workspaces
    BY DEF chain
  <2> QED
    BY <2>1, <2>2 DEF IInv, ChainInv
<1> QED
  BY <1>3, <1>4, <1>5, <1>6 DEF IInv

\* What TypeOK says of a refresh that runs.
LEMMA JobTypes ==
  ASSUME IInv, NEW r \in Refreshes
  PROVE  /\ job \in [Refreshes -> Jobs] /\ job[r] \in Jobs
         /\ pc \in [Refreshes -> Phases] /\ pc[r] \in Phases
         /\ pc[r] \in Running /\ job[r].todo # <<>> =>
              Contract(r) \in Contracts /\ TickerOf[Contract(r)] \in Tickers \cap Ahead(r)
<1>1. job \in [Refreshes -> Jobs] /\ pc \in [Refreshes -> Phases]
  BY DEF IInv, TypeOK, Jobs
<1>2. job[r] \in Jobs /\ job[r].todo \in Seq(Contracts)
  BY <1>1 DEF Jobs
<1>3. ASSUME pc[r] \in Running, job[r].todo # <<>>
      PROVE  Contract(r) \in Contracts /\ TickerOf[Contract(r)] \in Tickers \cap Ahead(r)
  <2>1. Grouped(job[r].todo)
    BY <1>3 DEF IInv, JobInv, JobOf
  <2> QED
    BY <1>2, <1>3, <2>1, WalkingOn DEF Contract, Ahead, Tickers
<1> QED
  BY <1>1, <1>2, <1>3

\* The refresh begins with nothing of its own.
LEMMA BeginStep ==
  ASSUME IInv, NEW r \in Refreshes, Begin(r)
  PROVE  IInv'
<1>1. PICK command \in Commands[r] :
        job' = [job EXCEPT ![r] =
          [Idle EXCEPT !.force = command.force, !.reuse = command.reuse,
                       !.todo = command.contracts, !.version = release]]
  BY DEF Begin
<1>2. pc[r] = "idle" /\ pc' = [pc EXCEPT ![r] = "choosing"]
  BY DEF Begin, Goto
<1>3. /\ command \in [contracts : Seq(Contracts) \ {<<>>}, force : BOOLEAN, reuse : BOOLEAN]
      /\ Grouped(command.contracts)
  BY WorkspaceAssumption
<1>4. [Idle EXCEPT !.force = command.force, !.reuse = command.reuse,
                   !.todo = command.contracts, !.version = release] \in Jobs
  <2>1. 0 \in Times /\ release \in Versions /\ <<>> \in Seq(Times)
    BY WorkspaceAssumption DEF IInv, TypeOK, Times
  <2> QED
    BY <1>3, <2>1 DEF Idle, Jobs
<1>5. job'[r].todo = command.contracts /\ job' \in [Refreshes -> Jobs]
  BY <1>1, <1>4, JobTypes DEF Idle, Jobs
<1>6. pc' \in [Refreshes -> Phases] /\ pc'[r] = "choosing"
  BY <1>2, JobTypes DEF Phases
<1>7. TypeOK'
  BY <1>5, <1>6 DEF Begin, chain, IInv, TypeOK, Jobs
<1>8. Leaves(r)
  BY <1>1, <1>2, JobTypes DEF Begin, Leaves
<1>9. Own(r)'
  <2>1. ~Kept(r)
    BY <1>2 DEF Kept, Running, Phases
  <2>2. /\ \A k \in contexts' : k.key[1] # r
        /\ \A e \in evaluations' : e.by # r
    BY <2>1 DEF Begin, IInv, ContextInv, EvaluationInv
  <2>3. JobOf(r)'
    BY <1>3, <1>5, <1>6, <2>2 DEF JobOf
  <2> QED
    BY <2>2, <2>3 DEF Own
<1> QED
  BY <1>7, <1>8, <1>9, RefreshStep

\* With more contexts, and no refresh less committed, a refresh rests as before.
LEMMA StillRests ==
  ASSUME contexts \subseteq contexts', \A q : Committed(q) => Committed(q)',
         NEW r, NEW key, NEW reused, Rests(r, key, reused)
  PROVE  Rests(r, key, reused)'
BY DEF Rests

\* A context of its type, none of whose endpoints is older than its anchor.
IsContext(k) ==
  /\ k \in [key : Keys, version : Versions, created : Times, anchors : Seq(Times),
            anchor : Times, ohlc : BOOLEAN]
  /\ Len(k.anchors) = Endpoints
  /\ \A i \in 1..Endpoints : k.anchor <= k.anchors[i]

\* At most one context is written, that of r and ticker t.
WritesAtMost(r, t) ==
  /\ contexts \subseteq contexts'
  /\ \A k \in contexts' : IsContext(k)
  /\ \A k \in contexts' :
       \/ k \in contexts
       \/ k.key = <<r, t>> /\ \A l \in contexts' : l.key = <<r, t>> => l = k

\* The refresh that goes on from a context it may rest on: the one it has chosen is there,
\* and of its own contexts only this one can be of a ticker ahead.
LEMMA ContextChosen ==
  ASSUME IInv, NEW r \in Refreshes, pc[r] \in {"choosing", "fetching"},
         NEW t \in Tickers, t = TickerOf[Contract(r)], NEW key \in Keys,
         NEW reused \in Times \union {Nothing},
         Bind(r, t, key, reused), Goto(r, "evaluating"), UNCHANGED <<now, release, chain>>,
         evaluations' = evaluations, WritesAtMost(r, t),
         Rests(r, key, reused)'
  PROVE  IInv'
<1> DEFINE new == [job[r] EXCEPT !.ticker = t, !.key = key, !.reused = reused,
                                 !.anchors = <<>>, !.ohlc = FALSE, !.asked = 0]
<1>1. job[r] \in Jobs /\ job \in [Refreshes -> Jobs] /\ pc \in [Refreshes -> Phases]
  BY JobTypes
<1>2. job' = [job EXCEPT ![r] = new] /\ pc' = [pc EXCEPT ![r] = "evaluating"]
  BY DEF Bind, Goto
<1>3. new \in Jobs /\ new.todo = job[r].todo /\ new.ticker = t /\ new.key = key
      /\ new.reused = reused
  <2>1. 0 \in Times /\ <<>> \in Seq(Times)
    BY WorkspaceAssumption DEF Times
  <2> QED
    BY <1>1, <2>1 DEF Jobs
<1> HIDE DEF new
<1> USE DEF WritesAtMost, IsContext
<1>4. job' \in [Refreshes -> Jobs] /\ job'[r] = new
      /\ pc' \in [Refreshes -> Phases] /\ pc'[r] = "evaluating"
  BY <1>1, <1>2, <1>3 DEF Phases
<1>5. TypeOK'
  BY <1>4 DEF IInv, TypeOK, Jobs, chain
<1>6. Leaves(r)
  BY <1>1, <1>2 DEF Leaves
<1>7. JobOf(r) /\ Own(r)
  BY OwnHolds DEF IInv, JobInv, Running, Phases
<1>8. JobOf(r)'
  <2>1. Contract(r)' = Contract(r) /\ Ahead(r)' = Ahead(r)
    BY <1>3, <1>4 DEF Contract, Ahead
  <2>2. Rests(r, job[r].key, job[r].reused)'
    BY <1>3, <1>4 DEF Rests
  <2>3. \A k \in contexts' : k.key[1] = r /\ k.key[2] \in Ahead(r)' => k.key[2] = t
    BY <1>7, <2>1 DEF JobOf
  <2>4. Grouped(job'[r].todo) /\ job'[r].ticker = t
    BY <1>3, <1>4, <1>7 DEF JobOf
  <2> QED
    BY <1>4, <2>1, <2>2, <2>3, <2>4 DEF JobOf
<1>9. Own(r)'
  <2>1. Kept(r)'
    BY <1>4 DEF Kept, Running, Phases
  <2>2. \A q : Committed(q) => Committed(q)'
    BY <1>1, <1>2 DEF Committed
  <2>3. \A e \in evaluations' : e.by = r => Rests(r, e.key, e.reused)'
    BY <1>7, <2>2, StillRests DEF Own
  <2>4. t \in Ahead(r)
    BY <1>7, JobTypes DEF JobOf, Running, Phases
  <2>5. \A k \in contexts : k.key # <<r, t>>
    BY <1>7, <2>4 DEF JobOf
  <2>6. ASSUME NEW k \in contexts', k.key[1] = r, NEW l \in contexts', k.key = l.key
        PROVE  k = l
    <3>1. CASE k \in contexts /\ l \in contexts
      BY <1>7, <2>6, <3>1 DEF Own
    <3>2. CASE k \notin contexts \/ l \notin contexts
      BY <2>6, <3>2
    <3> QED
      BY <3>1, <3>2
  <2> QED
    BY <1>8, <2>1, <2>3, <2>6 DEF Own
<1> QED
  BY <1>5, <1>6, <1>9, RefreshStep

LEMMA ChooseContextStep ==
  ASSUME IInv, NEW r \in Refreshes, ChooseContext(r)
  PROVE  IInv'
<1> DEFINE t == TickerOf[Contract(r)]
<1>1. pc[r] = "choosing" /\ evaluations' = evaluations /\ UNCHANGED <<now, release, chain>>
  BY DEF ChooseContext
<1>2. job[r] \in Jobs /\ job \in [Refreshes -> Jobs] /\ pc \in [Refreshes -> Phases]
  BY JobTypes
<1>3. JobOf(r) /\ Own(r) /\ job[r].todo # <<>>
  BY <1>1, OwnHolds DEF IInv, JobInv, JobOf, Running, Phases
<1>4. t \in Tickers /\ t \in Ahead(r)
  BY <1>1, <1>3, JobTypes DEF Running, Phases
<1>5. \A k \in contexts : IsContext(k)
  BY DEF IInv, TypeOK, ContextInv, IsContext
<1>6. \A k \in Visible(r) : k.key[1] = r \/ Committed(k.key[1])
  BY DEF Visible
<1>7. \A q : Goto(r, "evaluating") /\ Committed(q) => Committed(q)'
  BY <1>1, <1>2 DEF Goto, Committed
<1>8. CASE ReuseContext(r, t)
  <2>1. PICK k \in Fresh(r, t) : Bind(r, t, k.key, now)
    BY <1>8 DEF ReuseContext
  <2>2. k \in contexts /\ k \in Visible(r) /\ k.anchor >= now - Window
    BY <2>1 DEF Fresh, Visible
  <2>3. Goto(r, "evaluating") /\ contexts' = contexts
    BY <1>8 DEF ReuseContext
  <2>4. Rests(r, k.key, now)'
    BY <1>1, <1>6, <1>7, <2>2, <2>3 DEF Rests
  <2>5. k.key \in Keys /\ now \in Times
    BY <1>5, <2>2 DEF IInv, TypeOK, IsContext
  <2>6. PICK key, reused : key = k.key /\ reused = now
    OBVIOUS
  <2>7. now' = now
    BY <1>1
  <2>8. Rests(r, key, reused)'
    BY <2>4, <2>6, <2>7 DEF Rests
  <2>9. PICK ticker : ticker = t
    OBVIOUS
  <2> HIDE DEF t
  <2>10. Bind(r, ticker, key, reused)
    BY <2>1, <2>6, <2>9
  <2>11. WritesAtMost(r, ticker)
    BY <1>5, <2>3 DEF WritesAtMost
  <2>12. /\ pc[r] \in {"choosing", "fetching"} /\ ticker \in Tickers /\ key \in Keys
         /\ reused \in Times \union {Nothing} /\ ticker = TickerOf[Contract(r)]
    BY <1>1, <1>4, <2>5, <2>6, <2>9 DEF t
  <2> QED
    BY <1>1, <2>3, <2>8, <2>10, <2>11, <2>12, ContextChosen
<1>9. CASE ReprocessContext(r, t)
  <2>1. PICK k \in Reprocessable(r, t) :
          contexts' = contexts \union
            {[k EXCEPT !.key = <<r, t>>, !.version = job[r].version, !.created = now]}
    BY <1>9 DEF ReprocessContext
  <2>2. Bind(r, t, <<r, t>>, Nothing) /\ Goto(r, "evaluating")
    BY <1>9 DEF ReprocessContext
  <2> DEFINE copy == [k EXCEPT !.key = <<r, t>>, !.version = job[r].version, !.created = now]
  <2>3. k \in contexts
    BY <2>1 DEF Reprocessable, Latest, Visible
  <2>4. <<r, t>> \in Keys
    BY <1>4 DEF Keys
  <2>5. now \in Times /\ job[r].version \in Versions
    BY <1>2 DEF IInv, TypeOK, Jobs
  <2>6. IsContext(copy) /\ copy.key = <<r, t>>
    BY <1>5, <2>3, <2>4, <2>5 DEF IsContext
  <2> HIDE DEF copy
  <2>7. contexts' = contexts \union {copy}
    BY <2>1 DEF copy
  <2>8. PICK ticker, key : ticker = t /\ key = <<r, t>>
    OBVIOUS
  <2>9. \A l \in contexts : l.key # <<r, t>>
    BY <1>1, <1>3, <1>4 DEF JobOf
  <2> HIDE DEF t
  <2>10. WritesAtMost(r, ticker)
    BY <1>5, <2>3, <2>6, <2>7, <2>8, <2>9 DEF WritesAtMost
  <2>11. Rests(r, key, Nothing)'
    BY <2>6, <2>7, <2>8 DEF Rests
  <2>12. Bind(r, ticker, key, Nothing) /\ key \in Keys /\ ticker \in Tickers
    BY <1>4, <2>2, <2>4, <2>8
  <2>13. ticker = TickerOf[Contract(r)] /\ pc[r] \in {"choosing", "fetching"}
    BY <1>1, <2>8 DEF t
  <2> QED
    BY <1>1, <2>2, <2>10, <2>11, <2>12, <2>13, ContextChosen
<1>10. CASE FetchContext(r, t)
  <2> DEFINE new == [job[r] EXCEPT !.ticker = t, !.asked = now]
  <2>1. job' = [job EXCEPT ![r] = new] /\ pc' = [pc EXCEPT ![r] = "fetching"]
        /\ contexts' = contexts
    BY <1>10 DEF FetchContext, Goto
  <2>2. new \in Jobs /\ new.todo = job[r].todo /\ new.ticker = t
    BY <1>2, <1>4 DEF Jobs, IInv, TypeOK
  <2> HIDE DEF new
  <2>3. job' \in [Refreshes -> Jobs] /\ job'[r] = new
        /\ pc' \in [Refreshes -> Phases] /\ pc'[r] = "fetching"
    BY <1>2, <2>1, <2>2 DEF Phases
  <2>4. TypeOK'
    BY <1>1, <2>1, <2>3 DEF IInv, TypeOK, Jobs, chain
  <2>5. Leaves(r)
    BY <1>1, <1>2, <2>1 DEF Leaves
  <2>6. Contract(r)' = Contract(r) /\ Ahead(r)' = Ahead(r)
    BY <2>2, <2>3 DEF Contract, Ahead
  <2>7. JobOf(r)'
    BY <1>1, <1>3, <2>1, <2>2, <2>3, <2>6 DEF JobOf
  <2>8. Kept(r)'
    BY <2>3 DEF Kept, Running, Phases
  <2>9. \A q : Committed(q) => Committed(q)'
    BY <1>1, <1>2, <2>1 DEF Committed
  <2>10. \A e \in evaluations' : e.by = r => Rests(r, e.key, e.reused)'
    BY <1>1, <1>3, <2>1, <2>9, StillRests DEF Own
  <2>11. Own(r)'
    BY <1>3, <2>1, <2>7, <2>8, <2>10 DEF Own
  <2> QED
    BY <2>4, <2>5, <2>11, RefreshStep
<1> QED
  BY <1>8, <1>9, <1>10 DEF ChooseContext

LEMMA EndpointAnswersStep ==
  ASSUME IInv, NEW r \in Refreshes, EndpointAnswers(r)
  PROVE  IInv'
<1>1. /\ pc[r] = "fetching" /\ UNCHANGED <<now, release, pc, contexts, evaluations, chain>>
  BY DEF EndpointAnswers
<1>2. PICK answered \in BOOLEAN : \E anchor \in IF answered THEN 0..now ELSE {job[r].asked} :
        job' = [job EXCEPT ![r].anchors = Append(@, anchor), ![r].asked = now,
                           ![r].ohlc = IF job[r].anchors = <<>> THEN answered ELSE @]
  BY DEF EndpointAnswers
<1>3. PICK anchor \in IF answered THEN 0..now ELSE {job[r].asked} :
        job' = [job EXCEPT ![r].anchors = Append(@, anchor), ![r].asked = now,
                           ![r].ohlc = IF job[r].anchors = <<>> THEN answered ELSE @]
  BY <1>2
<1>4. job[r] \in Jobs /\ job \in [Refreshes -> Jobs] /\ now \in Times
  BY JobTypes DEF IInv, TypeOK
<1>5. anchor \in Times
  BY <1>3, <1>4, WorkspaceAssumption DEF Jobs, Times
<1>6. Append(job[r].anchors, anchor) \in Seq(Times)
  BY <1>4, <1>5, AppendProperties DEF Jobs
<1> DEFINE longer == Append(job[r].anchors, anchor)
           ohlc == IF job[r].anchors = <<>> THEN answered ELSE job[r].ohlc
           new == [job[r] EXCEPT !.anchors = longer, !.asked = now, !.ohlc = ohlc]
<1>7. new \in Jobs /\ new.todo = job[r].todo /\ new.ticker = job[r].ticker
  <2>1. longer \in Seq(Times) /\ ohlc \in BOOLEAN
    BY <1>2, <1>4, <1>6 DEF Jobs
  <2> HIDE DEF longer, ohlc
  <2> QED
    BY <1>4, <2>1 DEF Jobs
<1>8. job' = [job EXCEPT ![r] = new]
  BY <1>3, <1>4 DEF Jobs
<1> HIDE DEF new
<1>9. job' \in [Refreshes -> Jobs] /\ job'[r] = new
  BY <1>4, <1>7, <1>8
<1>10. TypeOK'
  BY <1>1, <1>9 DEF IInv, TypeOK, Jobs, chain
<1>11. Leaves(r)
  BY <1>1, <1>4, <1>8 DEF Leaves
<1>12. JobOf(r) /\ Own(r)
  BY <1>1, OwnHolds DEF IInv, JobInv, Running, Phases
<1>13. Contract(r)' = Contract(r) /\ Ahead(r)' = Ahead(r)
  BY <1>7, <1>9 DEF Contract, Ahead
<1>14. JobOf(r)'
  BY <1>1, <1>7, <1>9, <1>12, <1>13 DEF JobOf
<1>15. Own(r)'
  <2>1. \A q : Committed(q) => Committed(q)'
    BY <1>1 DEF Committed
  <2>2. \A e \in evaluations' : e.by = r => Rests(r, e.key, e.reused)'
    BY <1>1, <1>12, <2>1, StillRests DEF Own
  <2> QED
    BY <1>1, <1>12, <1>14, <2>2 DEF Own, Kept
<1> QED
  BY <1>10, <1>11, <1>15, RefreshStep

LEMMA ContextFetchedStep ==
  ASSUME IInv, NEW r \in Refreshes, ContextFetched(r)
  PROVE  IInv'
<1>1. /\ pc[r] = "fetching" /\ Len(job[r].anchors) = Endpoints
      /\ evaluations' = evaluations /\ UNCHANGED <<now, release, chain>>
      /\ Goto(r, "evaluating")
  BY DEF ContextFetched
<1>2. job[r] \in Jobs /\ now \in Times /\ pc \in [Refreshes -> Phases]
  BY JobTypes DEF IInv, TypeOK
<1>3. JobOf(r) /\ job[r].todo # <<>>
  BY <1>1 DEF IInv, JobInv, JobOf, Running, Phases
<1>4. PICK t : t = job[r].ticker
  OBVIOUS
<1>5. t = TickerOf[Contract(r)] /\ t \in Tickers /\ t \in Ahead(r)
  BY <1>1, <1>3, <1>4, JobTypes DEF JobOf, Running, Phases
<1> DEFINE new == [key |-> <<r, t>>, version |-> job[r].version, created |-> now,
                   anchors |-> job[r].anchors, anchor |-> FreshnessAnchor(job[r].anchors),
                   ohlc |-> job[r].ohlc]
<1>6. contexts' = contexts \union {new} /\ Bind(r, t, <<r, t>>, Nothing)
  BY <1>4 DEF ContextFetched
<1>7. IsContext(new) /\ new.key = <<r, t>>
  <2>1. /\ FreshnessAnchor(job[r].anchors) \in Times
        /\ \A i \in 1..Endpoints : FreshnessAnchor(job[r].anchors) <= job[r].anchors[i]
    BY <1>1, <1>2, AnchorIsOldest DEF Jobs
  <2>2. <<r, t>> \in Keys
    BY <1>5 DEF Keys
  <2> QED
    BY <1>1, <1>2, <2>1, <2>2 DEF IsContext, Jobs
<1> HIDE DEF new
<1>8. \A k \in contexts : IsContext(k) /\ k.key # <<r, t>>
  <2>1. \A k \in contexts : IsContext(k)
    BY DEF IInv, TypeOK, ContextInv, IsContext
  <2> QED
    BY <1>1, <1>3, <1>5, <2>1 DEF JobOf
<1>9. WritesAtMost(r, t)
  BY <1>6, <1>7, <1>8 DEF WritesAtMost
<1>10. PICK key : key = <<r, t>>
  OBVIOUS
<1>11. key \in Keys /\ Bind(r, t, key, Nothing) /\ Rests(r, key, Nothing)'
  BY <1>5, <1>6, <1>7, <1>10 DEF Keys, Rests
<1> QED
  BY <1>1, <1>5, <1>9, <1>11, ContextChosen

-----------------------------------------------------------------------------
(* The evaluations, and the end of the refresh *)

\* To the next contract: of the same context, or of a ticker not yet met.
LEMMA AdvanceKeeps ==
  ASSUME IInv, NEW r \in Refreshes, pc[r] \in {"evaluating", "inserting"},
         job[r].todo # <<>>, Advance(r), contexts' = contexts
  PROVE  /\ job' \in [Refreshes -> Jobs] /\ pc' \in [Refreshes -> Phases]
         /\ \A s \in Refreshes \ {r} : pc'[s] = pc[s] /\ job'[s] = job[s]
         /\ JobOf(r)' /\ Kept(r)'
         /\ \A q : Committed(q) => Committed(q)'
<1> DEFINE rest == Tail(job[r].todo)
           on == rest # <<>> /\ TickerOf[Head(rest)] # job[r].ticker
           new == [job[r] EXCEPT !.todo = rest]
<1>1. job[r] \in Jobs /\ job \in [Refreshes -> Jobs] /\ pc \in [Refreshes -> Phases]
  BY JobTypes
<1>2. JobOf(r)
  BY DEF IInv, JobInv, Running, Phases
<1>3. job[r].todo \in Seq(Contracts) /\ Grouped(job[r].todo)
  BY <1>1, <1>2 DEF Jobs, JobOf
<1>4. TickerOf[Head(job[r].todo)] = job[r].ticker
  BY <1>2 DEF JobOf, Contract
<1>5. /\ rest \in Seq(Contracts) /\ Grouped(rest)
      /\ TickersOf(rest) \subseteq TickersOf(job[r].todo)
      /\ on => job[r].ticker \notin TickersOf(rest)
  BY <1>3, <1>4, WalkingOn
<1>6. /\ pc' = [pc EXCEPT ![r] = IF on THEN "choosing" ELSE "evaluating"]
      /\ job' = [job EXCEPT ![r] = new]
  BY <1>1 DEF Advance, Goto, Jobs
<1>7. /\ new \in Jobs /\ new.todo = rest /\ new.ticker = job[r].ticker
      /\ new.key = job[r].key /\ new.reused = job[r].reused
  <2> HIDE DEF rest
  <2> QED
    BY <1>1, <1>5 DEF Jobs
<1>8. on => rest # <<>>
  OBVIOUS
<1>9. ~on /\ rest # <<>> => TickerOf[Head(rest)] = job[r].ticker
  OBVIOUS
<1> HIDE DEF new, rest, on
<1>10. /\ job' \in [Refreshes -> Jobs] /\ pc' \in [Refreshes -> Phases]
       /\ job'[r] = new /\ pc'[r] = IF on THEN "choosing" ELSE "evaluating"
       /\ \A s \in Refreshes \ {r} : pc'[s] = pc[s] /\ job'[s] = job[s]
  BY <1>1, <1>6, <1>7 DEF Phases
<1>11. \A q : Committed(q) => Committed(q)'
  BY <1>1, <1>6 DEF Committed
<1>12. Ahead(r)' = TickersOf(rest) /\ Contract(r)' = Head(rest)
  BY <1>7, <1>10 DEF Ahead, Contract
<1>13. \A k \in contexts : k.key[1] = r /\ k.key[2] \in TickersOf(rest) => k.key[2] = job[r].ticker
  BY <1>2, <1>5 DEF JobOf, Ahead
<1>14. Rests(r, job[r].key, job[r].reused)'
  <2>1. PICK key, reused : key = job[r].key /\ reused = job[r].reused
    OBVIOUS
  <2>2. Rests(r, key, reused)
    BY <1>2, <2>1 DEF JobOf
  <2>3. Rests(r, key, reused)'
    BY <1>11, <2>2, StillRests
  <2>4. key = job'[r].key /\ reused = job'[r].reused
    BY <1>7, <1>10, <2>1
  <2> QED
    BY <2>3, <2>4 DEF Rests
<1>15. JobOf(r)'
  <2>1. Grouped(job'[r].todo) /\ (pc'[r] # "evaluating" => job'[r].todo # <<>>)
    BY <1>5, <1>7, <1>8, <1>10
  <2>2. CASE on
    BY <1>5, <1>10, <1>12, <1>13, <2>1, <2>2 DEF JobOf
  <2>3. CASE ~on
    BY <1>7, <1>9, <1>10, <1>12, <1>13, <1>14, <2>1, <2>3 DEF JobOf
  <2> QED
    BY <2>2, <2>3
<1>16. Kept(r)'
  BY <1>10 DEF Kept, Running, Phases
<1> QED
  BY <1>10, <1>11, <1>15, <1>16

\* A step that takes r to its next contract, and may insert the evaluation of this one.
LEMMA WalkStep ==
  ASSUME IInv, NEW r \in Refreshes, pc[r] \in {"evaluating", "inserting"}, job[r].todo # <<>>,
         \/ Insert(r, Contract(r))
         \/ Advance(r) /\ UNCHANGED evaluations,
         UNCHANGED <<contexts, now, release, chain>>
  PROVE  IInv'
<1> DEFINE new == [key |-> job[r].key, contract |-> Contract(r), at |-> now,
                   reused |-> job[r].reused, by |-> r]
<1>1. Advance(r) /\ (evaluations' = evaluations \/ evaluations' = evaluations \union {new})
  BY DEF Insert
<1>2. /\ job' \in [Refreshes -> Jobs] /\ pc' \in [Refreshes -> Phases]
      /\ \A s \in Refreshes \ {r} : pc'[s] = pc[s] /\ job'[s] = job[s]
      /\ JobOf(r)' /\ Kept(r)'
      /\ \A q : Committed(q) => Committed(q)'
  BY <1>1, AdvanceKeeps
<1>3. JobOf(r) /\ Own(r)
  BY OwnHolds DEF IInv, JobInv, Running, Phases
<1>4. job[r] \in Jobs /\ Contract(r) \in Contracts
  BY JobTypes DEF Running, Phases
<1>5. job[r].key \in Keys
  BY <1>3 DEF JobOf, Rests, IInv, TypeOK
<1>6. /\ new \in [key : Keys, contract : Contracts, at : Times, reused : Times \union {Nothing},
                 by : Refreshes]
      /\ new.key = job[r].key /\ new.reused = job[r].reused /\ new.by = r
  BY <1>4, <1>5 DEF IInv, TypeOK, Jobs
<1> HIDE DEF new
<1>7. evaluations' \subseteq
        [key : Keys, contract : Contracts, at : Times, reused : Times \union {Nothing},
         by : Refreshes]
  BY <1>1, <1>6 DEF IInv, TypeOK
<1>8. TypeOK'
  BY <1>2, <1>7 DEF IInv, TypeOK, Jobs, chain
<1>9. Leaves(r)
  BY <1>1, <1>2, <1>6 DEF Leaves
<1>10. \A e \in evaluations' : e.by = r => Rests(r, e.key, e.reused)'
  <2> SUFFICES ASSUME NEW e \in evaluations', e.by = r
               PROVE  Rests(r, e.key, e.reused)'
    OBVIOUS
  <2>1. Rests(r, e.key, e.reused)
    <3>1. CASE e \in evaluations
      BY <1>3, <3>1 DEF Own
    <3>2. CASE e = new
      BY <1>3, <1>6, <3>2 DEF JobOf
    <3> QED
      BY <1>1, <3>1, <3>2
  <2> QED
    BY <1>2, <2>1, StillRests
<1>11. Own(r)'
  BY <1>2, <1>3, <1>10 DEF Own
<1> QED
  BY <1>8, <1>9, <1>11, RefreshStep

\* A refresh that rolls back leaves nothing.
LEMMA RollBackStep ==
  ASSUME IInv, NEW r \in Refreshes, pc[r] \in Running, RollBack(r),
         UNCHANGED <<now, release, chain>>
  PROVE  IInv'
<1>1. /\ contexts' = {k \in contexts : k.key[1] # r}
      /\ evaluations' = {e \in evaluations : e.by # r}
      /\ job' = [job EXCEPT ![r] = Idle] /\ pc' = [pc EXCEPT ![r] = "failed"]
  BY DEF RollBack, Goto
<1>2. Idle \in Jobs
  <2>1. 0 \in Times /\ 1 \in Versions /\ <<>> \in Seq(Times) /\ <<>> \in Seq(Contracts)
    BY WorkspaceAssumption DEF Times, Versions
  <2> QED
    BY <2>1 DEF Idle, Jobs
<1>3. /\ job' \in [Refreshes -> Jobs] /\ pc' \in [Refreshes -> Phases] /\ pc'[r] = "failed"
      /\ \A s \in Refreshes \ {r} : pc'[s] = pc[s] /\ job'[s] = job[s]
  BY <1>1, <1>2, JobTypes DEF Phases
<1>4. contexts' \subseteq contexts /\ evaluations' \subseteq evaluations
  BY <1>1
<1>5. TypeOK'
  BY <1>3, <1>4 DEF IInv, TypeOK, Jobs, chain
<1>6. Leaves(r)
  BY <1>1, <1>3 DEF Leaves, Running
<1>7. Own(r)'
  BY <1>1, <1>3 DEF Own, Running
<1> QED
  BY <1>5, <1>6, <1>7, RefreshStep

LEMMA EvaluateStep ==
  ASSUME IInv, NEW r \in Refreshes, Evaluate(r)
  PROVE  IInv'
<1>1. /\ pc[r] = "evaluating" /\ job[r].todo # <<>>
      /\ UNCHANGED <<contexts, now, release, chain>>
  BY DEF Evaluate
<1>2. \/ Insert(r, Contract(r))
      \/ Advance(r) /\ UNCHANGED evaluations
      \/ Goto(r, "inserting") /\ UNCHANGED <<job, evaluations>>
  BY DEF Evaluate
<1>3. CASE Goto(r, "inserting") /\ UNCHANGED <<job, evaluations>>
  <2>1. pc' = [pc EXCEPT ![r] = "inserting"] /\ job' = job /\ evaluations' = evaluations
    BY <1>3 DEF Goto
  <2>2. pc' \in [Refreshes -> Phases] /\ pc'[r] = "inserting"
        /\ \A s \in Refreshes \ {r} : pc'[s] = pc[s]
    BY <2>1, JobTypes DEF Phases
  <2>3. TypeOK'
    BY <1>1, <2>1, <2>2 DEF IInv, TypeOK, chain
  <2>4. Leaves(r)
    BY <1>1, <2>1, <2>2 DEF Leaves
  <2>5. JobOf(r) /\ Own(r)
    BY <1>1, OwnHolds DEF IInv, JobInv, Running, Phases
  <2>6. \A q : Committed(q) => Committed(q)'
    BY <1>1, <2>1, JobTypes DEF Committed
  <2>7. /\ \A e \in evaluations' : e.by = r => Rests(r, e.key, e.reused)'
        /\ Rests(r, job[r].key, job[r].reused)'
    <3>1. PICK key, reused : key = job[r].key /\ reused = job[r].reused
      OBVIOUS
    <3>2. Rests(r, key, reused)
      BY <1>1, <2>5, <3>1 DEF JobOf
    <3>3. Rests(r, key, reused)' /\ key = job'[r].key /\ reused = job'[r].reused
      BY <1>1, <2>1, <2>6, <3>1, <3>2, StillRests
    <3>4. \A e \in evaluations' : e.by = r => Rests(r, e.key, e.reused)'
      BY <1>1, <2>1, <2>5, <2>6, StillRests DEF Own
    <3> QED
      BY <3>3, <3>4 DEF Rests
  <2>8. JobOf(r)'
    BY <1>1, <2>1, <2>2, <2>5, <2>7 DEF JobOf, Ahead, Contract
  <2>9. Own(r)'
    BY <1>1, <2>2, <2>5, <2>7, <2>8 DEF Own, Kept, Running, Phases
  <2> QED
    BY <2>3, <2>4, <2>9, RefreshStep
<1> QED
  BY <1>1, <1>2, <1>3, WalkStep

LEMMA InsertResolvedStep ==
  ASSUME IInv, NEW r \in Refreshes, InsertResolved(r)
  PROVE  IInv'
<1>1. pc[r] = "inserting" /\ UNCHANGED <<now, release, chain>>
  BY DEF InsertResolved
<1>2. pc[r] \in Running /\ job[r].todo # <<>>
  BY <1>1 DEF IInv, JobInv, JobOf, Running, Phases
<1>3. CASE Insert(r, Contract(r)) /\ UNCHANGED contexts
  BY <1>1, <1>2, <1>3, WalkStep
<1>4. CASE RollBack(r)
  BY <1>1, <1>2, <1>4, RollBackStep
<1> QED
  BY <1>3, <1>4 DEF InsertResolved

\* What r has written is committed with it.
LEMMA CommitStep ==
  ASSUME IInv, NEW r \in Refreshes, Commit(r)
  PROVE  IInv'
<1>1. /\ pc[r] = "evaluating" /\ contexts' = contexts /\ evaluations' = evaluations
      /\ UNCHANGED <<now, release, chain>>
      /\ job' = [job EXCEPT ![r] = Idle] /\ pc' = [pc EXCEPT ![r] = "done"]
  BY DEF Commit, Goto
<1>2. Idle \in Jobs
  <2>1. 0 \in Times /\ 1 \in Versions /\ <<>> \in Seq(Times) /\ <<>> \in Seq(Contracts)
    BY WorkspaceAssumption DEF Times, Versions
  <2> QED
    BY <2>1 DEF Idle, Jobs
<1>3. /\ job' \in [Refreshes -> Jobs] /\ pc' \in [Refreshes -> Phases] /\ pc'[r] = "done"
      /\ \A s \in Refreshes \ {r} : pc'[s] = pc[s] /\ job'[s] = job[s]
  BY <1>1, <1>2, JobTypes DEF Phases
<1>4. TypeOK'
  BY <1>1, <1>3 DEF IInv, TypeOK, Jobs, chain
<1>5. Leaves(r)
  BY <1>1, <1>3 DEF Leaves
<1>6. \A q : Committed(q) => Committed(q)'
  BY <1>1, JobTypes DEF Committed
<1>7. Own(r)
  BY OwnHolds
<1>8. \A e \in evaluations' : e.by = r => Rests(r, e.key, e.reused)'
  BY <1>1, <1>6, <1>7, StillRests DEF Own
<1>9. Own(r)'
  BY <1>1, <1>3, <1>7, <1>8 DEF Own, Kept, Running
<1> QED
  BY <1>4, <1>5, <1>9, RefreshStep

-----------------------------------------------------------------------------
(* The builds, and the environment *)

\* A build that starts from a committed evaluation.
LEMMA LatestIsEvaluated ==
  ASSUME TypeOK, NEW c \in Built, NEW e \in LatestEvaluations(c)
  PROVE  e.key \in Keys /\ Evaluated(e.key, c)
BY DEF LatestEvaluations, Evaluated, TypeOK

LEMMA BuildStep ==
  ASSUME IInv, NEW c \in Built, BuildState(c) \/ PickEvaluation(c) \/ BuildWorkspace(c)
  PROVE  IInv'
<1>1. UNCHANGED <<now, release, pc, job, contexts, evaluations>>
  BY DEF BuildState, PickEvaluation, BuildWorkspace
<1>2. ContextInv' /\ JobInv' /\ EvaluationInv'
  BY <1>1 DEF IInv, ContextInv, JobInv, EvaluationInv, JobOf, Kept, Rests, Ahead, Contract,
              Committed
<1>3. \A key, d : Evaluated(key, d) => Evaluated(key, d)'
  BY <1>1 DEF Evaluated, Committed
<1>4. CASE BuildState(c)
  <2>1. PICK e \in LatestEvaluations(c) :
          states' = states \union {[evaluation |-> e.key, contract |-> c]}
    BY <1>4 DEF BuildState
  <2>2. e.key \in Keys /\ Evaluated(e.key, c)
    BY LatestIsEvaluated DEF IInv
  <2>3. picked' = picked /\ workspaces' = workspaces
    BY <1>4 DEF BuildState
  <2>4. TypeOK'
    BY <1>1, <2>1, <2>2, <2>3 DEF IInv, TypeOK
  <2>5. ChainInv'
    BY <1>3, <2>1, <2>2, <2>3 DEF IInv, ChainInv
  <2> QED
    BY <1>2, <2>4, <2>5 DEF IInv
<1>5. CASE PickEvaluation(c)
  <2>1. PICK e \in LatestEvaluations(c) : picked' = [picked EXCEPT ![c] = e.key]
    BY <1>5 DEF PickEvaluation
  <2>2. e.key \in Keys /\ Evaluated(e.key, c)
    BY LatestIsEvaluated DEF IInv
  <2>3. states' = states /\ workspaces' = workspaces
    BY <1>5 DEF PickEvaluation
  <2>4. picked \in [Built -> Keys \union {NoKey}]
    BY DEF IInv, TypeOK
  <2>5. TypeOK'
    BY <1>1, <2>1, <2>2, <2>3, <2>4 DEF IInv, TypeOK
  <2>6. \A d \in Built : picked'[d] # NoKey => Evaluated(picked[d], d)'
    <3> SUFFICES ASSUME NEW d \in Built, picked'[d] # NoKey
                 PROVE  Evaluated(picked[d], d)'
      OBVIOUS
    <3>1. PICK key : key = picked'[d]
      OBVIOUS
    <3>2. Evaluated(key, d)
      BY <2>1, <2>2, <2>4, <3>1 DEF IInv, ChainInv
    <3> QED
      BY <1>1, <3>1, <3>2 DEF Evaluated, Committed
  <2>7. ChainInv'
    BY <1>3, <2>3, <2>6 DEF IInv, ChainInv
  <2> QED
    BY <1>2, <2>5, <2>7 DEF IInv
<1>6. CASE BuildWorkspace(c)
  <2>1. picked[c] \in Keys /\ Evaluated(picked[c], c)
    BY <1>6 DEF BuildWorkspace, IInv, TypeOK, ChainInv
  <2>2. states' = states /\ picked' = [picked EXCEPT ![c] = NoKey]
    BY <1>6 DEF BuildWorkspace
  <2>3. \/ workspaces' = workspaces
        \/ \E s \in StatesOf(picked[c], c) :
             workspaces' = workspaces \union {WorkspaceOf(picked[c], c, s)}
    BY <1>6 DEF BuildWorkspace
  <2>4. \A w \in workspaces' : w \notin workspaces =>
          /\ w \in [evaluation : Keys, contract : Built, state : states]
          /\ Evaluated(w.evaluation, w.contract)
          /\ w.state.evaluation = w.evaluation /\ w.state.contract = w.contract
    BY <2>1, <2>3 DEF StatesOf, WorkspaceOf
  <2>5. picked' \in [Built -> Keys \union {NoKey}]
        /\ \A d \in Built : picked'[d] # NoKey => picked'[d] = picked[d]
    BY <2>2 DEF IInv, TypeOK
  <2>6. TypeOK'
    BY <1>1, <2>2, <2>4, <2>5 DEF IInv, TypeOK
  <2>7. ASSUME NEW d \in Built, picked'[d] # NoKey
        PROVE  Evaluated(picked[d], d)'
    <3>1. PICK key : key = picked'[d]
      OBVIOUS
    <3>2. Evaluated(key, d)
      BY <2>5, <2>7, <3>1 DEF IInv, ChainInv
    <3> QED
      BY <1>1, <3>1, <3>2 DEF Evaluated, Committed
  <2>8. \A w \in workspaces' :
          /\ Evaluated(w.evaluation, w.contract)
          /\ w.state.evaluation = w.evaluation /\ w.state.contract = w.contract
    BY <2>4 DEF IInv, ChainInv
  <2>9. ChainInv'
    BY <1>3, <2>2, <2>7, <2>8 DEF IInv, ChainInv
  <2> QED
    BY <1>2, <2>6, <2>9 DEF IInv
<1> QED
  BY <1>4, <1>5, <1>6

\* Time and deployments leave every row and every refresh alone.
LEMMA QuietStep ==
  ASSUME IInv, UNCHANGED <<pc, job, contexts, evaluations, chain>>,
         now' \in Times, release' \in Versions
  PROVE  IInv'
<1>1. TypeOK'
  BY DEF IInv, TypeOK, chain
<1>2. ContextInv' /\ JobInv' /\ EvaluationInv'
  BY DEF IInv, ContextInv, JobInv, EvaluationInv, JobOf, Kept, Rests, Ahead, Contract, Committed
<1>3. ChainInv'
  BY DEF IInv, ChainInv, Evaluated, Committed, chain
<1> QED
  BY <1>1, <1>2, <1>3 DEF IInv

-----------------------------------------------------------------------------
(* The theorems *)

LEMMA InitIInv ==
  ASSUME Init
  PROVE  IInv
<1> DEFINE KeyOf(r) == <<r, TickerOf[CHOOSE c \in Earlier[r] : TRUE]>>
           zeros == [i \in 1..Endpoints |-> 0]
           Fetched(r) == [key |-> KeyOf(r), version |-> 1, created |-> 0, anchor |-> 0,
                          anchors |-> zeros, ohlc |-> TRUE]
           Older(r, c) == [key |-> KeyOf(r), contract |-> c, at |-> 0,
                           reused |-> Nothing, by |-> r]
<1>1. /\ pc = [r \in Refreshes |-> IF r \in DOMAIN Earlier THEN "done" ELSE "idle"]
      /\ contexts = {Fetched(r) : r \in DOMAIN Earlier}
      /\ evaluations = UNION {{Older(r, c) : c \in Earlier[r]} : r \in DOMAIN Earlier}
  BY DEF Init
<1>2. /\ now = 0 /\ release = 1 /\ job = [r \in Refreshes |-> Idle]
      /\ states = {} /\ workspaces = {} /\ picked = [c \in Built |-> NoKey]
  BY DEF Init
<1>3. /\ DOMAIN Earlier \subseteq Refreshes
      /\ \A r \in DOMAIN Earlier : Earlier[r] \subseteq Contracts /\ Earlier[r] # {}
  BY WorkspaceAssumption
<1>4. \A r \in DOMAIN Earlier : KeyOf(r) \in Keys /\ KeyOf(r)[1] = r
  <2>1. \A r \in DOMAIN Earlier : (CHOOSE c \in Earlier[r] : TRUE) \in Earlier[r]
    BY <1>3
  <2>2. \A r \in DOMAIN Earlier : TickerOf[CHOOSE c \in Earlier[r] : TRUE] \in Tickers
    BY <1>3, <2>1 DEF Tickers
  <2> QED
    BY <1>3, <2>2 DEF Keys
<1>5. 0 \in Times /\ 1 \in Versions /\ <<>> \in Seq(Times) /\ <<>> \in Seq(Contracts)
  BY WorkspaceAssumption DEF Times, Versions
<1>6. zeros \in Seq(Times) /\ Len(zeros) = Endpoints /\ \A i \in 1..Endpoints : zeros[i] = 0
  <2>1. Endpoints \in Nat /\ zeros \in [1..Endpoints -> Times]
    BY <1>5, WorkspaceAssumption
  <2>2. zeros \in Seq(Times)
    BY <2>1, SeqDef, Zenon
  <2>3. Len(zeros) = Endpoints
    BY <2>1, <2>2, LenProperties
  <2> QED
    BY <2>2, <2>3
<1>7. Idle \in Jobs
  BY <1>5 DEF Idle, Jobs
<1> HIDE DEF KeyOf, zeros
<1>8. \A r \in DOMAIN Earlier :
        /\ Fetched(r) \in [key : Keys, version : Versions, created : Times,
                           anchors : Seq(Times), anchor : Times, ohlc : BOOLEAN]
        /\ Fetched(r).anchors = zeros /\ Fetched(r).anchor = 0
        /\ Fetched(r).key = KeyOf(r)
  BY <1>4, <1>5, <1>6
<1>9. \A e \in evaluations : \E r \in DOMAIN Earlier : \E c \in Earlier[r] : e = Older(r, c)
  BY <1>1
<1>10. \A r \in DOMAIN Earlier : \A c \in Earlier[r] :
         /\ Older(r, c) \in [key : Keys, contract : Contracts, at : Times,
                             reused : Times \union {Nothing}, by : Refreshes]
         /\ Older(r, c).key = KeyOf(r) /\ Older(r, c).by = r /\ Older(r, c).reused = Nothing
  BY <1>3, <1>4, <1>5
<1> HIDE DEF Fetched, Older
<1>11. \A k \in contexts : \E r \in DOMAIN Earlier : k = Fetched(r)
  BY <1>1
<1>12. \A r \in Refreshes : pc[r] \notin Running
  BY <1>1 DEF Running
<1>13. \A r \in DOMAIN Earlier : pc[r] = "done"
  BY <1>1, <1>3
<1>14. TypeOK
  <2>1. \A k \in contexts :
          k \in [key : Keys, version : Versions, created : Times, anchors : Seq(Times),
                anchor : Times, ohlc : BOOLEAN] /\ Len(k.anchors) = Endpoints
    BY <1>6, <1>8, <1>11
  <2>2. evaluations \subseteq
          [key : Keys, contract : Contracts, at : Times, reused : Times \union {Nothing},
           by : Refreshes]
    BY <1>9, <1>10
  <2>3. pc \in [Refreshes -> Phases] /\ job \in [Refreshes -> Jobs]
    BY <1>1, <1>2, <1>7 DEF Phases
  <2> QED
    BY <1>2, <1>5, <2>1, <2>2, <2>3 DEF TypeOK, Jobs
<1>15. ContextInv
  <2>1. ASSUME NEW k \in contexts, NEW l \in contexts, k.key = l.key
        PROVE  k = l
    <3>1. PICK r \in DOMAIN Earlier, s \in DOMAIN Earlier : k = Fetched(r) /\ l = Fetched(s)
      BY <1>11
    <3>2. r = s
      BY <1>4, <1>8, <2>1, <3>1
    <3> QED
      BY <3>1, <3>2
  <2>2. ASSUME NEW k \in contexts
        PROVE  Kept(k.key[1]) /\ \A i \in 1..Endpoints : k.anchor <= k.anchors[i]
    BY <1>4, <1>6, <1>8, <1>11, <1>13 DEF Kept
  <2> QED
    BY <2>1, <2>2 DEF ContextInv
<1>16. EvaluationInv
  <2> SUFFICES ASSUME NEW r \in DOMAIN Earlier, NEW c \in Earlier[r]
               PROVE  Kept(r) /\ Rests(r, KeyOf(r), Nothing)
    BY <1>9, <1>10 DEF EvaluationInv
  <2>1. Fetched(r) \in contexts
    BY <1>1
  <2> QED
    BY <1>4, <1>8, <1>13, <2>1 DEF Kept, Rests
<1>17. JobInv /\ ChainInv
  BY <1>2, <1>12 DEF JobInv, ChainInv
<1> QED
  BY <1>14, <1>15, <1>16, <1>17 DEF IInv

LEMMA NextIInv ==
  ASSUME IInv, [Next]_vars
  PROVE  IInv'
<1>1. ASSUME NEW r \in Refreshes, Step(r)
      PROVE  IInv'
  BY <1>1, BeginStep, ChooseContextStep, EndpointAnswersStep, ContextFetchedStep, EvaluateStep,
     InsertResolvedStep, CommitStep DEF Step
<1>2. ASSUME NEW r \in Refreshes, RefreshFails(r)
      PROVE  IInv'
  BY <1>2, RollBackStep DEF RefreshFails
<1>3. ASSUME NEW c \in Built, BuildState(c) \/ PickEvaluation(c) \/ BuildWorkspace(c)
      PROVE  IInv'
  BY <1>3, BuildStep
<1>4. CASE Redeploy
  <2>1. now' \in Times /\ release' \in Versions
    BY <1>4, WorkspaceAssumption DEF Redeploy, IInv, TypeOK, Versions
  <2> QED
    BY <1>4, <2>1, QuietStep DEF Redeploy
<1>5. CASE Tick
  <2>1. now' \in Times /\ release' \in Versions
    BY <1>5, WorkspaceAssumption DEF Tick, IInv, TypeOK, Times
  <2> QED
    BY <1>5, <2>1, QuietStep DEF Tick
<1>6. CASE UNCHANGED vars
  BY <1>6, QuietStep DEF vars, chain, IInv, TypeOK
<1> QED
  BY <1>1, <1>2, <1>3, <1>4, <1>5, <1>6 DEF Next, Terminating

\* The rows of a rolled back refresh are under nothing that is kept: IInv holds in every
\* state, whoever fails, waits, is refused or commits (Phase2bContextService).
THEOREM Invariance == Spec => []IInv
<1> QED
  BY InitIInv, NextIInv, PTL DEF Spec

\* Every variable has its type: a context is made of all its endpoints
\* (_fetch_ticker_context), and a workspace names a state that is there.
THEOREM TypeCorrect == Spec => []TypeOK
<1>1. IInv => TypeOK
  BY DEF IInv
<1> QED
  BY <1>1, Invariance, PTL

\* A reused context is fresh: none of its endpoints was older than the window when it was
\* chosen, however often it was reprocessed (_fresh_context, _reprocess_ticker_context).
THEOREM ReusedIsFresh == Spec => []ReusedEvidenceIsFresh
<1>1. ASSUME IInv
      PROVE  ReusedEvidenceIsFresh
  <2> SUFFICES ASSUME NEW e \in evaluations
               PROVE  /\ \E k \in contexts : k.key = e.key
                      /\ e.reused # Nothing =>
                           \A anchor \in Range(ContextOf(e).anchors) : anchor >= e.reused - Window
    BY DEF ReusedEvidenceIsFresh
  <2>1. PICK k \in contexts : /\ k.key = e.key
                              /\ e.reused # Nothing => k.anchor >= e.reused - Window
    BY <1>1 DEF IInv, EvaluationInv, Rests
  <2>2. ContextOf(e) = k
    BY <1>1, <2>1 DEF IInv, ContextInv, ContextOf
  <2>3. /\ k.anchor \in Int /\ k.anchors \in Seq(Times) /\ Len(k.anchors) = Endpoints
        /\ e.reused # Nothing => e.reused \in Int
    BY <1>1 DEF IInv, TypeOK, Times
  <2>4. ASSUME e.reused # Nothing, NEW anchor \in Range(k.anchors)
        PROVE  anchor >= e.reused - Window
    <3>1. PICK i \in 1..Endpoints : anchor = k.anchors[i]
      BY <2>3, LenProperties DEF Range
    <3>2. k.anchor <= anchor
      BY <1>1, <3>1 DEF IInv, ContextInv
    <3>3. anchor \in Int
      <4>1. k.anchors[i] \in Times
        BY <2>3, <3>1, ElementOfSeq
      <4> QED
        BY <3>1, <4>1 DEF Times
    <3> QED
      BY <2>1, <2>3, <2>4, <3>2, <3>3, WorkspaceAssumption
  <2> QED
    BY <2>1, <2>2, <2>4
<1> QED
  BY <1>1, Invariance, PTL

\* One chain is served: a workspace rests on the state of its evaluation, and that on a
\* committed evaluation of a committed context (latest_candidate_context and the builds).
THEOREM ServedChainAligned == Spec => []ServedChainIsAligned
<1>1. ASSUME IInv
      PROVE  ServedChainIsAligned
  <2> SUFFICES ASSUME NEW w \in workspaces
               PROVE  /\ w.state.evaluation = w.evaluation /\ w.state.contract = w.contract
                      /\ \E e \in Rows(w.evaluation, w.contract) : Committed(e.by)
                      /\ \E k \in contexts : k.key = w.evaluation /\ Committed(k.key[1])
    BY DEF ServedChainIsAligned
  <2>1. PICK e \in evaluations : /\ e.key = w.evaluation /\ e.contract = w.contract
                                 /\ Committed(e.by)
    BY <1>1 DEF IInv, ChainInv, Evaluated
  <2>2. PICK k \in contexts : k.key = e.key /\ (e.key[1] = e.by \/ Committed(e.key[1]))
    BY <1>1 DEF IInv, EvaluationInv, Rests
  <2> QED
    BY <1>1, <2>1, <2>2 DEF IInv, ChainInv, Rows
<1> QED
  BY <1>1, Invariance, PTL
===============================================================================
