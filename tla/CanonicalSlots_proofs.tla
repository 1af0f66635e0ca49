------------------------- MODULE CanonicalSlots_proofs -------------------------
(***************************************************************************)
(* Proofs about CanonicalSlots, for any slots, deliveries and bound: the   *)
(* type invariant, one owner per slot, only owners spend, verdicts that    *)
(* only their owner's failure overrules, honest counters, and that the     *)
(* scheduler implements SlotLedger.                                        *)
(*                                                                         *)
(* OneOwnerPerSlot is not inductive: an owner is made by a delivery that   *)
(* inserted the row in an earlier step.  The strengthening PhaseInv ties   *)
(* each phase of a delivery to its attempt row, and each attempt row to    *)
(* its slot; InsertInv says that an uncommitted INSERT is alone and finds  *)
(* no committed row.                                                       *)
(***************************************************************************)
EXTENDS CanonicalSlots, TLAPS

\* The phases in which a delivery runs the handler of a slot it owns.
Working == {"handler", "observing", "scanning", "failing"}

\* The phases of a delivery that has committed the verdict of its slot.
Told == {"settled", "overruling"}

IsOwner(d) == attempt[d].disposition \in {"OWNER", "EXECUTED"}

PhaseInv ==
  \A d \in Deliveries :
    /\ pc[d] \in {"idle", "flushing", "inserted", "conflict", "rejected"} =>
         attempt[d].disposition = "NONE"
    /\ pc[d] \in Working => attempt[d].disposition = "OWNER"
    /\ pc[d] \in Told => /\ attempt[d].disposition = "EXECUTED"
                                   /\ ~slot[SlotOf[d]].error
    /\ pc[d] = "abandoned" => IsOwner(d)
    /\ pc[d] = "conflict" => Claimed(SlotOf[d])
    /\ attempt[d].disposition = "OWNER" => slot[SlotOf[d]].status = "CLAIMED"
    /\ attempt[d].disposition = "EXECUTED" => Settled(SlotOf[d])
    /\ work[d] > 0 => IsOwner(d)
    /\ usage[d] <= work[d]

InsertInv ==
  \A d \in Deliveries : pc[d] = "inserted" =>
    /\ ~Claimed(SlotOf[d])
    /\ \A e \in Deliveries : SlotOf[e] = SlotOf[d] /\ pc[e] = "inserted" => e = d

OwnerInv ==
  /\ \A d, e \in Deliveries :
       SlotOf[d] = SlotOf[e] /\ IsOwner(d) /\ IsOwner(e) => d = e
  /\ \A s \in Slots : Claimed(s) => \E d \in Deliveries : SlotOf[d] = s /\ IsOwner(d)

IInv == TypeOK /\ PhaseInv /\ InsertInv /\ OwnerInv

-----------------------------------------------------------------------------

\* The initial states satisfy the inductive invariant.
LEMMA InitInv == Init => IInv
  BY SlotsAssumption
  DEF Init, IInv, TypeOK, PhaseInv, InsertInv, OwnerInv, IsOwner, Working, Told, Claimed, Settled,
      NoRow, NoAttempt, Phases, Timings, TerminalStatuses, PipelineStatuses,
      ObservationStatuses

\* Settling the slot from a working phase, or overruling its verdict, preserves the
\* invariant, whatever the row says: every handler of the three slots ends this way, and
\* its failure too.
LEMMA SettleInv ==
  ASSUME IInv, NEW d \in Deliveries, pc[d] \in Working \union {"overruling"},
         NEW status \in TerminalStatuses, NEW counters \in 0..MaxRequests,
         NEW error \in BOOLEAN, NEW phase \in {"settled", "done"},
         phase = "settled" => ~error,
         slot' = [slot EXCEPT ![SlotOf[d]] =
                    [status |-> status, attempts |-> counters, error |-> error]],
         attempt' = [attempt EXCEPT ![d] =
                       [disposition |-> "EXECUTED", result |-> status]],
         dirty' = [dirty EXCEPT ![d] = 0],
         Goto(d, phase),
         UNCHANGED <<timing, usage, work>>
  PROVE  IInv'
<1> USE SlotsAssumption
<1> DEFINE s == SlotOf[d]
<1>1. /\ IsOwner(d)
      /\ Claimed(s)
      /\ s \in Slots
  BY DEF IInv, PhaseInv, TypeOK, IsOwner, Claimed, Settled, Told, TerminalStatuses,
         PipelineStatuses, ObservationStatuses
<1>2. /\ slot' = [slot EXCEPT ![s] = [status |-> status, attempts |-> counters, error |-> error]]
      /\ attempt' = [attempt EXCEPT ![d] = [disposition |-> "EXECUTED", result |-> status]]
      /\ dirty' = [dirty EXCEPT ![d] = 0]
      /\ pc' = [pc EXCEPT ![d] = phase]
      /\ timing' = timing /\ usage' = usage /\ work' = work
  BY DEF Goto
<1>3. TypeOK'
  BY <1>1, <1>2 DEF IInv, TypeOK, Phases, TerminalStatuses, PipelineStatuses,
                    ObservationStatuses
<1>4. \A e \in Deliveries : e # d => /\ attempt'[e] = attempt[e]
                                     /\ pc'[e] = pc[e]
                                     /\ SlotOf[e] = s => ~IsOwner(e)
  BY <1>1, <1>2 DEF IInv, TypeOK, OwnerInv, IsOwner
<1>5. /\ slot'[s].status = status /\ slot'[s].error = error
      /\ \A t \in Slots : t # s => slot'[t] = slot[t]
      /\ attempt'[d].disposition = "EXECUTED"
      /\ pc'[d] = phase
  BY <1>1, <1>2 DEF IInv, TypeOK
<1>6. \A t \in Slots : Claimed(t)' <=> Claimed(t)
  BY <1>1, <1>5 DEF Claimed, TerminalStatuses, PipelineStatuses, ObservationStatuses
<1>7. \A e \in Deliveries : IsOwner(e)' <=> IsOwner(e)
  BY <1>1, <1>4, <1>5 DEF IsOwner
<1>8. PhaseInv'
  <2> SUFFICES ASSUME NEW e \in Deliveries
               PROVE  /\ pc'[e] \in {"idle", "flushing", "inserted", "conflict", "rejected"} =>
                           attempt'[e].disposition = "NONE"
                      /\ pc'[e] \in Working => attempt'[e].disposition = "OWNER"
                      /\ pc'[e] \in Told => /\ attempt'[e].disposition = "EXECUTED"
                                             /\ ~slot'[SlotOf[e]].error
                      /\ pc'[e] = "abandoned" => IsOwner(e)'
                      /\ pc'[e] = "conflict" => Claimed(SlotOf[e])'
                      /\ attempt'[e].disposition = "OWNER" =>
                           slot'[SlotOf[e]].status = "CLAIMED"
                      /\ attempt'[e].disposition = "EXECUTED" => Settled(SlotOf[e])'
                      /\ work'[e] > 0 => IsOwner(e)'
                      /\ usage'[e] <= work'[e]
    BY DEF PhaseInv
  <2>1. CASE e = d
    <3>1. usage'[e] <= work'[e]
      BY <1>2 DEF IInv, PhaseInv
    <3>2. Settled(SlotOf[e])'
      BY <2>1, <1>5 DEF Settled
    <3>3. QED
      BY <2>1, <3>1, <3>2, <1>5, <1>7, <1>1 DEF Working, Told, IsOwner
  <2>2. CASE e # d
    <3>1. IsOwner(e) => slot'[SlotOf[e]] = slot[SlotOf[e]]
      BY <2>2, <1>4, <1>5 DEF IInv, TypeOK
    <3>2. QED
      BY <2>2, <3>1, <1>2, <1>4, <1>6, <1>7 DEF IInv, PhaseInv, Settled, IsOwner
  <2>3. QED BY <2>1, <2>2
<1>9. InsertInv'
  BY <1>4, <1>5, <1>6 DEF IInv, InsertInv
<1>10. OwnerInv'
  BY <1>6, <1>7 DEF IInv, OwnerInv
<1>11. QED BY <1>3, <1>8, <1>9, <1>10 DEF IInv

\* _complete settles the slot.
LEMMA CompleteInv ==
  ASSUME IInv, NEW d \in Deliveries, pc[d] \in Working,
         NEW status \in TerminalStatuses, NEW counters \in 0..MaxRequests,
         Complete(d, status, counters)
  PROVE  IInv'
  BY SettleInv DEF Complete

\* A step that only moves a delivery between phases that own alike, and touches at
\* most timing, dirty and work beside.
LEMMA MoveInv ==
  ASSUME IInv, NEW d \in Deliveries, NEW phase \in Phases,
         TypeOK', slot' = slot, attempt' = attempt, Goto(d, phase),
         \A e \in Deliveries : e # d => work'[e] = work[e],
         \A e \in Deliveries : usage'[e] <= work'[e],
         work'[d] > 0 => IsOwner(d),
         phase \in {"idle", "flushing", "inserted", "conflict", "rejected"} =>
           attempt[d].disposition = "NONE",
         phase \in Working => attempt[d].disposition = "OWNER",
         phase \in Told => /\ attempt[d].disposition = "EXECUTED"
                           /\ ~slot[SlotOf[d]].error,
         phase = "abandoned" => IsOwner(d),
         phase = "conflict" => Claimed(SlotOf[d]),
         phase = "inserted" =>
           /\ ~Claimed(SlotOf[d])
           /\ \A e \in Deliveries : SlotOf[e] = SlotOf[d] => pc[e] # "inserted"
  PROVE  IInv'
<1> USE SlotsAssumption
<1>1. /\ pc'[d] = phase
      /\ \A e \in Deliveries : e # d => pc'[e] = pc[e]
  BY DEF Goto, IInv, TypeOK
<1>2. \A t \in Slots : Claimed(t)' <=> Claimed(t)
  BY DEF Claimed
<1>3. \A e \in Deliveries : IsOwner(e)' <=> IsOwner(e)
  BY DEF IsOwner
<1>4. PhaseInv'
  <2> SUFFICES ASSUME NEW e \in Deliveries
               PROVE  /\ pc'[e] \in {"idle", "flushing", "inserted", "conflict", "rejected"} =>
                           attempt'[e].disposition = "NONE"
                      /\ pc'[e] \in Working => attempt'[e].disposition = "OWNER"
                      /\ pc'[e] \in Told => /\ attempt'[e].disposition = "EXECUTED"
                                             /\ ~slot'[SlotOf[e]].error
                      /\ pc'[e] = "abandoned" => IsOwner(e)'
                      /\ pc'[e] = "conflict" => Claimed(SlotOf[e])'
                      /\ attempt'[e].disposition = "OWNER" =>
                           slot'[SlotOf[e]].status = "CLAIMED"
                      /\ attempt'[e].disposition = "EXECUTED" => Settled(SlotOf[e])'
                      /\ work'[e] > 0 => IsOwner(e)'
                      /\ usage'[e] <= work'[e]
    BY DEF PhaseInv
  <2>1. CASE e = d
    BY <2>1, <1>1, <1>2, <1>3 DEF IInv, PhaseInv, Settled, Working, Told
  <2>2. CASE e # d
    BY <2>2, <1>1, <1>2, <1>3 DEF IInv, PhaseInv, Settled
  <2>3. QED BY <2>1, <2>2
<1>5. InsertInv'
  BY <1>1, <1>2 DEF IInv, InsertInv
<1>6. OwnerInv'
  BY <1>2, <1>3 DEF IInv, OwnerInv
<1>7. QED BY <1>4, <1>5, <1>6 DEF IInv

\* The commit of the claim: the row and its owner appear together.
LEMMA CommitClaimInv ==
  ASSUME IInv, NEW d \in Deliveries, CommitClaim(d)
  PROVE  IInv'
<1> USE SlotsAssumption
<1> DEFINE s == SlotOf[d]
<1>1. /\ pc[d] = "inserted"
      /\ slot' = [slot EXCEPT ![s] = [status |-> "CLAIMED", attempts |-> 0, error |-> FALSE]]
      /\ attempt' = [attempt EXCEPT ![d] = [disposition |-> "OWNER", result |-> "NONE"]]
      /\ pc' = [pc EXCEPT ![d] = "handler"]
      /\ timing' = timing /\ dirty' = dirty /\ usage' = usage /\ work' = work
  BY DEF CommitClaim, Goto
<1>2. s \in Slots /\ ~Claimed(s) /\ attempt[d].disposition = "NONE"
  BY <1>1 DEF IInv, TypeOK, InsertInv, PhaseInv
<1>3. \A e \in Deliveries : SlotOf[e] = s => ~IsOwner(e)
  BY <1>2 DEF IInv, PhaseInv, Claimed, Settled, IsOwner, TerminalStatuses,
              PipelineStatuses, ObservationStatuses
<1>4. TypeOK'
  BY <1>1, <1>2 DEF IInv, TypeOK, Phases
<1>5. /\ slot'[s].status = "CLAIMED"
      /\ \A t \in Slots : t # s => slot'[t] = slot[t]
      /\ attempt'[d].disposition = "OWNER" /\ pc'[d] = "handler"
      /\ \A e \in Deliveries : e # d => attempt'[e] = attempt[e] /\ pc'[e] = pc[e]
  BY <1>1, <1>2 DEF IInv, TypeOK
<1>6. \A t \in Slots : Claimed(t)' <=> Claimed(t) \/ t = s
  BY <1>5 DEF Claimed
<1>7. \A e \in Deliveries : IsOwner(e)' <=> IsOwner(e) \/ e = d
  BY <1>5 DEF IsOwner
<1>8. PhaseInv'
  <2> SUFFICES ASSUME NEW e \in Deliveries
               PROVE  /\ pc'[e] \in {"idle", "flushing", "inserted", "conflict", "rejected"} =>
                           attempt'[e].disposition = "NONE"
                      /\ pc'[e] \in Working => attempt'[e].disposition = "OWNER"
                      /\ pc'[e] \in Told => /\ attempt'[e].disposition = "EXECUTED"
                                             /\ ~slot'[SlotOf[e]].error
                      /\ pc'[e] = "abandoned" => IsOwner(e)'
                      /\ pc'[e] = "conflict" => Claimed(SlotOf[e])'
                      /\ attempt'[e].disposition = "OWNER" =>
                           slot'[SlotOf[e]].status = "CLAIMED"
                      /\ attempt'[e].disposition = "EXECUTED" => Settled(SlotOf[e])'
                      /\ work'[e] > 0 => IsOwner(e)'
                      /\ usage'[e] <= work'[e]
    BY DEF PhaseInv
  <2>1. CASE e = d
    <3>1. usage'[e] <= work'[e]
      BY <1>1 DEF IInv, PhaseInv
    <3>2. QED
      BY <2>1, <3>1, <1>5, <1>7 DEF Working, Told
  <2>2. CASE e # d
    BY <2>2, <1>1, <1>3, <1>5, <1>6, <1>7 DEF IInv, PhaseInv, Settled, IsOwner
  <2>3. QED BY <2>1, <2>2
<1>9. InsertInv'
  BY <1>1, <1>5, <1>6 DEF IInv, InsertInv
<1>10. OwnerInv'
  BY <1>3, <1>5, <1>6, <1>7 DEF IInv, OwnerInv
<1>11. QED BY <1>4, <1>8, <1>9, <1>10 DEF IInv

\* A duplicate's attempt row: it owns nothing and works on nothing.
LEMMA ReuseExistingInv ==
  ASSUME IInv, NEW d \in Deliveries, ReuseExisting(d)
  PROVE  IInv'
<1> USE SlotsAssumption
<1>1. /\ pc[d] = "conflict"
      /\ attempt' = [attempt EXCEPT ![d] =
                       [disposition |-> "DUPLICATE_DELIVERY_REUSED",
                        result |-> slot[SlotOf[d]].status]]
      /\ pc' = [pc EXCEPT ![d] = "done"]
      /\ slot' = slot /\ timing' = timing /\ dirty' = dirty /\ usage' = usage /\ work' = work
  BY DEF ReuseExisting, Goto
<1>2. attempt[d].disposition = "NONE"
  BY <1>1 DEF IInv, PhaseInv
<1>3. TypeOK'
  BY <1>1 DEF IInv, TypeOK, Phases
<1>4. /\ attempt'[d].disposition = "DUPLICATE_DELIVERY_REUSED" /\ pc'[d] = "done"
      /\ \A e \in Deliveries : e # d => attempt'[e] = attempt[e] /\ pc'[e] = pc[e]
  BY <1>1 DEF IInv, TypeOK
<1>5. \A t \in Slots : Claimed(t)' <=> Claimed(t)
  BY <1>1 DEF Claimed
<1>6. \A e \in Deliveries : IsOwner(e)' <=> IsOwner(e)
  BY <1>2, <1>4 DEF IsOwner
<1>7. PhaseInv'
  BY <1>1, <1>2, <1>4, <1>5, <1>6 DEF IInv, PhaseInv, Settled, IsOwner, Working, Told
<1>8. InsertInv'
  BY <1>4, <1>5 DEF IInv, InsertInv
<1>9. OwnerInv'
  BY <1>5, <1>6 DEF IInv, OwnerInv
<1>10. QED BY <1>3, <1>7, <1>8, <1>9 DEF IInv

\* Committing the counters of an unfinished slot moves the owner to a later phase.
LEMMA FlushDirtyInv ==
  ASSUME IInv, NEW d \in Deliveries, pc[d] = "observing", FlushDirtyCounters(d),
         NEW phase \in {"scanning", "failing"}, Goto(d, phase)
  PROVE  IInv'
<1> USE SlotsAssumption
<1> DEFINE s == SlotOf[d]
<1>1. /\ slot' = [slot EXCEPT ![s].attempts = dirty[d]]
      /\ pc' = [pc EXCEPT ![d] = phase]
      /\ attempt' = attempt /\ timing' = timing /\ dirty' = dirty /\ usage' = usage /\ work' = work
  BY DEF FlushDirtyCounters, Goto
<1>2. s \in Slots /\ attempt[d].disposition = "OWNER"
  BY DEF IInv, TypeOK, PhaseInv, Working
<1>3. TypeOK'
  BY <1>1, <1>2 DEF IInv, TypeOK, Phases
<1>4. /\ \A t \in Slots : slot'[t].status = slot[t].status
      /\ pc'[d] = phase
      /\ \A e \in Deliveries : e # d => pc'[e] = pc[e]
  BY <1>1, <1>2 DEF IInv, TypeOK
<1>5. \A t \in Slots : (Claimed(t)' <=> Claimed(t)) /\ (Settled(t)' <=> Settled(t))
  BY <1>4 DEF Claimed, Settled
<1>6. \A e \in Deliveries : IsOwner(e)' <=> IsOwner(e)
  BY <1>1 DEF IsOwner
<1>7. PhaseInv'
  <2>1. \A t \in Slots : slot'[t].error = slot[t].error
    BY <1>1, <1>2 DEF IInv, TypeOK
  <2>2. phase \in Working /\ phase \notin Told
    BY DEF Working, Told
  <2>3. QED
    BY <1>1, <1>2, <1>4, <1>5, <1>6, <2>1, <2>2 DEF IInv, PhaseInv, Working, Told, TypeOK
<1>8. InsertInv'
  BY <1>4, <1>5 DEF IInv, InsertInv
<1>9. OwnerInv'
  BY <1>5, <1>6 DEF IInv, OwnerInv
<1>10. QED BY <1>3, <1>7, <1>8, <1>9 DEF IInv

\* Every step preserves the inductive invariant.
LEMMA StepInv == IInv /\ [Next]_vars => IInv'
<1> SUFFICES ASSUME IInv, [Next]_vars PROVE IInv'
  OBVIOUS
<1> USE SlotsAssumption
<1>1. ASSUME NEW d \in Deliveries, NEW when \in Timings \ {"UNKNOWN"}, Receive(d, when)
      PROVE  IInv'
  <2> DEFINE phase == IF when = "EARLY" THEN "rejected" ELSE "flushing"
  <2>1. phase \in {"rejected", "flushing"} /\ phase \in Phases
    BY DEF Phases
  <2>2. TypeOK' /\ pc[d] = "idle" /\ work' = work /\ usage' = usage /\ slot' = slot /\ attempt' = attempt
        /\ Goto(d, phase)
    BY <1>1, <2>1 DEF Receive, Goto, IInv, TypeOK, Timings
  <2>3. /\ attempt[d].disposition = "NONE" /\ (work'[d] > 0 => IsOwner(d))
        /\ \A e \in Deliveries : usage'[e] <= work'[e]
    BY <2>2 DEF IInv, PhaseInv
  <2> HIDE DEF phase
  <2>4. QED BY <2>1, <2>2, <2>3, MoveInv DEF Working, Told
<1>2. ASSUME NEW d \in Deliveries, FlushClaim(d) PROVE IInv'
  <2> DEFINE phase == IF Claimed(SlotOf[d]) THEN "conflict" ELSE "inserted"
  <2>1. phase \in {"conflict", "inserted"} /\ phase \in Phases
    BY DEF Phases
  <2>2. TypeOK' /\ pc[d] = "flushing" /\ work' = work /\ usage' = usage /\ slot' = slot /\ attempt' = attempt
        /\ Goto(d, phase)
    BY <1>2, <2>1 DEF FlushClaim, Goto, IInv, TypeOK
  <2>3. /\ attempt[d].disposition = "NONE" /\ (work'[d] > 0 => IsOwner(d))
        /\ \A e \in Deliveries : usage'[e] <= work'[e]
    BY <2>2 DEF IInv, PhaseInv
  <2>4. /\ phase = "conflict" => Claimed(SlotOf[d])
        /\ phase = "inserted" => ~Claimed(SlotOf[d])
        /\ \A e \in Deliveries : SlotOf[e] = SlotOf[d] => pc[e] # "inserted"
    BY <1>2 DEF FlushClaim
  <2> HIDE DEF phase
  <2>5. QED BY <2>1, <2>2, <2>3, <2>4, MoveInv DEF Working, Told
<1>3. ASSUME NEW d \in Deliveries, SkipByGuard(d) PROVE IInv'
  BY <1>3, CompleteInv DEF SkipByGuard, Working, TerminalStatuses
<1>4. ASSUME NEW d \in Deliveries, VendorRequest(d) PROVE IInv'
  <2>1. /\ pc[d] \in {"handler", "scanning"} /\ pc[d] \in Phases
        /\ slot' = slot /\ attempt' = attempt /\ pc' = pc
        /\ work[d] < MaxRequests /\ work' = [work EXCEPT ![d] = work[d] + 1]
        /\ usage' = [usage EXCEPT ![d] = usage[d] + 1] /\ UNCHANGED <<timing, dirty>>
    BY <1>4 DEF VendorRequest, MayRequest, IInv, TypeOK, Phases
  <2>2. Goto(d, pc[d])
    BY <2>1 DEF Goto, IInv, TypeOK
  <2>3. attempt[d].disposition = "OWNER"
    BY <2>1 DEF IInv, PhaseInv, Working
  <2>4. \A e \in Deliveries : e # d => work'[e] = work[e]
    BY <2>1 DEF IInv, TypeOK
  <2>5. TypeOK'
    <3>1. usage[d] <= work[d]
      BY DEF IInv, PhaseInv
    <3>2. work[d] \in Nat /\ usage[d] \in Nat /\ MaxRequests \in Nat
      BY DEF IInv, TypeOK
    <3>3. work[d] + 1 \in 0..MaxRequests /\ usage[d] + 1 \in 0..MaxRequests
      BY <2>1, <3>1, <3>2
    <3> QED BY <2>1, <3>3 DEF IInv, TypeOK
  <2>6. \A e \in Deliveries : usage'[e] <= work'[e]
    BY <2>1 DEF IInv, PhaseInv, TypeOK
  <2>7. QED BY <2>1, <2>2, <2>3, <2>4, <2>5, <2>6, MoveInv DEF IsOwner, Told
<1>4b. ASSUME NEW d \in Deliveries, RequestBreaks(d) PROVE IInv'
  <2>1. PICK phase \in {pc[d], "failing"} :
          /\ Goto(d, phase)
          /\ dirty' \in {dirty, [dirty EXCEPT ![d] = 0]}
    BY <1>4b DEF RequestBreaks, Goto, IInv, TypeOK
  <2>2. /\ pc[d] \in {"handler", "scanning"} /\ phase \in Phases /\ phase \in Working
        /\ slot' = slot /\ attempt' = attempt
        /\ work[d] < MaxRequests /\ work' = [work EXCEPT ![d] = work[d] + 1]
        /\ UNCHANGED <<timing, usage>>
    BY <1>4b, <2>1 DEF RequestBreaks, MayRequest, IInv, TypeOK, Phases, Working
  <2>3. attempt[d].disposition = "OWNER"
    BY <2>2 DEF IInv, PhaseInv, Working
  <2>4. /\ \A e \in Deliveries : e # d => work'[e] = work[e]
        /\ \A e \in Deliveries : usage'[e] <= work'[e]
    BY <2>2 DEF IInv, PhaseInv, TypeOK
  <2>5. TypeOK'
    BY <2>1, <2>2 DEF IInv, TypeOK, Goto
  <2>6. QED BY <2>2, <2>3, <2>4, <2>5, <2>1, MoveInv DEF IsOwner, Told, Working
<1>5. ASSUME NEW d \in Deliveries, NEW status \in PipelineStatuses,
             CollectionReturns(d, status)
      PROVE  IInv'
  BY <1>5, CompleteInv DEF CollectionReturns, Working, TerminalStatuses, IInv, TypeOK
<1>6. ASSUME NEW d \in Deliveries, NEW counters \in 0..MaxRequests,
             DealerRunReused(d, counters)
      PROVE  IInv'
  BY <1>6, CompleteInv
  DEF DealerRunReused, Working, TerminalStatuses, PipelineStatuses
<1>7. ASSUME NEW d \in Deliveries, NEW status \in PipelineStatuses,
             ActivityReturns(d, status)
      PROVE  IInv'
  <2>1. pc[d] = "handler" /\ usage[d] \in 0..MaxRequests /\ status \in TerminalStatuses
    BY <1>7 DEF ActivityReturns, IInv, TypeOK, TerminalStatuses
  <2>2. CASE status = "COMPLETE"
    <3>1. TypeOK' /\ work' = work /\ usage' = usage /\ slot' = slot /\ attempt' = attempt
          /\ Goto(d, "observing")
      BY <1>7, <2>1, <2>2 DEF ActivityReturns, Goto, IInv, TypeOK, Phases
    <3>2. /\ attempt[d].disposition = "OWNER" /\ (work'[d] > 0 => IsOwner(d))
          /\ \A e \in Deliveries : usage'[e] <= work'[e]
      BY <2>1, <3>1 DEF IInv, PhaseInv, Working
    <3>3. QED BY <3>1, <3>2, MoveInv DEF Phases, Told
  <2>3. CASE status # "COMPLETE"
    BY <1>7, <2>1, <2>3, CompleteInv DEF ActivityReturns, Working
  <2>4. QED BY <2>2, <2>3
<1>8. ASSUME NEW d \in Deliveries, HoldNotReady(d) PROVE IInv'
  BY <1>8, CompleteInv DEF HoldNotReady, Working, TerminalStatuses, IInv, TypeOK
<1>9. ASSUME NEW d \in Deliveries, ScanStarts(d) PROVE IInv'
  BY <1>9, FlushDirtyInv DEF ScanStarts
<1>10. ASSUME NEW d \in Deliveries, ScanRefused(d) PROVE IInv'
  BY <1>10, FlushDirtyInv DEF ScanRefused
<1>11. ASSUME NEW d \in Deliveries, NEW status \in ObservationStatuses,
              ObservationReturns(d, status)
       PROVE  IInv'
  BY <1>11, CompleteInv DEF ObservationReturns, Working, TerminalStatuses, IInv, TypeOK
<1>12. ASSUME NEW d \in Deliveries,
              NEW phase \in {"failing", "overruling", "abandoned", "crashed", "done"},
              pc[d] \notin Stopped \union {"idle"},
              phase = "failing" => pc[d] \in Working,
              phase \in {"overruling", "done"} => pc[d] = "settled",
              phase = "abandoned" => pc[d] \in Working \union {"overruling"},
              dirty' \in {dirty, [dirty EXCEPT ![d] = 0]},
              Goto(d, phase), UNCHANGED <<slot, attempt, timing, usage, work>>
       PROVE  IInv'
  <2>1. TypeOK' /\ phase \in Phases
    BY <1>12 DEF Goto, IInv, TypeOK, Phases
  <2>2. /\ phase = "failing" => attempt[d].disposition = "OWNER"
        /\ phase = "overruling" => /\ attempt[d].disposition = "EXECUTED"
                                   /\ ~slot[SlotOf[d]].error
        /\ phase = "abandoned" => IsOwner(d)
        /\ work'[d] > 0 => IsOwner(d)
        /\ \A e \in Deliveries : usage'[e] <= work'[e]
    BY <1>12 DEF IInv, PhaseInv, Told, IsOwner
  <2>3. QED BY <1>12, <2>1, <2>2, MoveInv DEF Working, Told
<1>13. ASSUME NEW d \in Deliveries,
              HandlerRaises(d) \/ Respond(d) \/ RaisesAfterVerdict(d)
       PROVE  IInv'
  BY <1>12, <1>13 DEF HandlerRaises, Respond, RaisesAfterVerdict, Working, Stopped
<1>14. ASSUME NEW d \in Deliveries, RecordFailure(d) PROVE IInv'
  <2>1. slot[SlotOf[d]].attempts \in 0..MaxRequests
    BY DEF IInv, TypeOK
  <2>2. QED
    BY <1>14, <2>1, SettleInv
    DEF RecordFailure, Working, TerminalStatuses, PipelineStatuses
<1>15. ASSUME NEW d \in Deliveries, FailureLost(d) PROVE IInv'
  BY <1>12, <1>15 DEF FailureLost, Working, Stopped
<1>16. ASSUME NEW d \in Deliveries, Crash(d) PROVE IInv'
  BY <1>12, <1>16 DEF Crash
<1>17. CASE UNCHANGED vars
  BY <1>17 DEF vars, IInv, TypeOK, PhaseInv, InsertInv, OwnerInv, IsOwner, Claimed, Settled
<1>18. QED
  BY <1>1, <1>2, <1>3, <1>4, <1>4b, <1>5, <1>6, <1>7, <1>8, <1>9, <1>10, <1>11, <1>13, <1>14,
     <1>15, <1>16, <1>17, CommitClaimInv, ReuseExistingInv
  DEF Next, Step, Terminating

-----------------------------------------------------------------------------

\* Every reachable state satisfies the inductive invariant.
THEOREM Invariance == Spec => []IInv
  BY InitInv, StepInv, PTL DEF Spec

\* The rows, phases and counters always have their types: in particular the slot's
\* status is never outside the vocabulary, in any interleaving.
THEOREM TypeCorrect == Spec => []TypeOK
<1>1. IInv => TypeOK
  BY DEF IInv
<1>2. QED BY <1>1, Invariance, PTL

\* At-most-once claiming: any number of racing deliveries leaves one owner, and the
\* row exists exactly when it has one.
THEOREM OneOwner == Spec => []OneOwnerPerSlot
<1>1. IInv => OneOwnerPerSlot
  <2> SUFFICES ASSUME IInv, NEW s \in Slots
               PROVE  /\ \A d, e \in Owners(s) : d = e
                      /\ Claimed(s) <=> Owners(s) # {}
    BY DEF OneOwnerPerSlot
  <2>1. \A d, e \in Owners(s) : d = e
    BY DEF IInv, OwnerInv, Owners, IsOwner
  <2>2. Claimed(s) => Owners(s) # {}
    BY DEF IInv, OwnerInv, Owners, IsOwner
  <2>3. Owners(s) # {} => Claimed(s)
    BY DEF IInv, PhaseInv, Owners, Claimed, Settled, TerminalStatuses,
           PipelineStatuses, ObservationStatuses
  <2>4. QED BY <2>1, <2>2, <2>3
<1>2. QED BY <1>1, Invariance, PTL

\* No redelivery ever makes a vendor request.
THEOREM OnlyOwners == Spec => []OnlyOwnersSpend
<1>1. IInv => OnlyOwnersSpend
  <2> SUFFICES ASSUME IInv, NEW d \in Deliveries, work[d] > 0
               PROVE  Owners(SlotOf[d]) = {d}
    BY DEF OnlyOwnersSpend
  <2>1. IsOwner(d)
    BY DEF IInv, PhaseInv
  <2>2. \A e \in Owners(SlotOf[d]) : e = d
    BY <2>1 DEF IInv, OwnerInv, Owners, IsOwner
  <2>3. d \in Owners(SlotOf[d])
    BY <2>1 DEF Owners, IsOwner
  <2>4. QED BY <2>2, <2>3
<1>2. QED BY <1>1, Invariance, PTL

\* A conflicting delivery always finds the owner's row.
THEOREM VisibleOwner == Spec => []ConflictHasVisibleOwner
<1>1. IInv => ConflictHasVisibleOwner
  BY DEF IInv, PhaseInv, ConflictHasVisibleOwner
<1>2. QED BY <1>1, Invariance, PTL

\* A settled slot has no delivery at work, so nothing can write its row.
LEMMA NobodyWorksOnSettled ==
  ASSUME IInv, NEW d \in Deliveries, pc[d] \in Working \union {"inserted"}
  PROVE  ~Settled(SlotOf[d])
  BY SlotsAssumption
  DEF IInv, PhaseInv, InsertInv, TypeOK, Settled, Claimed, Working, TerminalStatuses,
      PipelineStatuses, ObservationStatuses

\* A step either leaves the slots alone, or writes the slot of one delivery that is
\* committing its claim or working on it, or overrules a verdict.
LEMMA SlotWriter ==
  ASSUME IInv, [Next]_vars, slot' # slot
  PROVE  \E d \in Deliveries :
           /\ \/ pc[d] \in Working \union {"inserted"}
              \/ pc[d] = "overruling" /\ RecordFailure(d)
           /\ \A s \in Slots : s # SlotOf[d] => slot'[s] = slot[s]
<1> USE SlotsAssumption
<1> DEFINE Writes(d) == \A s \in Slots : s # SlotOf[d] => slot'[s] = slot[s]
<1>1. ASSUME NEW d \in Deliveries,
             \/ CommitClaim(d) \/ SkipByGuard(d) \/ HoldNotReady(d)
             \/ ScanStarts(d) \/ ScanRefused(d)
             \/ \E status \in PipelineStatuses : CollectionReturns(d, status)
             \/ \E counters \in 0..MaxRequests : DealerRunReused(d, counters)
             \/ \E status \in PipelineStatuses : ActivityReturns(d, status)
             \/ \E status \in ObservationStatuses : ObservationReturns(d, status)
      PROVE  pc[d] \in Working \union {"inserted"} /\ Writes(d)
  BY <1>1
  DEF IInv, TypeOK, CommitClaim, SkipByGuard, HoldNotReady, ScanStarts, ScanRefused,
      CollectionReturns, DealerRunReused, ActivityReturns, ObservationReturns, Complete,
      FlushDirtyCounters, Working
<1>2. ASSUME NEW d \in Deliveries, RecordFailure(d)
      PROVE  /\ pc[d] \in Working \/ (pc[d] = "overruling" /\ RecordFailure(d))
             /\ Writes(d)
  BY <1>2 DEF IInv, TypeOK, RecordFailure, Working
<1>3. ASSUME NEW d \in Deliveries,
             \/ \E when \in Timings \ {"UNKNOWN"} : Receive(d, when)
             \/ FlushClaim(d) \/ ReuseExisting(d) \/ VendorRequest(d) \/ RequestBreaks(d)
             \/ HandlerRaises(d) \/ Respond(d) \/ RaisesAfterVerdict(d)
             \/ FailureLost(d) \/ Crash(d)
      PROVE  FALSE
  BY <1>3
  DEF Receive, FlushClaim, ReuseExisting, VendorRequest, RequestBreaks, HandlerRaises,
      Respond, RaisesAfterVerdict, FailureLost, Crash
<1>4. ~(Terminating \/ UNCHANGED vars)
  BY DEF Terminating, vars
<1> QED
  BY <1>1, <1>2, <1>3, <1>4 DEF Next, Step

\* A verdict changes once at most, into FAILED, by the delivery that gave it, and never
\* by another: every step that writes a settled row is that delivery's failure branch.
THEOREM OverruledByOwner == Spec => OnlyItsOwnerOverrules
<1>1. IInv /\ [Next]_vars =>
        [\A s \in Slots : Settled(s) /\ slot'[s] # slot[s] =>
           /\ ~slot[s].error
           /\ slot'[s] = [status |-> "FAILED", attempts |-> slot[s].attempts, error |-> TRUE]
           /\ \E d \in Owners(s) : pc[d] = "overruling"]_vars
  <2> SUFFICES ASSUME IInv, [Next]_vars, NEW s \in Slots, Settled(s), slot'[s] # slot[s]
               PROVE  /\ ~slot[s].error
                      /\ slot'[s] = [status |-> "FAILED", attempts |-> slot[s].attempts, error |-> TRUE]
                      /\ \E d \in Owners(s) : pc[d] = "overruling"
    OBVIOUS
  <2>1. PICK d \in Deliveries : /\ s = SlotOf[d]
                                /\ pc[d] = "overruling" /\ RecordFailure(d)
    BY SlotWriter, NobodyWorksOnSettled
  <2>2. attempt[d].disposition = "EXECUTED" /\ ~slot[s].error
    BY <2>1 DEF IInv, PhaseInv, Told
  <2>3. slot'[s] = [status |-> "FAILED", attempts |-> slot[s].attempts, error |-> TRUE]
    BY <2>1 DEF RecordFailure, IInv, TypeOK
  <2>4. d \in Owners(s)
    BY <2>1, <2>2 DEF Owners
  <2>5. QED BY <2>1, <2>2, <2>3, <2>4
<1>2. QED BY <1>1, Invariance, PTL DEF Spec, OnlyItsOwnerOverrules

-----------------------------------------------------------------------------
(* The counters of a settled slot *)

\* What a row that d settles without an error may say: all that the client counted, and
\* if that is not all that was asked, that a subjob failed.
Honest(d, status, counters) ==
  /\ counters = usage[d]
  /\ usage[d] # work[d] =>
       status \in IF SlotType[SlotOf[d]] = "RADAR_OI" THEN {"PARTIAL", "FAILED"} ELSE {"FAILED"}

\* CountersMatchUsage is not inductive either: a held slot reports the counters that
\* were assigned before the observation, which nothing broken precedes, and a skipped
\* one reports none.
CountersInv ==
  /\ \A d \in Deliveries : timing[d] # "VALID" => usage[d] = 0 /\ work[d] = 0
  /\ \A d \in Deliveries : pc[d] \in {"observing", "scanning"} => usage[d] = work[d]
  /\ \A d \in Deliveries : pc[d] = "observing" => dirty[d] = usage[d]
  /\ \A d \in Deliveries :
       /\ IsOwner(d) /\ Settled(SlotOf[d])
       /\ ~slot[SlotOf[d]].error /\ SlotType[SlotOf[d]] # "DEALER_GEX"
       => Honest(d, slot[SlotOf[d]].status, slot[SlotOf[d]].attempts)

\* A delivery settles its slot with an error, or with what its client counted, unless it
\* is a Dealer/GEX slot's.
LEMMA SettleCounts ==
  ASSUME IInv, CountersInv, NEW d \in Deliveries, pc[d] \in Working \union {"overruling"},
         NEW status, NEW counters, NEW error, NEW phase \in {"settled", "done"},
         ~error /\ SlotType[SlotOf[d]] # "DEALER_GEX" => Honest(d, status, counters),
         slot' = [slot EXCEPT ![SlotOf[d]] =
                    [status |-> status, attempts |-> counters, error |-> error]],
         attempt' = [attempt EXCEPT ![d] =
                       [disposition |-> "EXECUTED", result |-> status]],
         dirty' = [dirty EXCEPT ![d] = 0], Goto(d, phase), UNCHANGED <<timing, usage, work>>
  PROVE  CountersInv'
<1> USE SlotsAssumption
<1>1. IsOwner(d) /\ SlotOf[d] \in Slots
  BY DEF IInv, PhaseInv, TypeOK, IsOwner, Told
<1>2. slot'[SlotOf[d]] = [status |-> status, attempts |-> counters, error |-> error]
  BY <1>1 DEF IInv, TypeOK
<1>3. \A e \in Deliveries : e # d =>
        pc'[e] = pc[e] /\ dirty'[e] = dirty[e] /\ (IsOwner(e)' <=> IsOwner(e))
  BY DEF Goto, IInv, TypeOK, IsOwner
<1>4. pc'[d] = phase
  BY DEF Goto, IInv, TypeOK
<1>5. ASSUME NEW e \in Deliveries, e # d, IsOwner(e)
      PROVE  slot'[SlotOf[e]] = slot[SlotOf[e]]
  <2>1. SlotOf[e] # SlotOf[d] /\ SlotOf[e] \in Slots
    BY <1>1, <1>5 DEF IInv, OwnerInv
  <2> QED
    BY <2>1 DEF IInv, TypeOK
<1>6. ASSUME NEW e \in Deliveries, IsOwner(e)', Settled(SlotOf[e])',
             ~slot'[SlotOf[e]].error, SlotType[SlotOf[e]] # "DEALER_GEX"
      PROVE  Honest(e, slot'[SlotOf[e]].status, slot'[SlotOf[e]].attempts)
  <2>1. CASE e = d
    BY <1>2, <1>6, <2>1
  <2>2. CASE e # d
    <3>1. IsOwner(e) /\ slot'[SlotOf[e]] = slot[SlotOf[e]]
      BY <1>3, <1>5, <1>6, <2>2
    <3> QED
      BY <1>6, <3>1 DEF CountersInv, Settled
  <2> QED
    BY <2>1, <2>2
<1>7. ASSUME NEW e \in Deliveries, IsOwner(e)', Settled(SlotOf[e])',
             ~slot'[SlotOf[e]].error, SlotType[SlotOf[e]] # "DEALER_GEX"
      PROVE  Honest(e, slot[SlotOf[e]].status, slot[SlotOf[e]].attempts)'
  BY <1>6, <1>7 DEF Honest
<1> QED
  BY <1>3, <1>4, <1>7 DEF CountersInv

LEMMA CountersStep == IInv /\ CountersInv /\ [Next]_vars => CountersInv'
<1> SUFFICES ASSUME IInv, CountersInv, [Next]_vars PROVE CountersInv'
  OBVIOUS
<1> USE SlotsAssumption
<1>0. /\ slot \in [Slots -> [status : TerminalStatuses \union {"NONE", "CLAIMED"},
                             attempts : 0..MaxRequests, error : BOOLEAN]]
      /\ pc \in [Deliveries -> Phases] /\ timing \in [Deliveries -> Timings]
      /\ dirty \in [Deliveries -> 0..MaxRequests] /\ work \in [Deliveries -> 0..MaxRequests]
      /\ usage \in [Deliveries -> 0..MaxRequests]
      /\ SlotOf \in [Deliveries -> Slots]
  BY DEF IInv, TypeOK
<1>a. ASSUME NEW d \in Deliveries, pc[d] \in Working, NEW status, NEW counters,
             Complete(d, status, counters),
             SlotType[SlotOf[d]] # "DEALER_GEX" => Honest(d, status, counters)
      PROVE  CountersInv'
  BY <1>a, SettleCounts DEF Complete
\* The statuses of a pipeline show what it has not counted.
<1>c. ASSUME NEW d \in Deliveries, NEW status, PipelineMayEnd(d, status)
      PROVE  Honest(d, status, usage[d])
  <2>1. usage[d] <= work[d] /\ usage[d] \in Nat /\ work[d] \in Nat
    BY <1>0 DEF IInv, PhaseInv
  <2>2. usage[d] # work[d] => Broken(d) > 0
    BY <2>1 DEF Broken
  <2> QED
    BY <1>c, <2>2 DEF PipelineMayEnd, Honest
\* The requests and the settled rows stay, and nobody begins to observe.
<1>b. ASSUME UNCHANGED <<usage, work>>,
             \A e \in Deliveries : timing'[e] # timing[e] => work[e] = 0 /\ usage[e] = 0,
             \A e \in Deliveries :
               pc'[e] = "observing" => pc[e] = "observing" /\ dirty'[e] = dirty[e],
             \A e \in Deliveries :
               pc'[e] = "scanning" => pc[e] \in {"observing", "scanning"},
             \A e \in Deliveries : IsOwner(e)' /\ Settled(SlotOf[e])' =>
               IsOwner(e) /\ slot'[SlotOf[e]] = slot[SlotOf[e]]
      PROVE  CountersInv'
  <2>1. \A e \in Deliveries : timing'[e] # "VALID" => usage'[e] = 0 /\ work'[e] = 0
    BY <1>b DEF CountersInv
  <2>2. \A e \in Deliveries : pc'[e] \in {"observing", "scanning"} => usage'[e] = work'[e]
    BY <1>b DEF CountersInv
  <2>3. \A e \in Deliveries : pc'[e] = "observing" => dirty'[e] = usage'[e]
    BY <1>b DEF CountersInv
  <2>4. ASSUME NEW e \in Deliveries, IsOwner(e)', Settled(SlotOf[e])',
               ~slot'[SlotOf[e]].error, SlotType[SlotOf[e]] # "DEALER_GEX"
        PROVE  Honest(e, slot[SlotOf[e]].status, slot[SlotOf[e]].attempts)'
    BY <1>b, <2>4 DEF CountersInv, Settled, Honest
  <2> QED
    BY <2>1, <2>2, <2>3, <2>4 DEF CountersInv
<1>1. ASSUME NEW d \in Deliveries, NEW when \in Timings \ {"UNKNOWN"}, Receive(d, when)
      PROVE  CountersInv'
  <2>1. work[d] = 0 /\ usage[d] = 0
    BY <1>0, <1>1 DEF Receive, IInv, PhaseInv, IsOwner
  <2>2. /\ UNCHANGED <<slot, attempt, dirty, usage, work>>
        /\ \A e \in Deliveries : e # d => pc'[e] = pc[e] /\ timing'[e] = timing[e]
        /\ pc'[d] \notin {"observing", "scanning"}
    BY <1>0, <1>1 DEF Receive, Goto
  <2> QED
    BY <1>b, <2>1, <2>2 DEF IsOwner, Settled
<1>2. ASSUME NEW d \in Deliveries,
             \/ FlushClaim(d) \/ HandlerRaises(d) \/ Respond(d) \/ RaisesAfterVerdict(d)
             \/ FailureLost(d) \/ Crash(d)
      PROVE  CountersInv'
  <2>1. /\ UNCHANGED <<slot, attempt, timing, usage, work>>
        /\ \A e \in Deliveries : e # d => pc'[e] = pc[e] /\ dirty'[e] = dirty[e]
        /\ pc'[d] \notin {"observing", "scanning"}
    BY <1>0, <1>2 DEF FlushClaim, HandlerRaises, Respond, RaisesAfterVerdict, FailureLost,
                      Crash, Goto
  <2> QED
    BY <1>b, <2>1 DEF IsOwner, Settled
<1>3. ASSUME NEW d \in Deliveries, CommitClaim(d) PROVE CountersInv'
  <2>1. /\ UNCHANGED <<timing, dirty, usage, work>>
        /\ pc' = [pc EXCEPT ![d] = "handler"]
        /\ attempt' = [attempt EXCEPT ![d] = [disposition |-> "OWNER", result |-> "NONE"]]
        /\ slot'[SlotOf[d]].status = "CLAIMED"
        /\ \A s \in Slots : s # SlotOf[d] => slot'[s] = slot[s]
    BY <1>0, <1>3 DEF CommitClaim, Goto
  <2>2. ASSUME NEW e \in Deliveries, IsOwner(e)', Settled(SlotOf[e])'
        PROVE  IsOwner(e) /\ slot'[SlotOf[e]] = slot[SlotOf[e]]
    <3>1. SlotOf[e] # SlotOf[d] /\ e # d /\ SlotOf[e] \in Slots
      BY <1>0, <2>1, <2>2
      DEF Settled, TerminalStatuses, PipelineStatuses, ObservationStatuses
    <3>2. attempt'[e] = attempt[e]
      BY <2>1, <3>1 DEF IInv, TypeOK
    <3> QED
      BY <2>1, <2>2, <3>1, <3>2 DEF IsOwner
  <2>3. \A e \in Deliveries : pc'[e] \in {"observing", "scanning"} => pc'[e] = pc[e]
    BY <1>0, <2>1
  <2> QED
    BY <1>b, <2>1, <2>2, <2>3
<1>4. ASSUME NEW d \in Deliveries, ReuseExisting(d) PROVE CountersInv'
  <2>1. /\ UNCHANGED <<slot, timing, dirty, usage, work>>
        /\ pc' = [pc EXCEPT ![d] = "done"]
        /\ attempt' = [attempt EXCEPT ![d] = [disposition |-> "DUPLICATE_DELIVERY_REUSED",
                                              result |-> slot[SlotOf[d]].status]]
    BY <1>4 DEF ReuseExisting, Goto
  <2>2. \A e \in Deliveries : IsOwner(e)' => IsOwner(e)
    BY <2>1 DEF IsOwner, IInv, TypeOK
  <2>3. \A e \in Deliveries : pc'[e] \in {"observing", "scanning"} => pc'[e] = pc[e]
    BY <1>0, <2>1
  <2> QED
    BY <1>b, <2>1, <2>2, <2>3
<1>5. ASSUME NEW d \in Deliveries, VendorRequest(d) \/ RequestBreaks(d)
      PROVE  CountersInv'
  <2>1. /\ UNCHANGED <<slot, attempt, timing>> /\ timing[d] = "VALID"
        /\ pc[d] \in {"handler", "scanning"}
        /\ \A e \in Deliveries : e # d => /\ work'[e] = work[e] /\ usage'[e] = usage[e]
                                          /\ pc'[e] = pc[e] /\ dirty'[e] = dirty[e]
        /\ pc'[d] # "observing"
    BY <1>0, <1>5 DEF VendorRequest, RequestBreaks, MayRequest, Goto
  <2>2. ~Settled(SlotOf[d])
    BY <2>1, NobodyWorksOnSettled DEF Working
  <2>3. Settled(SlotOf[d])' <=> Settled(SlotOf[d])
    BY <2>1 DEF Settled
  <2>4. pc'[d] = "scanning" => usage'[d] = work'[d]
    <3>1. CASE VendorRequest(d)
      BY <1>0, <2>1, <3>1 DEF VendorRequest, CountersInv
    <3>2. CASE RequestBreaks(d)
      <4>1. CASE pc[d] = "handler" /\ Isolated[SlotType[SlotOf[d]]] > 0
        BY <1>0, <3>2, <4>1 DEF RequestBreaks
      <4>2. CASE ~(pc[d] = "handler" /\ Isolated[SlotType[SlotOf[d]]] > 0)
        BY <1>0, <3>2, <4>2 DEF RequestBreaks, Goto
      <4> QED BY <4>1, <4>2
    <3> QED BY <1>5, <3>1, <3>2
  <2>5. \A e \in Deliveries : pc'[e] \in {"observing", "scanning"} => usage'[e] = work'[e]
    BY <2>1, <2>4 DEF CountersInv
  <2>6. ASSUME NEW e \in Deliveries, IsOwner(e)', Settled(SlotOf[e])',
               ~slot'[SlotOf[e]].error, SlotType[SlotOf[e]] # "DEALER_GEX"
        PROVE  Honest(e, slot[SlotOf[e]].status, slot[SlotOf[e]].attempts)'
    BY <2>1, <2>2, <2>3, <2>6 DEF CountersInv, Honest, IsOwner, Settled
  <2> QED
    BY <2>1, <2>5, <2>6 DEF CountersInv
<1>6. ASSUME NEW d \in Deliveries, ScanStarts(d) \/ ScanRefused(d) PROVE CountersInv'
  <2>1. /\ UNCHANGED <<attempt, timing, usage, work, dirty>> /\ pc[d] = "observing"
        /\ \A e \in Deliveries : e # d => pc'[e] = pc[e]
        /\ pc'[d] # "observing"
        /\ slot' = [slot EXCEPT ![SlotOf[d]].attempts = dirty[d]]
    BY <1>0, <1>6 DEF ScanStarts, ScanRefused, FlushDirtyCounters, Goto
  <2>2. ~Settled(SlotOf[d])
    BY <2>1, NobodyWorksOnSettled DEF Working
  <2>3. \A s \in Slots : /\ slot'[s].status = slot[s].status
                         /\ s # SlotOf[d] => slot'[s] = slot[s]
    BY <1>0, <2>1
  <2>4. ASSUME NEW e \in Deliveries, IsOwner(e)', Settled(SlotOf[e])'
        PROVE  IsOwner(e) /\ slot'[SlotOf[e]] = slot[SlotOf[e]]
    <3>1. SlotOf[e] \in Slots /\ Settled(SlotOf[e])
      BY <1>0, <2>3, <2>4 DEF Settled
    <3> QED
      BY <2>1, <2>2, <2>3, <2>4, <3>1 DEF IsOwner
  <2> QED
    BY <1>b, <2>1, <2>4
<1>7. ASSUME NEW d \in Deliveries,
             \/ SkipByGuard(d)
             \/ \E status \in PipelineStatuses : CollectionReturns(d, status)
             \/ \E counters \in 0..MaxRequests : DealerRunReused(d, counters)
             \/ HoldNotReady(d)
             \/ \E status \in ObservationStatuses : ObservationReturns(d, status)
      PROVE  CountersInv'
  <2>1. /\ pc[d] \in Working
        /\ timing[d] = "GUARDED" => usage[d] = 0 /\ work[d] = 0
        /\ pc[d] \in {"observing", "scanning"} => usage[d] = work[d]
        /\ pc[d] = "observing" => dirty[d] = usage[d]
    BY <1>7 DEF SkipByGuard, CollectionReturns, DealerRunReused, HoldNotReady,
                ObservationReturns, Working, CountersInv
  <2>2. \A status : PipelineMayEnd(d, status) => Honest(d, status, usage[d])
    BY <1>c
  <2>3. \E status, counters :
          /\ Complete(d, status, counters)
          /\ SlotType[SlotOf[d]] # "DEALER_GEX" => Honest(d, status, counters)
    BY <1>7, <2>1, <2>2 DEF SkipByGuard, CollectionReturns, DealerRunReused, HoldNotReady,
                            ObservationReturns, Honest
  <2> QED
    BY <1>a, <2>1, <2>3
<1>8. ASSUME NEW d \in Deliveries, NEW status \in PipelineStatuses, ActivityReturns(d, status)
      PROVE  CountersInv'
  <2>1. CASE status = "COMPLETE"
    <3>1. /\ UNCHANGED <<slot, attempt, timing, usage, work>>
          /\ \A e \in Deliveries : e # d => pc'[e] = pc[e] /\ dirty'[e] = dirty[e]
          /\ dirty'[d] = usage[d] /\ pc'[d] = "observing"
      BY <1>0, <1>8, <2>1 DEF ActivityReturns, Goto
    <3>2. usage[d] = work[d]
      BY <1>8, <1>c, <2>1 DEF ActivityReturns, Honest
    <3> QED
      BY <3>1, <3>2 DEF CountersInv, IsOwner, Settled, Honest
  <2>2. CASE status # "COMPLETE"
    BY <1>8, <1>a, <1>c, <2>2 DEF ActivityReturns, Working
  <2> QED
    BY <2>1, <2>2
<1>9. ASSUME NEW d \in Deliveries, RecordFailure(d) PROVE CountersInv'
  <2>1. /\ pc[d] \in Working \union {"overruling"}
        /\ slot' = [slot EXCEPT ![SlotOf[d]] =
             [status |-> "FAILED", attempts |-> slot[SlotOf[d]].attempts, error |-> TRUE]]
    BY <1>0, <1>9 DEF RecordFailure, Working
  <2> QED
    BY <1>9, <2>1, SettleCounts DEF RecordFailure
<1>10. CASE Terminating \/ UNCHANGED vars
  BY <1>10 DEF Terminating, vars, CountersInv, IsOwner, Settled, Honest
<1> QED
  BY <1>1, <1>2, <1>3, <1>4, <1>5, <1>6, <1>7, <1>8, <1>9, <1>10 DEF Next, Step

\* A slot settled without an error reports all that its client counted, before the
\* observation and in the scan, and less than its owner asked only if its status says that
\* something failed: no interleaving of flushes, holds and failures drops or counts twice.
THEOREM CountersMatch == Spec => []CountersMatchUsage
<1>1. Init => CountersInv
  BY DEF Init, CountersInv, IsOwner, NoAttempt
<1>2. IInv /\ CountersInv /\ [Next]_vars => CountersInv'
  BY CountersStep
<1>3. IInv /\ CountersInv => CountersMatchUsage
  BY DEF CountersInv, CountersMatchUsage, Honest, Owners, IsOwner
<1> QED
  BY <1>1, <1>2, <1>3, Invariance, PTL DEF Spec

-----------------------------------------------------------------------------
(* Refinement of SlotLedger *)

\* The verdict that the refinement mapping gives a slot.
Verdict(s) == IF Settled(s) THEN slot[s].status ELSE "open"

\* What the ledger sees of a step: owners, verdicts and requests all kept.
LedgerSame ==
  /\ \A s \in Slots : Owners(s)' = Owners(s) /\ Verdict(s)' = Verdict(s)
  /\ work' = work

LEMMA LedgerStutter == LedgerSame => UNCHANGED Ledger!ledgerVars
  BY DEF LedgerSame, Verdict, Ledger!ledgerVars

\* Settling a slot, in success or failure, is the ledger's Settle.
LEMMA SettleImplements ==
  ASSUME IInv, NEW d \in Deliveries, pc[d] \in Working,
         NEW status \in TerminalStatuses, NEW counters, NEW error,
         slot' = [slot EXCEPT ![SlotOf[d]] =
                    [status |-> status, attempts |-> counters, error |-> error]],
         attempt' = [attempt EXCEPT ![d] =
                       [disposition |-> "EXECUTED", result |-> status]],
         work' = work
  PROVE  Ledger!LedgerNext
<1> USE SlotsAssumption
<1>1. /\ SlotOf[d] \in Slots
      /\ attempt[d].disposition = "OWNER"
      /\ slot[SlotOf[d]].status = "CLAIMED"
  BY DEF IInv, TypeOK, PhaseInv
<1>2. \A s \in Slots : Owners(s)' = Owners(s)
  BY <1>1 DEF Owners, IInv, TypeOK
<1>3. /\ Owners(SlotOf[d]) # {}
      /\ Verdict(SlotOf[d]) = "open"
      /\ status # "open"
  BY <1>1 DEF Owners, Verdict, Settled, TerminalStatuses, PipelineStatuses,
              ObservationStatuses
<1>4. /\ Verdict(SlotOf[d])' = status
      /\ \A s \in Slots : s # SlotOf[d] => Verdict(s)' = Verdict(s)
  BY <1>1 DEF Verdict, Settled, IInv, TypeOK
<1>5. Ledger!Settle(SlotOf[d], status)
  BY <1>1, <1>2, <1>3, <1>4 DEF Ledger!Settle, Verdict
<1>6. QED
  BY <1>1, <1>5 DEF Ledger!LedgerNext, TerminalStatuses, PipelineStatuses,
                    ObservationStatuses

\* A failure after the verdict is the ledger's Overrule.
LEMMA OverruleImplements ==
  ASSUME IInv, NEW d \in Deliveries, pc[d] = "overruling", RecordFailure(d)
  PROVE  Ledger!LedgerNext
<1> USE SlotsAssumption
<1> DEFINE s == SlotOf[d]
<1>1. s \in Slots /\ attempt[d].disposition = "EXECUTED" /\ Settled(s)
  BY DEF IInv, TypeOK, PhaseInv, Told
<1>2. \A t \in Slots : Owners(t)' = Owners(t)
  BY <1>1 DEF Owners, RecordFailure, IInv, TypeOK
<1>3. Verdict(s) # "open"
  BY <1>1 DEF Verdict, Settled, TerminalStatuses, PipelineStatuses, ObservationStatuses
<1>4. /\ Verdict(s)' = "FAILED"
      /\ \A t \in Slots : t # s => Verdict(t)' = Verdict(t)
  BY <1>1 DEF Verdict, Settled, RecordFailure, IInv, TypeOK, TerminalStatuses,
              PipelineStatuses
<1>5. Ledger!Overrule(s)
  BY <1>1, <1>2, <1>3, <1>4 DEF Ledger!Overrule, Verdict, RecordFailure
<1>6. QED BY <1>1, <1>5 DEF Ledger!LedgerNext

LEMMA CompleteImplements ==
  ASSUME IInv, NEW d \in Deliveries, pc[d] \in Working,
         NEW status \in TerminalStatuses, NEW counters, Complete(d, status, counters)
  PROVE  Ledger!LedgerNext
  BY SettleImplements DEF Complete

\* Committing the claim is the ledger's Own.
LEMMA ClaimImplements ==
  ASSUME IInv, NEW d \in Deliveries, CommitClaim(d)
  PROVE  Ledger!LedgerNext
<1> USE SlotsAssumption
<1> DEFINE s == SlotOf[d]
<1>1. /\ s \in Slots
      /\ slot[s].status = "NONE"
      /\ \A e \in Deliveries : SlotOf[e] = s => ~IsOwner(e)
  BY DEF CommitClaim, IInv, TypeOK, InsertInv, PhaseInv, Claimed, Settled, IsOwner,
         TerminalStatuses, PipelineStatuses, ObservationStatuses
<1>2. Owners(s) = {} /\ Owners(s)' = {d}
  BY <1>1 DEF Owners, IsOwner, CommitClaim, IInv, TypeOK
<1>3. \A t \in Slots : t # s => Owners(t)' = Owners(t)
  BY DEF Owners, CommitClaim, IInv, TypeOK
<1>4. \A t \in Slots : Verdict(t)' = Verdict(t)
  BY <1>1 DEF Verdict, Settled, CommitClaim, IInv, TypeOK, TerminalStatuses,
              PipelineStatuses, ObservationStatuses
<1>5. Verdict(s) = "open"
  BY <1>1 DEF Verdict, Settled, TerminalStatuses, PipelineStatuses, ObservationStatuses
<1>6. Ledger!Own(d)
  BY <1>1, <1>2, <1>3, <1>4, <1>5 DEF Ledger!Own, Verdict, CommitClaim
<1>7. QED BY <1>6 DEF Ledger!LedgerNext

\* A vendor request, answered or broken, is the ledger's Spend.
LEMMA RequestImplements ==
  ASSUME IInv, NEW d \in Deliveries, VendorRequest(d) \/ RequestBreaks(d)
  PROVE  Ledger!LedgerNext
<1> USE SlotsAssumption
<1> DEFINE s == SlotOf[d]
<1>1. s \in Slots /\ attempt[d].disposition = "OWNER" /\ slot[s].status = "CLAIMED"
  BY DEF VendorRequest, RequestBreaks, MayRequest, IInv, TypeOK, PhaseInv, Working
<1>2. Owners(s) = {d}
  BY <1>1 DEF Owners, IInv, OwnerInv, IsOwner
<1>3. Verdict(s) = "open"
  BY <1>1 DEF Verdict, Settled, TerminalStatuses, PipelineStatuses, ObservationStatuses
<1>4. \A t \in Slots : Owners(t)' = Owners(t) /\ Verdict(t)' = Verdict(t)
  BY DEF VendorRequest, RequestBreaks, Owners, Verdict, Settled
<1>5. Ledger!Spend(d)
  BY <1>1, <1>2, <1>3, <1>4 DEF Ledger!Spend, Verdict, VendorRequest, RequestBreaks
<1>6. QED BY <1>5 DEF Ledger!LedgerNext

LEMMA StepImplements ==
  IInv /\ [Next]_vars => [Ledger!LedgerNext]_(Ledger!ledgerVars)
<1> SUFFICES ASSUME IInv, [Next]_vars
             PROVE  Ledger!LedgerNext \/ LedgerSame
  BY LedgerStutter
<1> USE SlotsAssumption
<1>1. ASSUME slot' = slot, attempt' = attempt, work' = work
      PROVE  LedgerSame
  BY <1>1 DEF LedgerSame, Owners, Verdict, Settled
<1>2. ASSUME NEW d \in Deliveries, ReuseExisting(d)
      PROVE  LedgerSame
  <2>1. attempt[d].disposition = "NONE"
    BY <1>2 DEF ReuseExisting, IInv, PhaseInv
  <2>2. \A s \in Slots : Owners(s)' = Owners(s)
    BY <1>2, <2>1 DEF ReuseExisting, Owners, IInv, TypeOK
  <2>3. QED BY <1>2, <2>2 DEF ReuseExisting, LedgerSame, Verdict, Settled
<1>3. ASSUME NEW d \in Deliveries, pc[d] = "observing", FlushDirtyCounters(d)
      PROVE  LedgerSame
  <2>1. \A s \in Slots : slot'[s].status = slot[s].status
    BY <1>3 DEF FlushDirtyCounters, IInv, TypeOK
  <2>2. QED BY <1>3, <2>1 DEF FlushDirtyCounters, LedgerSame, Owners, Verdict, Settled
<1>4. ASSUME NEW d \in Deliveries, SkipByGuard(d) PROVE Ledger!LedgerNext
  BY <1>4, CompleteImplements DEF SkipByGuard, Working, TerminalStatuses
<1>5. ASSUME NEW d \in Deliveries, NEW status \in PipelineStatuses,
             CollectionReturns(d, status)
      PROVE  Ledger!LedgerNext
  BY <1>5, CompleteImplements DEF CollectionReturns, Working, TerminalStatuses
<1>6. ASSUME NEW d \in Deliveries, NEW counters \in 0..MaxRequests,
             DealerRunReused(d, counters)
      PROVE  Ledger!LedgerNext
  BY <1>6, CompleteImplements
  DEF DealerRunReused, Working, TerminalStatuses, PipelineStatuses
<1>7. ASSUME NEW d \in Deliveries, NEW status \in PipelineStatuses,
             ActivityReturns(d, status)
      PROVE  Ledger!LedgerNext \/ LedgerSame
  <2>1. CASE status = "COMPLETE"
    BY <1>1, <1>7, <2>1 DEF ActivityReturns
  <2>2. CASE status # "COMPLETE"
    BY <1>7, <2>2, CompleteImplements DEF ActivityReturns, Working, TerminalStatuses
  <2>3. QED BY <2>1, <2>2
<1>8. ASSUME NEW d \in Deliveries, HoldNotReady(d) PROVE Ledger!LedgerNext
  BY <1>8, CompleteImplements DEF HoldNotReady, Working, TerminalStatuses
<1>9. ASSUME NEW d \in Deliveries, NEW status \in ObservationStatuses,
             ObservationReturns(d, status)
      PROVE  Ledger!LedgerNext
  BY <1>9, CompleteImplements DEF ObservationReturns, Working, TerminalStatuses
<1>10. ASSUME NEW d \in Deliveries, RecordFailure(d) PROVE Ledger!LedgerNext
  <2>1. CASE pc[d] = "failing"
    BY <1>10, <2>1, SettleImplements
    DEF RecordFailure, Working, TerminalStatuses, PipelineStatuses
  <2>2. CASE pc[d] = "overruling"
    BY <1>10, <2>2, OverruleImplements
  <2>3. QED BY <1>10, <2>1, <2>2 DEF RecordFailure
<1>11. ASSUME NEW d \in Deliveries,
              \/ \E when \in Timings \ {"UNKNOWN"} : Receive(d, when)
              \/ FlushClaim(d) \/ HandlerRaises(d) \/ Respond(d) \/ RaisesAfterVerdict(d)
              \/ FailureLost(d) \/ Crash(d)
       PROVE  LedgerSame
  BY <1>1, <1>11
  DEF Receive, FlushClaim, HandlerRaises, Respond, RaisesAfterVerdict, FailureLost, Crash
<1>12. ASSUME NEW d \in Deliveries, ScanStarts(d) \/ ScanRefused(d)
       PROVE  LedgerSame
  BY <1>3, <1>12 DEF ScanStarts, ScanRefused
<1>13. CASE UNCHANGED vars
  BY <1>1, <1>13 DEF vars
<1>14. QED
  BY <1>2, <1>4, <1>5, <1>6, <1>7, <1>8, <1>9, <1>10, <1>11, <1>12, <1>13,
     ClaimImplements, RequestImplements
  DEF Next, Step, Terminating

\* The scheduler keeps the promise of the ledger: one owner per slot for good, spending
\* by the owner only and only before the verdict, one verdict, which only a failure overrules.
THEOREM SchedulerImplementsLedger == Spec => ImplementsLedger
<1>1. Init => Ledger!LedgerInit
  BY SlotsAssumption
  DEF Init, Ledger!LedgerInit, Owners, Settled, NoRow, NoAttempt, TerminalStatuses,
      PipelineStatuses, ObservationStatuses
<1>2. QED
  BY <1>1, StepImplements, Invariance, PTL DEF Spec, ImplementsLedger, Ledger!LedgerSpec
===============================================================================
