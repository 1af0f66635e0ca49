------------------------------ MODULE SlotLedger ------------------------------
(***************************************************************************)
(* What the canonical scheduler promises of one logical slot, without      *)
(* saying how: a slot is given to one delivery for good, only that         *)
(* delivery may spend vendor requests, and it may spend them only until    *)
(* the slot's verdict.  The verdict is given once; afterwards it may only  *)
(* be overruled by a failure, and a failed slot stays failed.  A slot      *)
(* whose owner disappears simply keeps its owner and never gets a verdict: *)
(* the promise is at most once, not exactly once.                          *)
(***************************************************************************)
EXTENDS Naturals

CONSTANTS Slots, Deliveries, SlotOf

VARIABLES
  owners,    \* owners[s]: the deliveries that own slot s
  verdict,   \* verdict[s]: "open" until the slot is settled, then its status
  spend      \* spend[d]: the vendor requests delivery d has made

ledgerVars == <<owners, verdict, spend>>

LedgerInit ==
  /\ owners = [s \in Slots |-> {}]
  /\ verdict = [s \in Slots |-> "open"]
  /\ spend = [d \in Deliveries |-> 0]

Own(d) ==
  /\ owners[SlotOf[d]] = {}
  /\ verdict[SlotOf[d]] = "open"
  /\ owners' = [owners EXCEPT ![SlotOf[d]] = {d}]
  /\ UNCHANGED <<verdict, spend>>

Spend(d) ==
  /\ owners[SlotOf[d]] = {d}
  /\ verdict[SlotOf[d]] = "open"
  /\ spend' = [spend EXCEPT ![d] = @ + 1]
  /\ UNCHANGED <<owners, verdict>>

Settle(s, status) ==
  /\ owners[s] # {}
  /\ verdict[s] = "open"
  /\ status # "open"
  /\ verdict' = [verdict EXCEPT ![s] = status]
  /\ UNCHANGED <<owners, spend>>

\* The execution fails after its verdict.
Overrule(s) ==
  /\ verdict[s] # "open"
  /\ verdict' = [verdict EXCEPT ![s] = "FAILED"]
  /\ UNCHANGED <<owners, spend>>

LedgerNext ==
  \/ \E d \in Deliveries : Own(d) \/ Spend(d)
  \/ \E s \in Slots, status \in {"COMPLETE", "PARTIAL", "FAILED", "SKIPPED",
                                 "HELD_NOT_READY", "SUCCESS_NO_CANDIDATE"} :
       Settle(s, status)
  \/ \E s \in Slots : Overrule(s)

LedgerSpec == LedgerInit /\ [][LedgerNext]_ledgerVars
===============================================================================
