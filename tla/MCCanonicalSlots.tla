--------------------------- MODULE MCCanonicalSlots ---------------------------
(***************************************************************************)
(* An instance of CanonicalSlots: the activity slot of a day, delivered    *)
(* twice, and its dealer slot.                                             *)
(***************************************************************************)
EXTENDS CanonicalSlots, FiniteSets, TLC

CONSTANTS gex, vnext, d1, d2, d3

TypeOfSlot == (vnext :> "ACTIVITY_VNEXT" @@ gex :> "DEALER_GEX")
TwoAndOne == (d1 :> vnext @@ d2 :> vnext @@ d3 :> gex)
===============================================================================
