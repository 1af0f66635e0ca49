SPECIFICATION FairSpec
CONSTANTS
  gex = gex
  vnext = vnext
  d1 = d1
  d2 = d2
  d3 = d3
  Deliveries = {d1, d2, d3}
  Slots = {gex, vnext}
  SlotType <- TypeOfSlot
  SlotOf <- TwoAndOne
  MaxRequests = 1
INVARIANTS
  TypeOK
  OneOwnerPerSlot
  OnlyOwnersSpend
  ConflictHasVisibleOwner
  CountersMatchUsage
PROPERTIES
  ImplementsLedger
  OnlyItsOwnerOverrules
  OwnedSlotSettles
  WaitingDeliveryIsAnswered
