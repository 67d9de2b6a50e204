CONSTANTS
  Plugins <- Shipped
  Place <- ShippedPlace
  Builds <- SmallBuilds
  MayStayOut <- OneMay
SPECIFICATION Spec
INVARIANTS
  CompleteListsLoadInOrder
  LeavesComeLast
CHECK_DEADLOCK FALSE
