SPECIFICATION FairSpec
CONSTANTS
  p1 = p1
  p2 = p2
  Workers = {w1, w2}
  Products = {p1, p2}
  MaxOrders = 2
  ItemLists <- CrossedLists
  Kinds <- BothKinds
  Ops = {"create", "confirm", "cancel", "cancelReserve", "convert", "import"}
  EditQuantities = {}
  InitialStock <- OneEach
  MaxStock = 2
  MaxUnits = 1
  NoOne = NoOne
PROPERTIES ImplementsLedger EveryRequestEnds
