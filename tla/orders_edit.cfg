SPECIFICATION Spec
CONSTANTS
  p1 = p1
  p2 = p2
  Workers = {w1, w2}
  Products = {p1}
  MaxOrders = 2
  ItemLists <- DoubledLists
  Kinds <- BothKinds
  Ops = {"create", "confirm", "cancel", "edit", "delete"}
  EditQuantities = {0}
  InitialStock <- TwoEach
  MaxStock = 2
  MaxUnits = 2
  NoOne = NoOne
SYMMETRY WorkerSymmetry
INVARIANT OnlyRacingEditsSpoil
