SPECIFICATION Spec
CONSTANTS
  Products = {p1, p2}
  OrderIds = {1, 2, 3}
  InitialStock <- TwoEach
  MaxStock = 3
  MaxUnits = 1
INVARIANTS ReservedIsOpenUnits NeverOversold
