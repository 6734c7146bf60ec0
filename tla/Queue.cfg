SPECIFICATION Spec
CONSTANTS
  LotSize = 4
  OrderQty = 8
  Sizes = {4,8}
  MaxLevel = 16
  MaxTraded = 12
  MaxCancelled = 12
INVARIANTS Conservative WrongByCancels FillsNoLater StaysANumber
