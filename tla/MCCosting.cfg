CONSTANTS
  MaxMovements = 5
  Quantities = {1, 2, 3}
  UnitCosts = {1, 4}
  Corrections = {2}
SPECIFICATION Spec
INVARIANTS ValueTracksExact ReceiptAveragesBetween NegativeIsProvisional
CHECK_DEADLOCK FALSE
