SPECIFICATION SessionSpec
CONSTANTS
  Channels = {e1}
  Calls = {c1, c2, c3}
  NoChannel = NoChannel
  Budgets = {3}
  Amounts = {1, 2}
SYMMETRY CallSymmetry
INVARIANTS SessionTypeOK NeverOverstated ExactIfUndisturbed
PROPERTIES SealedForGood
CHECK_DEADLOCK FALSE
