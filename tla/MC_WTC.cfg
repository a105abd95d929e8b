SPECIFICATION FairSpec
CONSTANTS
  n0 = n0
  n1 = n1
  Node = {n0, n1}
  Master = n0
  Shoen = shoen
  SUPPLY_WTC_UNIT = 7
  RETURN_WTC_UNIT = 5
  NODE_WTC_LIMIT = 9
  MIN_WTC = 2
  THROW_WTC_UNIT = 4
  UNIFY_WTC_UNIT = 3
  READ_WTC_UNIT = 2
  ANSWER_WTC_UNIT = 2
  TRANSFER_CNT = 2
  MaxSends = 3
INVARIANTS TypeOK WtcConserved NeverFatal OneSupplyPerRequest TerminatedSafely
PROPERTIES LastUnitOnlyWhenIdle
  SuspendedSent
  ImplementsDetector
