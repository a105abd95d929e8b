CONSTANTS
  in = in
  s1 = s1
  s2 = s2
  s3 = s3
  Stream = {in, s1, s2, s3}
  Root = in
  Length <- MCLength
  Last <- MCLast
  None = None
  MaxRoom = 4
SPECIFICATION FairSpec
CHECK_DEADLOCK FALSE
INVARIANTS CountRight
PROPERTIES ImplementsMerge AllMerged
