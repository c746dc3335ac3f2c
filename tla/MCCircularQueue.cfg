SPECIFICATION FairSpec
CONSTANTS
  r1 = r1
  r2 = r2
  Readers = {r1, r2}
  MaxItems = 2
  IntSize = 8
  MaxAdds = 5
INVARIANTS TypeOK HoldsMostRecent SnapshotOfRecent
PROPERTY AddReturns
