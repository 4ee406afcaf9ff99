SPECIFICATION FairSpec
CONSTANTS
  Top = 2
  InBytes <- MCInBytes
  MaxAddress = 7
  Starts = {0, 1, 2}
  Ends = {4, 5, 6, 7}
  Counts = {1, 2}
  Owners = {vm1, vm2}
INVARIANTS TypeOK PageTokensAreDisjoint PageTokensAreWellPlaced AcquiredPagesAreContinous NoResidualData FreePagesAreScrubbed
PROPERTIES MemoryIsConserved RegionIsAdded
