\* Four 2-byte blocks; requests of 0 bytes up to one block more than the pool.
SPECIFICATION Spec
CONSTANTS
  TBL = 4
  BLK = 2
  MaxSize = 9
  Data = {0, 1}
INVARIANTS TypeOK TableMatchesLive RegionsDisjoint UsageIsWhatClientsHold
PROPERTIES ImplementsHeap ReallocKeepsContents OtherRegionsUntouched
