SPECIFICATION FairSpec
CONSTANTS
  Uploads = {u1, u2}
  Workbooks = {u1}
  Files = {f1}
  Seed = seed
  Asker = asker
  LastMs = 2
  MaxCrashes = 1
  MaxQueued = 0
PROPERTIES EveryUploadFinishes
CHECK_DEADLOCK FALSE
