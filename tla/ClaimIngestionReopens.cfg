SPECIFICATION FairSpec
CONSTANTS
  Uploads = {u1, u2}
  Workbooks = {u1}
  Files = {f1}
  Seed = seed
  Asker = asker
  LastMs = 1
  MaxCrashes = 0
  MaxQueued = 0
PROPERTY IngestionReopens
CHECK_DEADLOCK FALSE
