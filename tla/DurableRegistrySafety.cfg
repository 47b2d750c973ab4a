SPECIFICATION Spec
CONSTANTS
  Uploads = {u1, u2}
  Workbooks = {u1}
  Files = {f1}
  Seed = seed
  Asker = asker
  LastMs = 1
  MaxCrashes = 2
  MaxQueued = 1
INVARIANTS TypeOK CommittedIsDurable CommittedIsServed SeedNeverDurable
PROPERTIES DurableOnlyGrows KeepsPromise
CHECK_DEADLOCK FALSE
