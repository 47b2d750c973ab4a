SPECIFICATION Spec
CONSTANTS
  Uploads = {u1, u2}
  Workbooks = {u1, u2}
  Files = {f1}
  Seed = seed
  Asker = asker
  LastMs = 1
  MaxCrashes = 1
  MaxQueued = 0
INVARIANT RefusedIsNotIngested
CHECK_DEADLOCK FALSE
