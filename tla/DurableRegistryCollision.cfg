SPECIFICATION Spec
CONSTANTS
  Uploads = {u1, u2, u3}
  Workbooks = {u1, u2, u3}
  Files = {f1}
  Seed = seed
  Asker = asker
  LastMs = 1
  MaxCrashes = 1
  MaxQueued = 0
SYMMETRY UploadSymmetry
INVARIANTS IInv CommittedIsServed NoDoubledContent
CHECK_DEADLOCK FALSE
