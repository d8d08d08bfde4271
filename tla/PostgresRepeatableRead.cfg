SPECIFICATION FairSpec
CONSTANTS
  k1 = k1
  k2 = k2
  c1 = c1
  c2 = c2
  p1 = p1
  p2 = p2
  today = today
  later = later
  Attempts = {a1, a2}
  Keys = {k1, k2}
  Contexts = {c1, c2}
  Packages = {p1, p2}
  Anchors = {today, later}
  Requests <- Everything
  Verdict <- EverythingVerdict
  LockKey <- CollidingLockKey
  LockBound = 8
  Isolation = "repeatable read"
  Faults = {"session", "statement", "crash", "operation", "tamper"}
INVARIANTS
  OneRowPerBinding
PROPERTIES
  ImplementsPromise
  EveryAttemptEnds
