SPECIFICATION FairSpec
CONSTANTS
  k1 = k1
  k2 = k2
  c1 = c1
  c2 = c2
  p1 = p1
  today = today
  later = later
  Attempts = {a1, a2, a3}
  Keys = {k1, k2}
  Contexts = {c1, c2}
  Packages = {p1}
  Anchors = {today, later}
  Requests <- MCRequests
  Verdict <- MCVerdict
  Faults = {"crash", "io", "operation", "tamper"}
INVARIANTS
  TypeOK
  OneWriter
  RetriesAgree
PROPERTIES
  ImplementsPromise
  FileUnlocked
