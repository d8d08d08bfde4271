SPECIFICATION Spec
CONSTANTS
  Findings <- SomeFindings
  Sources <- SomeSources
  Rulesets = {"r1", "r2"}
  SuppressionFiles <- SomeSuppressions
  Gates <- SomeGates
  Dates = {1, 2, 3}
  SkipCounts = {0, 1}
  Absent = Absent
  Malformed = Malformed
INVARIANTS
  TypeOK
  PassHidesNothing
  ExpiredBlocks
  TimeOnlyTightens
  BlocksOnlyOpen
