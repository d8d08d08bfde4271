SPECIFICATION Spec
CONSTANTS
  Paths <- MCPaths
  Named <- MCNamed
  Contents <- MCContents
  SizeOf <- MCSizeOf
  Unreadable = {"nul"}
  RulesIn <- MCRulesIn
  ControlOf <- MCControlOf
  Renders <- MCRenders
  NoContent = "none"
  Limits <- MCLimits
  Scenarios <- MCScenarios
  Changes <- MCChanges
INVARIANTS
  TypeOK
  EveryEntryAccounted
  AnalysedIsAccounted
  PrivilegeIsReported
  GraphFindingsReal
  NoFindingIsCut
CHECK_DEADLOCK FALSE
