SPECIFICATION EditSpec
CONSTANTS
  Rules <- MCRules
  ToolNames <- MCToolNames
  Details <- MCDetails
  Paths <- MCPaths
  Contents <- MCContents
  OldStrs <- MCOldStrs
  NewStrs <- MCNewStrs
  Context = 1
  MaxLines = 3
  MaxSessionRules = 1
  MaxCalls = 2
INVARIANTS
  EditTypeOK
  DecisionFollowsRules
  PreviewIsKept
  EditsOnePlace
  OnlyApprovedEdits
