SPECIFICATION Spec
CONSTANTS
  Pages = 2
  RequestSize = 2
  PipeSize = 3
  ForeignIds = {3, 5}
  MaxCalls = 2
  MaxLines = 6
CHECK_DEADLOCK FALSE
INVARIANT SurvivesServer
