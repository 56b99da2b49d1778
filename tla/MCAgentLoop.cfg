SPECIFICATION AgentSpec
CONSTANTS
  Calls <- MCCalls
  Replies <- MCReplies
  Tools <- MCTools
  Gated <- MCGated
  Previewed <- MCPreviewed
  Lenient <- MCLenient
  Policy <- MCPolicy
  HasConfirmer = TRUE
  MaxIters = 2
  ToolResults = {"ok", "mangled"}
  Usages = {7}
  OddChunks = TRUE
  Models = {"m1"}
  FirstModel = "m1"
  SystemPrompt = 100
  MaxPieces = 1
  MaxTurns = 2
CHECK_DEADLOCK FALSE
INVARIANTS
  TypeOK
  HistoryPaired
  DeniedNeverRuns
  RoundsBounded
  EventsOrdered
PROPERTIES
  TurnsAreAtomic
