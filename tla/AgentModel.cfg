SPECIFICATION AgentSpec
CONSTANTS
  Calls <- MCCalls
  Replies = {}
  Tools <- MCTools
  Gated <- MCGated
  Previewed <- MCPreviewed
  Lenient <- MCLenient
  Policy <- MCPolicy
  HasConfirmer = TRUE
  MaxIters = 2
  ToolResults = {"ok"}
  Usages = {7}
  OddChunks = FALSE
  Models = {"m1", "m2"}
  FirstModel = "m1"
  SystemPrompt = 100
  MaxPieces = 0
  MaxTurns = 2
CHECK_DEADLOCK FALSE
PROPERTIES
  RequestsUseSelectedModel
