SPECIFICATION Spec
CONSTANTS
  Calls <- MCCalls
  Replies <- MCReplies
  Tools <- MCTools
  Gated <- MCGated
  Previewed = {}
  Lenient = {}
  Policy <- MCPolicy
  HasConfirmer = TRUE
  MaxIters = 1
  ToolResults = {"ok"}
  Usages = {0, 9}
  OddChunks = FALSE
  Models = {"m1"}
  FirstModel = "m1"
  SystemPrompt = 0
  MaxPieces = 1
  MaxTurns = 4
  FullAt = 0
  Commands = {"chat", "compact"}
  FirstAgentsMd = 0
PROPERTIES
  SummaryIsOfCompactTurn
