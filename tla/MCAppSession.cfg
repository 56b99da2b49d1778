SPECIFICATION FairSpec
CONSTANTS
  Calls <- MCCalls
  Replies <- MCReplies
  Tools <- MCTools
  Gated <- MCGated
  Previewed = {}
  Lenient = {}
  Policy <- MCPolicy
  HasConfirmer = TRUE
  MaxIters = 1
  ToolResults = {"ok", "mangled"}
  Usages = {0, 9}
  OddChunks = FALSE
  Models = {"m1"}
  FirstModel = "m1"
  SystemPrompt = 0
  MaxPieces = 1
  MaxTurns = 3
  FullAt = 8
  Commands = {"chat", "retry", "skill", "clear", "model", "init", "compact", "help", "esc"}
  FirstAgentsMd = 0
INVARIANTS
  UiTypeOK
  OneWorker
  PendingMatchesTurn
  PromptMatchesWorker
PROPERTIES
  EscEndsTurn
  PromptsAnswered
  EffectsOfTheirTurn
  UsesAgent
