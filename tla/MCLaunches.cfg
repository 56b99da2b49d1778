SPECIFICATION Spec
CONSTANTS
  IntLimit = 8
  Stems <- MCStems
  lower <- MClower
  Procs <- MCProcs
  Polite <- MCPolite
  Obedient <- MCObedient
  Answering <- MCAnswering
  MaxPolls = 1
  Pages <- MCPages
  MaxBytes = 14
  HeadBytes = 2
  DefaultMaxChars = 5
  MaxMaxChars = 7
  AskedChars <- MCAskedChars
  MaxFetches = 1
  Scenes <- MCScenes
  Starter <- MCStarter
  Torn <- MCTorn
  ServerTools <- MCServerTools
  BuiltIns <- MCBuiltIns
  WebTools <- MCWebTools
  MaxLaunches = 2
INVARIANTS
  LaunchTypeOK
  NamesStable
  FetchIsHonest
PROPERTIES
  LayersInOrder
  StarterHelps
  ServersEnd
