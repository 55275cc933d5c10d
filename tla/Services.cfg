CONSTANTS
  n1 = n1
  r1 = r1
  c1 = c1
  c2 = c2
  u1 = u1
  k1 = k1
  k2 = k2
  Names = {n1}
  RunIds = {r1}
  NoRun = NoRun
  Clients = {c1, c2}
  Facts = {"agent_launches"}
  Outcomes = {"succeeded", "lost"}
  MaxLives = 2
  MaxTurns = 2
  MaxMade = 2
  MaxFaults = 1
  Kinds = {"tokens", "noise"}
  Limit = 1
  Users = {u1}
  Cloner = Cloner
  Clones = {k1, k2}
  MaxPath = 2
  MaxKnown = 1
  Requests <- TheRequests
  MaxAsks = 2
  Cap = 1
  Workers = 2
  Providers = {"codex", "ollama"}
  MaxUpdates = 2
  History = 1
  Cores = 2
  MaxTime = 3
  Agents = {"claude"}
  Models = {"a", "b"}
  Labels = {"a", "b"}
  Unset = "unset"
  Safe <- ModelAsLabel
  DefaultModels <- NoDefaultModels
  Lists <- TheLists
SPECIFICATION Spec
INVARIANTS
  CategoryInStep
  
  UsageIsWhole
  ActiveIsListed
  RecentIsKept
  ReportIsTrue
  RateIsReal
  FindsItsSpec
PROPERTIES
  NoLostUpdate
  NoWorkspaceLost
  CloneSettles
  AskSettles
  RefreshFinishes
CHECK_DEADLOCK FALSE
