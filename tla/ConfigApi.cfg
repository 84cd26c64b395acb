SPECIFICATION Spec
CONSTANTS
  None = None
  api = api
  own = own
  Handlers = {h1, h2}
  Names = {n1, n2}
  Servers <- ApiServers
  OwnServer = own
  Forms <- OneForm
  Endpoints = {e1}
  Dialect = "postgres"
  MaxClusters = 2
  MaxSources = 2
  MaxRows = 4
INVARIANTS NamesUnique SourcesOwned StatusFound ReachableAnswered ConnectedReached HealthFound AnswersOwn
SYMMETRY Symmetry
