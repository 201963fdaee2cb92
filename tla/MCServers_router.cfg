CONSTANTS
  a = a
  b = b
  urlA = urlA
  urlA2 = urlA2
  urlB = urlB
  cmdA = cmdA
  Targets = {urlA, urlA2, urlB, cmdA}
  IsUrl <- Urls
  Stems = {a, b}
  NameOf <- Named
  MaxServers = 4
  BasePort = 4
  DashboardPort = 4
  LastPort = 7
  Requests = {r1}
  NoServer = none
SPECIFICATION FairSpec
INVARIANTS IdsApart RoutedRight
PROPERTIES FailureEndsAll SignalEndsAll PostAnswered
CHECK_DEADLOCK FALSE
