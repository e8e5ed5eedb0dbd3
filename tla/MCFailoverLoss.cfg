SPECIFICATION MCSpec
CONSTANTS
  app = app
  s1 = s1
  s2 = s2
  s3 = s3
  Worker = worker
  Callers <- MCCallers
  Calls <- MCCalls
  Threads = {r1}
  Servers <- MCThreeServers
  ServerList <- MCTwoServerList
  MaxFailed = 2
  EvtSlots = 1
  AutoStart = TRUE
  Tls = FALSE
  NULL = NULL
PROPERTY FailsOverAfterLoss
