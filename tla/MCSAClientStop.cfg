SPECIFICATION Spec
CONSTANTS
  service = service
  connector = connector
  Callers = {service, connector}
  Calls <- AgentCalls
  Threads = {r1}
  Servers = {s1}
  EvtSlots = 1
  AutoStart = TRUE
  Tls = FALSE
  NULL = NULL
INVARIANT NoInitIsReported
