SPECIFICATION LiveSpec
CONSTANTS
  Callers = {app}
  Calls <- StartOnly
  Threads = {r1}
  Servers = {s1}
  EvtSlots = 1
  AutoStart = TRUE
  Tls = TRUE
  NULL = NULL
PROPERTY SessionReturns
