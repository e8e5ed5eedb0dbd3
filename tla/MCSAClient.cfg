SPECIFICATION Spec
CONSTANTS
  Callers = {app}
  Calls <- MCCalls
  Threads = {r1, r2}
  Servers = {s1, s2}
  EvtSlots = 1
  AutoStart = TRUE
  Tls = TRUE
  NULL = NULL
INVARIANTS
  TypeOK
  NoFault
  OneReconnectThread
  OneDialler
  SettledSession
  QuietWhenNotWanted
  QueuedEventsAreCurrent
SYMMETRY Symmetric
