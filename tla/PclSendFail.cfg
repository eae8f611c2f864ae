CONSTANTS
  c1 = c1
  c2 = c2
  Clients <- TwoClients
  NotificationFlags <- AllFlags
  TimeoutMs <- OneStep
  Faults = {"send_fail"}
  MaxRequestId = 4
SPECIFICATION Spec
INVARIANT OnlyUnreachableLeftLocked
