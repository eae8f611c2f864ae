CONSTANTS
  c1 = c1
  c2 = c2
  Clients <- TwoClients
  NotificationFlags <- LockAndSyncOnly
  TimeoutMs <- NoWait
  Faults = {"send_fail", "client_error", "client_crash", "unregister"}
  MaxRequestId = 2
SPECIFICATION FairSpec
INVARIANT TypeOK
INVARIANT BlockedWhileLocked
INVARIANT OneLateRegistration
PROPERTY RequestEnds
