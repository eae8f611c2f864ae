CONSTANTS
  c1 = c1
  c2 = c2
  Clients <- TwoClients
  NotificationFlags <- AllFlags
  TimeoutMs <- OneStep
  Faults = {"client_crash"}
  MaxRequestId = 4
SPECIFICATION LiveSpec
INVARIANT ExclusiveAccess
INVARIANT CurrentConfirmation
INVARIANT GrantedIsConfirmed
INVARIANT NoNilRead
INVARIANT NoClientLeftLocked
PROPERTY HeldIsReleased
