CONSTANTS
  c1 = c1
  c2 = c2
  Clients <- TwoClients
  MaxCalls = 2
  MaxBoots = 2
  Faults = {"interrupt", "stop", "crash"}
SPECIFICATION Spec
INVARIANT TypeOK
INVARIANT SemaphoreExclusive
PROPERTY AtMostOnce
SYMMETRY Symmetry
