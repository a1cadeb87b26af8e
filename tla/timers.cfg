CONSTANTS
  Clients = {c1}
  Poll = 2
  ReconnectDelay = 150
  Late = 1
  MaxArrivals = 3
  MaxHeld = 2

SPECIFICATION Spec
INVARIANTS ShutdownDelayedByArrivals ClientNoticesExit IInv
PROPERTY ReconnectPaced
