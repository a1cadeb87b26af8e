CONSTANTS
  Sides = {"client", "server"}
  Outbox <- Everything
  MaxItems = 3

SPECIFICATION Spec
INVARIANTS TypeOK FramesInOrder EndsWhenDue Forwardable Reloads IInv
PROPERTY ImplementsDelivery
CHECK_DEADLOCK FALSE
