CONSTANTS
  Sides = {"client", "server"}
  Outbox <- Everything
  MaxItems = 1

SPECIFICATION Spec
INVARIANT SettingsErrorAsDocumented
CHECK_DEADLOCK FALSE
