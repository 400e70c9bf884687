CONSTANTS
  Lines <- MCLines
  DeviceIrqs <- MCDeviceIrqs
  Machine = "ega_vga"
  GuestModes = {}
  GuestInits = {}
SPECIFICATION FairSpec
INVARIANTS
  IrqCheckExact
  CascadeExact
  ActiveIsHighest
PROPERTIES
  StartsOnlyHigher
  ReadyIsServed
CHECK_DEADLOCK FALSE
