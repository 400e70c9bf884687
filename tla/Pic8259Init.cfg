CONSTANTS
  Lines <- MCCascade
  DeviceIrqs <- MCCascadeIrq
  Machine = "pcjr"
  GuestModes <- MCAllModes
  GuestInits = {0, 1}
SPECIFICATION Spec
INVARIANTS
  InitSequence
  CascadeConsistent
CHECK_DEADLOCK FALSE
