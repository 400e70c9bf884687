CONSTANTS
  Events <- MCEvents
  Delays <- MCDelays
  QueueSize = 3
  CycleMax = 2
  UnitsPerCycle = 2
  Overrun = 1
  MaxBoosts = 1
  TickModulus = 4
SPECIFICATION FairSpec
INVARIANTS
  EntriesConserved
  Sorted
  DueTimeKept
  NeverLate
PROPERTIES
  FirstComeFirstServed
  NoDrift
  ClockSteady
  EventuallyServed
