CONSTANTS
  Producers = {p1}
  Consumers = {c1}
  Stoppers = {s1}
  Capacity = 2
  MaxBatch = 3
  MaxItems = 4
SPECIFICATION FairSpec
INVARIANTS
  TypeOK
  NoLossNoReorder
  TrueMeansAccepted
  ShortOnlyWhenDrained
  NoStrandedConsumer
  NoStrandedProducer
PROPERTIES
  ImplementsChannel
  CallsReturnAfterStop
  BlockedAreServed
