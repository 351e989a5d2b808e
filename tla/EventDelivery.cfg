\* One event of the provider and its notice, two replicas.
SPECIFICATION DeliveryFairSpec
CONSTANTS
  Events = {e1}
  Consumers = {n1, n2}
  NoRow = NoRow
  MaxAttempts = 2
INVARIANTS
  AckedIsStored
  OneConsumerPerLease
PROPERTIES
  DeliversAtLeastOnce
CHECK_DEADLOCK FALSE
