SPECIFICATION FairSpec
CONSTANTS
  Addresses = {a1, a2}
  MaxDatagrams = 4
  None = None
INVARIANTS
  TypeOK
  AtMostOneCoroutine
  StateMatchesTask
  SingleClientData
  DatagramsInPlace
PROPERTIES
  EveryDatagramServed
  ImplementsOrderedDelivery
CHECK_DEADLOCK FALSE
