\* Two clients, two names and one too long, a registry with two entries.
SPECIFICATION ServerSpec
CONSTANTS
  Slots = {0, 1, 2, 3}
  EventTypes = {}
  NumEvents = 0
  GenLimit <- MCGenLimit
  Lens = {1, 40}
  Init0 = 0
  Server = 1
  First = 2
  Clients = {2, 3}
  Names = {"a", "b", "too long"}
  LongNames = {"too long"}
  MaxNames = 2
  Queries <- MCQueries
CHECK_DEADLOCK FALSE
INVARIANTS ServerKnown SomebodyReady RegistryOK
PROPERTIES KeepsRegistry CallsReturn
