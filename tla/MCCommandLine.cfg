\* One executor; a line holds two letters.
SPECIFICATION CommandSpec
CONSTANTS
  Slots = {0, 1, 2, 3, 4, 5}
  EventTypes = {}
  NumEvents = 1
  GenLimit <- MCGenLimit
  Lens = {0, 1, 2, 3, 4, 7, 8, 512}
  Boot = 0
  Driver = 1
  Poller = 2
  Ui = 3
  Courier = 4
  Executors = {5}
  MaxLine = 4
  Letter = {"x"}
CHECK_DEADLOCK FALSE
INVARIANTS LineKept NoCircle
PROPERTIES EverybodyReturns
