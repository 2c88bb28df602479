\* The init task, one more and a micro-task whose slot is used twice; two queries
\* for the three of them and two kinds of events, of which one happens.
SPECIFICATION PrjSpec
CONSTANTS
  NTasks = 2
  NMicro = 1
  MaxPriority = 2
  NumEvents = 2
  NumTypes = 2
  Devices = {0}
  Lens = {1}
  PriorityArgs = {0, 1}
  Ops <- MCOps
  GenLimit <- MCGenLimit
CHECK_DEADLOCK FALSE
INVARIANTS TypeOK IdentifiersOK SendQueueOK ReceiverQueueEmpty EventQueueOK
INVARIANTS NoOutcomeForPreempted ListsWellFormed LiveTasksListed
PROPERTIES BlockedUntilServed DeliveredToAddressee KeepsPromise
PROPERTIES MostUrgentFirst NoStarvation
