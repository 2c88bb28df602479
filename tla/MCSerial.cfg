\* Two clients; two characters may arrive, the UART holds one.
SPECIFICATION SerialSpec
CONSTANTS
  Slots = {0, 1, 2, 3}
  EventTypes = {3}
  NumEvents = 1
  GenLimit <- MCGenLimit
  Lens = {0, 1, 2, 4, 6, 20, 512, 518}
  Boot = 0
  Driver = 1
  Poller = 2
  Clients = {0, 3}
  Uart = 3
  Letters <- MCLetters
  MaxChars = 2
  FifoSize = 1
CHECK_DEADLOCK FALSE
INVARIANTS CharactersKept NobodyForgotten
PROPERTIES ReaderServed RequestsAnswered
