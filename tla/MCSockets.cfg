CONSTANTS
  InlineSlots = 2
  Builders = {b1, b2}
  MaxEntries = 4
  None = None
  Threads = {t1, t2}
  Objects = {x, y}
  Fds = {1, 2, 3}
  Scenarios <- MCScenarios
  Callers = {c1, c2}
  IntMax = 3
  ULongMax = 7
  MaxDatagram = 2
  Cases <- MCCases
  NoCall = NoCall
  ByteVectors <- MCByteVectors
  Numbers = {0, 1}
  Products <- MCProducts
SPECIFICATION MCSpec
CHECK_DEADLOCK FALSE
INVARIANTS OneOwner ConfiguredAsAsked OptionsKept SentAsReported ReceivedIsReported
