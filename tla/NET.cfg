SPECIFICATION AnySpec
CONSTANTS
  a = a  b = b  Nil = Nil
  Values = {a, b}
  Size = 3
  NoOne = NoOne
  s1 = s1 s2 = s2
  Kinds = {"echo", "udpclient", "listener"}
  MaxData = 2
  Capacity = 1
  WinKinds = {"echo", "client", "pingpong", "udpclient", "listener"}
  WinData = 2
  Sessions = {s1, s2}
  Slots = {1, 2}
  MaxRegister <- TwoAndOne
  MaxCommands = 1
INVARIANTS FreedByTheLast NumbersInOnePlace OperationsEndFirst
PROPERTIES ImplementsFifo ReaderAdvances EchoesFlow CloseReturns
CHECK_DEADLOCK FALSE
