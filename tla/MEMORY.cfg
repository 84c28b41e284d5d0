SPECIFICATION AnySpec
CONSTANTS
  None = None  Nil = Nil
  c = c  u = u
  Threads = {c, u}
  Pooled = {c}
  Requests = {350000, 1200000}
  Asks <- SmallAndAll
  Bases <- ThreeBases
  MaxHeld <- FiveAndOne
  Nodes = {n1, n2, n3, n4}
  Programs = {{n1}, {n1, n2}}
  MaxDetached = 1
  Pieces <- XmlPieces
  MaxPieces = 4
  CharOf <- CharOf65
  x1 = x1  x2 = x2
  Graphs <- TwoObjects
  Records <- EachType
  MaxRecords = 2
  Codes <- ThreeCodes
  MaxChars = 2
  Utf8 <- Utf8Of
  Gbk <- GbkOf
  Decimal <- ThreeNumbers
  GbkTable <- TwoEntries
  Lost = Lost
INVARIANTS NodesAccounted TextComesBack
PROPERTIES ImplementsAllocator ListsKept SavedComesBack
CHECK_DEADLOCK FALSE
