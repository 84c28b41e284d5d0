SPECIFICATION AnySpec
CONSTANTS
  t1 = t1  t2 = t2
  Threads = {t1, t2}
  Slots <- TwoAndOne
  Null = Null
  Datas = {d1, d2}
  Kernels = {k}
  Before = {{d2}, {k}}
  MaxGroup = 1
  Policies = {"rbt", "avl"}
  MaxSize = 7
  Keys = {1, 2, 3, 5}
  Vals = {1, 2}
  InitialBuckets = 2
  Loads = {1, 2}
  MaxBuckets = 5
  MaxLost = 1
  Elems = {1, 2}
  MaxLen = 5
  MaxList = 3
  MIN_PACKET_SIZE = 2
  MAX_PACKET_SIZE = 6
  Align = 4
  Sizes = {2, 3, 6, 7}
  MaxPackets = 4
  Size = 4
  MaxPacket = 3
  MaxBytes = 7
  Pieces <- TablePieces
  MaxPieces = 3
  LineSizes = {5}
  Written <- WrittenAs
  Lexemes <- EachLexeme
  Gaps <- NoneOrBoth
  MaxLexemes = 3
  Letters = {"x", "i", "f", "n", "q", "e"}
  Digits = {"1", "2"}
  IntOf <- Numerals
  Natives <- LibraryNames
  MaxStack = 40
INVARIANTS ThereWhileHeld BytesInOrder PacketsAreTheStream TextsAreRead ScriptMeansItsProgram
PROPERTIES ActsOnSequence IndexesKept TreesKeep
CHECK_DEADLOCK FALSE
