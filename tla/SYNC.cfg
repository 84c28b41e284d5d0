SPECIFICATION AnySpec
CONSTANTS
  Lockers = {s1,s2,w1}
  NoId = NoId
  Garbage = {NoId}
  MaxDepth = 3
  t1 = t1  t2 = t2  c1 = c1  c2 = c2  x = x  Nil = Nil
  s1 = s1  s2 = s2  w1 = w1  w2 = w2
  Setters = {s1,s2}
  Waiters = {w1,w2}
  Timeouts = {3}
  Second = 2
  MaxNow = 3
  Spurious = TRUE
  None = None
  h1 = h1  h2 = h2  o1 = o1  o2 = o2  o3 = o3
  MayFail = TRUE
  Nested = TRUE
INVARIANTS TimeoutNearlyDue SleeperIsNotified ExtraDelivered
PROPERTIES SetLetsGo ImplementsLock SwapsToSavedStack KeepsExactlyReachable
