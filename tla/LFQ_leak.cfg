SPECIFICATION AnySpec
CONSTANTS
  a = a  b = b  g1 = g1  g2 = g2  p1 = p1  p2 = p2
  NoReq = NoReq
  Threads = {g1, p1, p2}
  Values = {a, b}
  Cap = 4
  Timeout = 1
  CtorFlags = {"NONBLOCK"}
  Residue = {{}}
  MaxCrash = 0
  Calls <- LeakCalls
  Parts = {"mixed"}
INVARIANT KeyGivenBack
