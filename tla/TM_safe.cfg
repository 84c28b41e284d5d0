SPECIFICATION Spec
CONSTANTS
  c1 = c1  c2 = c2  t1 = t1  t2 = t2  i1 = i1  i2 = i2  i3 = i3
  Nil = Nil
  Thrds = {t1, t2}
  Impls = {i1, i2, i3}
  Clients = {c1, c2}
  Roles <- Pauses
  Sizes = {1, 2}
  Dynamic = {t2}
  Looping = {t1}
SYMMETRY Symmetry
INVARIANT BooksAgree
