\* A lambda that draws after a nested parmap, mapped twice under one seed.
SPECIFICATION Spec
CONSTANTS
  w1 = w1
  w2 = w2
  c1 = c1
  c2 = c2
  outer = outer
  failing = failing
  inner = inner
  bad = bad
  late = late
  j1 = j1
  NoJail = NoJail
  Workers = {w1, w2}
  Callers = {c1}
  Jails = {j1}
  MaxCalls = 2
  Lambdas = {late, inner}
  Main <- MCLateMain
  Body <- MCLateBody
INVARIANTS SameSeedSameAnswer
CHECK_DEADLOCK FALSE
