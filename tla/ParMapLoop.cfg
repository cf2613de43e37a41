\* Two callers, two threads, a nested map and a failing one.
CONSTANTS
  w1 = w1
  w2 = w2
  c1 = c1
  c2 = c2
  outer = outer
  failing = failing
  inner = inner
  bad = bad
  late = late
  j1 = j1
  NoJail = NoJail
  Workers = {w1, w2}
  Callers = {c1, c2}
  Jails = {j1}
  MaxCalls = 1
  Lambdas = {outer, failing, inner, bad}
  Main <- MCMain
  Body <- MCBody
SPECIFICATION Spec
INVARIANTS TypeOK ScopeOfTask
PROPERTIES ImplementsLoop CallsReturn
CHECK_DEADLOCK FALSE
