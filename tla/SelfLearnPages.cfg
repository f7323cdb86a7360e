SPECIFICATION LearnSpec
CONSTANTS
  Ruled = {r1}
  Logged = {r2}
  Operators = {u1, u2}
  Requests = {q1, q2}
  EmployeeSets = {s1}
  NoSet = NoSet
  MaxMisses = 0
CHECK_DEADLOCK FALSE
INVARIANT
  PagesNeverDisagree
