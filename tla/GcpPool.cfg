SPECIFICATION Spec
CONSTANTS
  Accounts = {a1, a2}
  Projects = {1, 2}
  Limit = 1
  Pages = {k1, k2}
  Tasks = {t1, t2}
  None = None
  MaxRevisits = 1
  MaxFaults = 1
INVARIANTS TypeOK Quota NotUndercounted NotLeaked
SYMMETRY Alike
