CONSTANTS
  Servers = {s1, s2, s3}
  Launchers = {l1, l2}
  MaxPolls = 2
  None = None
SPECIFICATION Spec
INVARIANTS OwnsSocket
PROPERTIES LockFreed
CHECK_DEADLOCK FALSE
