SPECIFICATION FairSpec
CONSTANTS
  Users = {u1, u2, u3}
  Sessions = {s1, s2}
  Entries = {e1, e2, e3}
  None = None
INVARIANTS IndInv
PROPERTIES LockIsServed ImplementsMutex
