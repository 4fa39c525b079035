CONSTANTS
  c1 = c1
  c2 = c2
  s1 = s1
  s2 = s2
  t1 = t1
  None = None
  Channels = {c1, c2}
  Senders = {s1, s2}
  Tags = {t1}
  TagOf <- MCTagOf
  Unique = {c1, c2}
  Capacity = 1
  MarkCapacity = 2
  MaxSends <- MCMaxSends
  MaxNumber = 3
SPECIFICATION Spec
INVARIANT UniqueIsAlone
CHECK_DEADLOCK FALSE
