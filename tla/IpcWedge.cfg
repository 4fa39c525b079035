CONSTANTS
  c1 = c1
  c2 = c2
  c3 = c3
  c4 = c4
  c5 = c5
  c6 = c6
  s1 = s1
  t1 = t1
  None = None
  Channels = {c1, c2, c3, c4, c5, c6}
  Senders = {s1}
  Tags = {t1}
  TagOf <- MCTagOf
  Unique = {}
  Capacity = 1
  MarkCapacity = 5
  MaxSends <- MCMaxSends
  MaxNumber = 2
SPECIFICATION WedgeSpec
INVARIANT NoSenderWedged
SYMMETRY Symmetry
CHECK_DEADLOCK FALSE
