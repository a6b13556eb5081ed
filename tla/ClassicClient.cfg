SPECIFICATION FairSpec
CONSTANTS
  Threads = {t1, t2}
  Devices = {d1, d2}
  Servers = {s1, s2}
INVARIANTS
  TypeOK
  ListIsServed
PROPERTIES
  CallsReturn
