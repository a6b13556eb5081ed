SPECIFICATION Spec
CONSTANTS
  Threads = {t1, t2}
  QueueCap = 3
  MaxLogins = 3
SYMMETRY Symmetry
INVARIANTS
  TypeOK
  BufferOutlivesWrite
  StaleFramesBounded
