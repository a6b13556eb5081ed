SPECIFICATION Spec
CONSTANTS
  Windows = FALSE
  Calls = {"play", "close", "delete", "sound", "mute", "capture", "record", "norecord"}
  Sessions = {1, 2}
  Formats = {f1, f2}
  Voices = {v1}
  Buffers = {1, 2}
  QueueCap = 2
INVARIANTS
  TypeOK
  VoiceFaultsOnlyAfterClose
  RecordingWhole
  StatusIsHonest
PROPERTIES
  ImplementsChannel
