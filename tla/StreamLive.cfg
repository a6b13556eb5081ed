SPECIFICATION FairSpec
CONSTANTS
  Windows = TRUE
  Calls = {"play", "close", "delete", "sound", "mute"}
  Sessions = {1}
  Formats = {f1}
  Voices = {v1}
  Buffers = {1}
  QueueCap = 2
PROPERTIES
  DeadReadIsReleased
  CallsReturn
