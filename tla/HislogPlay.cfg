SPECIFICATION RunningSpec
CONSTANTS
  Intervals <- MCInterval
  Gaps = {1000}
  Elapsed = {0}
  SeekSeconds = {0, 1}
  MaxFrames = 4
  MaxDownloads = 2
  MaxOps = 1
  MaxAudio = 1
INVARIANTS
  TypeOK
  PublishedIsComplete
  ReadersBehindDownload
PROPERTIES
  NoFrameSkipped
  PlaybackAdvances
