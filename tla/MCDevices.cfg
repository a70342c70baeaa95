SPECIFICATION DeviceSpec
CONSTANTS
  NULL = NULL
  Thread = {t1, t2}
  User = {t1, t2, t3}
  Sector = {s1, s2}
  Value = {v1, v2}
  DiskCacheSize = 2
  Garbage = {0, 100}
  MaxTicks = 3
  EOF = EOF
  Char = {"a", "b"}
  Typed <- TypedText
  OutputBound = 2
  SectorsPerTrack = 3
  NumTracks = 3
  RotationTime = 2
  SeekTime = 3
  MaxTime = 20
  Machine = {0, 1}
  Box = {0, 1}
  Sender = {0, 1, 2}
  HostOf <- Hosts
  Route <- Routes
  Data = {d1, d2}
  Tries = 2
  MailBound = 2
INVARIANTS CacheCoherent  InputInOrder LatencyIsPhysical
PROPERTIES ImplementsAtomicDisk AllInputRead
PROPERTIES ImplementsChannel CallsReturn NetworkTestEnds
CHECK_DEADLOCK FALSE
