CONSTANTS
  Readers = {r1, r2}
  big = big
  schema = schema
  s1 = s1
  s2 = s2
  t1 = t1
  t2 = t2
  Artifacts <- MCArtifacts
  Bytes <- MCBytes
  Readable <- MCReadable
  Requests <- MCRequests
  Scopes = {s1, s2}
  ChunkSizes = {1, 2}
  MaxCount = 2
  MaxPinnedBytes = 4
  MaxReplays = 2
  Idle = 1
  Absolute = 2
  FinalReplay = 1
  Horizon = 2
  None = None
SPECIFICATION Spec
CHECK_DEADLOCK FALSE
PROPERTY CommittedReplayWins
