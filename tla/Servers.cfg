SPECIFICATION ServersSpec
CONSTANTS
  HeaderSize = 2
  BufferSize = 2
  MaxContent = 3
  MaxPadding = 1
  PutSize = 1
  MaxRecords = 4
  MaxWrites = 1
  MaxHead = 7
  MaxLength = 2
  MaxSent = 3
  MaxAttempts = 2
  Peer = {a, b}
  Usage = {}
  MaxDeferred = 2
  TimerName = {x, y, z}
  StartMoved = FALSE
  Process = {p, q}
  NoProcess = none
  Rivals = FALSE
CHECK_DEADLOCK FALSE
INVARIANTS ContentDelivered ReplyWellFormed RequestAnswered
  HeadReceived ContentAccounted NotReset
  ConnectionsLive NothingDangling TimerCallsItself PidFileKept
