\* One session: the late ACK of a command is taken for a notification, and its
\* own ACK for the next notification's.
SPECIFICATION UnprintedSpec
CONSTANTS
  Sessions = {s1}
  other = other
  nobody = nobody
  m1 = m1
  Data = {other, nobody, m1}
  NoData = NoData
  Profiles = {me, other}
  Me = me
  MAX_TRIES = 3
  NumNotifs = 2
  MaxTimeouts = 0
  MayTerminate = FALSE
  CLIENT_MAX_TRIES = 3
  Script <- OneCommand
  Patient = TRUE
  Quitters = {}
  MayDie = FALSE
  MaxSends = 2
INVARIANT NothingLost
\* The clients, and with them or by a crash the server, may stop.
CHECK_DEADLOCK FALSE
