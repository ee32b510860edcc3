\* Three sessions for two places, taken and given back, and two of them at a
\* time at the same notifications; one client may be stopped.
SPECIFICATION UnprintedSpec
SYMMETRY Alike
CONSTANTS
  Sessions = {s1, s2, s3}
  other = other
  nobody = nobody
  m1 = m1
  Data = {other, nobody, m1}
  NoData = NoData
  Profiles = {me, other}
  Me = me
  MAX_TRIES = 0
  NumNotifs = 2
  MaxTimeouts = 1
  MayTerminate = FALSE
  CLIENT_MAX_TRIES = 3
  Script <- NoCommands
  Patient = TRUE
  Quitters = {s1}
  MayDie = FALSE
  MaxSends = 0
INVARIANT PlacesCounted
INVARIANT ConnectedFirst
INVARIANT SessionInv
INVARIANT NeverBackwards
\* The clients, and with them or by a crash the server, may stop.
CHECK_DEADLOCK FALSE
