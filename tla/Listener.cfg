\* One session that only listens; the client may be stopped or killed and the
\* server terminated at any point.  Under fairness.
SPECIFICATION FairSpec
CONSTANTS
  Sessions = {s1}
  other = other
  nobody = nobody
  m1 = m1
  Data = {other, nobody, m1}
  NoData = NoData
  Profiles = {me, other}
  Me = me
  MAX_TRIES = 3
  NumNotifs = 2
  MaxTimeouts = 0
  MayTerminate = TRUE
  CLIENT_MAX_TRIES = 3
  Script <- NoCommands
  Patient = TRUE
  Quitters = {s1}
  MayDie = TRUE
  MaxSends = 0
INVARIANT TypeOK
INVARIANT NothingLost
INVARIANT NeverFrontOfEmpty
PROPERTY FeedIsReliable
PROPERTY EveryNotificationPrinted
PROPERTY DeadSessionIsClosed
\* The clients, and with them or by a crash the server, may stop.
CHECK_DEADLOCK FALSE
