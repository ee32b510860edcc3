\* One session whose user waits for each confirmation, under fairness.
SPECIFICATION FairSpec
CONSTANTS
  Sessions = {s1}
  other = other
  nobody = nobody
  m1 = m1
  Data = {other, nobody, m1}
  NoData = NoData
  Profiles = {me, other}
  Me = me
  MAX_TRIES = 1
  NumNotifs = 1
  MaxTimeouts = 0
  MayTerminate = FALSE
  CLIENT_MAX_TRIES = 2
  Script <- FollowAndSend
  Patient = TRUE
  Quitters = {s1}
  MayDie = TRUE
  MaxSends = 3
INVARIANT CommandInv
PROPERTY CommandsAreReliable
PROPERTY TypedIsExecuted
\* The clients, and with them or by a crash the server, may stop.
CHECK_DEADLOCK FALSE
