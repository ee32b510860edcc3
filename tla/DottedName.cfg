SPECIFICATION Spec
CONSTANTS
  Threads = {t1, t2}
  a = a
  b = b
  c = c
  Dot = Dot
  Comma = Comma
  Characters = {a, b, c, Dot}
  Code <- Alphabetical
  Profiles <- Dotted
  Messages = {m1}
  Nobody = Nobody
  Free = Free
  MaxKills = 1
  KillInSave = FALSE
\* The users may stop.
CHECK_DEADLOCK FALSE
INVARIANT FollowersHaveRows
