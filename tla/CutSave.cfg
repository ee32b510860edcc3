SPECIFICATION Spec
CONSTANTS
  Threads = {t1, t2}
  a = a
  b = b
  c = c
  Dot = Dot
  Comma = Comma
  Characters = {a, b, c, Dot}
  Code <- Alphabetical
  Profiles <- Plain
  Messages = {m1}
  Nobody = Nobody
  Free = Free
  MaxKills = 1
  KillInSave = TRUE
\* The users may stop.
CHECK_DEADLOCK FALSE
INVARIANT FollowsSurvive
