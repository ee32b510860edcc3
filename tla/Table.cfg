SPECIFICATION Spec
CONSTANTS
  Threads = {t1, t2}
  a = a
  b = b
  c = c
  Dot = Dot
  Comma = Comma
  Characters = {a, b, c, Dot}
  Code <- Alphabetical
  Profiles <- Plain
  Messages = {m1}
  Nobody = Nobody
  Free = Free
  MaxKills = 1
  KillInSave = FALSE
SYMMETRY AnyThread
INVARIANT TypeOK
INVARIANT FollowersHaveRows
INVARIANT FollowsSurvive
INVARIANT OncePerFollower
INVARIANT ReachesFollowers
INVARIANT FileReadsBack
\* The users may stop.
CHECK_DEADLOCK FALSE
