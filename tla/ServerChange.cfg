\* Two servers announce themselves, at once or one after the other.
SPECIFICATION FairSpec
CONSTANTS
  Announcers = {s1, s2}
  FirstServer = s0
INVARIANT TypeOK
INVARIANT TornOnlyByTwo
INVARIANT OneCommunication
PROPERTY UserEndsClient
\* The process ends.
CHECK_DEADLOCK FALSE
