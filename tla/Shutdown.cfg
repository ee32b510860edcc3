\* A client, one backup, and the primary if the server is itself a backup;
\* two signals.  Under fairness.
SPECIFICATION FairSpec
CONSTANTS
  Clients = {c1}
  Peers = {p1}
  ToPrimary = p0
  Main = Main
  Free = Free
  MaxSignals = 2
INVARIANT TypeOK
INVARIANT NoUseAfterDelete
PROPERTY ShutdownEnds
\* The process ends.
CHECK_DEADLOCK FALSE
