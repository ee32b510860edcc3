\* One backup with the code's MAX_TRIES; it and the primary may be killed or
\* interrupted anywhere.  Under fairness.
SPECIFICATION FairSpec
CONSTANTS
  b1 = b1
  b2 = b2
  Backups <- OneBackup
  Primary = Primary
  MAX_TRIES = 3
  MaxInFlight = 3
  MaxPings = 3
  Mortal <- PrimaryAndOne
  Row = Row
  Blank = Blank
  Size <- SizeOf
  Fields <- FieldsOf
INVARIANT TypeOK
PROPERTY HandshakeEnds
PROPERTY DeadPrimaryNoticed
PROPERTY DeadBackupNoticed
\* A primary whose backups have all ended has nothing left to do.
CHECK_DEADLOCK FALSE
