\* Two backups join at the same time or one after the other.
SPECIFICATION Spec
SYMMETRY Alike
CONSTANTS
  b1 = b1
  b2 = b2
  Backups <- TwoOfThem
  Primary = Primary
  MAX_TRIES = 1
  MaxInFlight = 2
  MaxPings = 1
  Mortal <- Nobody
  Row = Row
  Blank = Blank
  Size <- SizeOf
  Fields <- FieldsOf
INVARIANT IdsAgree
INVARIANT KnownIsTrue
INVARIANT SurvivesAlone
\* A primary whose backups have all ended has nothing left to do.
CHECK_DEADLOCK FALSE
