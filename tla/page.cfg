\* Two incidents, one page that connects twice.  The bounds on rows and
\* connections make the system stop.
SPECIFICATION Spec
CONSTANTS
  i1 = i1
  i2 = i2
  None = None
  Ids <- TwoIds
  MaxRows = 3
  MaxConnects = 2
  MaxUnderWay = 2
INVARIANTS
  TypeOK
  JoinedIsMember
  JoinedShowsBroadcasts
  ListedUnlessMissed
SYMMETRY Symmetry
CHECK_DEADLOCK FALSE
