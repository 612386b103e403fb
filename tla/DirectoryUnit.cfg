\* A root with one subdirectory that comes and goes.
SPECIFICATION FairSpec
CONSTANTS
  root = root  sub = sub
  Dir = {root, sub}
  Root = root
  Parent <- UnderRoot
  Content = {c1, c2}
  None = None
  EventCap = 1
  MaxChanges = 2
  MaxScans = 2
  Timing = {"brief", "write"}
INVARIANTS TypeOK SupersededFiresSilent TreeWatched SnapshotCurrent
PROPERTY EventuallyPushed
\* Nothing is left to do once the game has stopped.
CHECK_DEADLOCK FALSE
