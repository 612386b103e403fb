\* Two files in a directory that is also unwatched and watched again.
SPECIFICATION FairSpec
CONSTANTS
  File = {f1, f2}
  Content = {c1, c2}
  None = None
  Fire = {i1, i2}
  EventCap = 1
  MaxWrites = 3
  MaxAdds = 1
  Timing = {}
INVARIANTS TypeOK LastReportCurrent NoDuplicateReport
PROPERTIES EventuallyReported CloseReleases
\* The watcher may be closed, and the game may stop writing.
CHECK_DEADLOCK FALSE
