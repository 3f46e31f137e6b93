SPECIFICATION ProcessSpec
CONSTANTS
  Versions <- Releases
  First = 1
  Loads <- Loading
  Works <- Working
  Supervisors <- AllGuarded
  Worlds <- Redone
  Limit = 3
  KeepReleases = 3
  MaxDownloads = 2
  Newest = 3  DayLength = 3  Offers <- MCOffers  MaxOffers = 2
  MaxExits = 3
INVARIANT LiveTreeWhole
CHECK_DEADLOCK FALSE
