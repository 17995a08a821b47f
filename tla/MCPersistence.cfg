SPECIFICATION DiskSpec
CONSTANTS
  Keep = 3
  MaxWorlds = 2
  MaxStamps = 6
INVARIANTS DiskTypeOK NewestFirst RollingHistory
