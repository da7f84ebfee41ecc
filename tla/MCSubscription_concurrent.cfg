\* Two requests at once, notifications in any order.
CONSTANTS
  ios = ios
  android = android
  other = other
  Token = {ios, android, other}
  PlatformOf <- MCPlatformOf
  Handler = {h1, h2}
  Mismatched = {other}
  MaxChanges = 3
  MaxFaults = 1
  NoNote = NoNote
SPECIFICATION FairSpec
INVARIANTS
  OnlySoldPeriods
  StatusIsAnnounced
PROPERTIES
  InboxDrains
CHECK_DEADLOCK FALSE
