\* Two requests at once, a token of each store, a fault.
CONSTANTS
  ios = ios
  android = android
  other = other
  Token = {ios, android}
  PlatformOf <- MCPlatformOf
  Handler = {h1, h2}
  Mismatched = {}
  MaxChanges = 4
  MaxFaults = 1
  NoNote = NoNote
SPECIFICATION Spec
SYMMETRY Symmetry
INVARIANTS
  TypeOK
  SettledAgrees
  AppleAnnounced
CHECK_DEADLOCK FALSE
