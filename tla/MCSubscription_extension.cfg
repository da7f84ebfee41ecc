\* A renewal that Google reports after the cancellation.
CONSTANTS
  ios = ios
  android = android
  other = other
  Token = {android}
  PlatformOf <- MCPlatformOf
  Handler = {h1}
  Mismatched = {}
  MaxChanges = 5
  MaxFaults = 0
  NoNote = NoNote
SPECIFICATION Spec
INVARIANTS
  GoogleAnnounced
CHECK_DEADLOCK FALSE
