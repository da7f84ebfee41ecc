\* A cancellation at Apple that arrives after the expiry or revocation.
CONSTANTS
  ios = ios
  android = android
  other = other
  Token = {ios}
  PlatformOf <- MCPlatformOf
  Handler = {h1}
  Mismatched = {}
  MaxChanges = 5
  MaxFaults = 0
  NoNote = NoNote
SPECIFICATION Spec
PROPERTIES
  SilentKeepsEntitlement
CHECK_DEADLOCK FALSE
